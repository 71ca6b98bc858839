---------------------------- MODULE ScriptedPair ----------------------------
(***************************************************************************)
(* run_scripted_pair of src/core/emulator.cpp: one host thread steps two   *)
(* scripted CPUs and the arbiter.                                          *)
(***************************************************************************)
EXTENDS BusArbiter, ScriptedCpu

CONSTANT Scripts     \* the pairs <<script of CPU 0, script of CPU 1>>

ASSUME ScriptsAssumption == Scripts \subseteq Seq(ScriptOp) \X Seq(ScriptOp)

VARIABLES
    cpu,     \* CPU -> its state
    p,       \* CPU -> the operation it waits for (p0, p1), or NoOp
    loop     \* "top", "call", "commit" or "done"

pairVars == <<cpu, p, loop>>
vars == <<arbVars, pairVars>>

Init ==
    /\ ArbInit
    /\ halt_on_fault = FALSE
    /\ \E s \in Scripts : cpu = [c \in CpuIds |-> NewCpu(c, s[c + 1])]
    /\ p = [c \in CpuIds |-> NoOp]
    /\ loop = "top"

\* CPU c and its pending operation after the produce at the top of the loop
Produced(c) == IF Has(p[c]) THEN [cpu |-> cpu[c], op |-> p[c]] ELSE produce(cpu[c])

\* Seeded fault: the watermark passes the pending operation's own time by two
ReportedTooFar(q) == IF Has(q.op) THEN q.op.op.req + 2 ELSE q.cpu.local_time

\* Seeded fault: the watermark stops short of the pending operation
ReportedShort(q) == IF Has(q.op) THEN q.op.op.req ELSE q.cpu.local_time

\* executed_up_to as the loop computes it
Reported(q) == IF Has(q.op) THEN q.op.op.req + 1 ELSE q.cpu.local_time

\* Top of the loop: produce on both CPUs, publish both watermarks, and leave
\* when both scripts have ended
LoopTop ==
    /\ loop = "top"
    /\ \E q0 \in {Produced(0)}, q1 \in {Produced(1)} :
          /\ cpu' = [c \in CpuIds |-> IF c = 0 THEN q0.cpu ELSE q1.cpu]
          /\ p' = [c \in CpuIds |-> IF c = 0 THEN q0.op ELSE q1.op]
          /\ progress_up_to' = Advance(Advance(progress_up_to, 0, Reported(q0)), 1, Reported(q1))
          /\ loop' = IF ~Has(q0.op) /\ ~Has(q1.op) THEN "done" ELSE "call"
    /\ progress_tracking_enabled' = TRUE
    /\ UNCHANGED <<timingVars, storeVars, traceVars, producer_last_enqueued_req_time, call>>

\* The vector pending_ops: CPU 0's operation before CPU 1's
BatchOps ==
    (IF Has(p[0]) THEN <<p[0].op>> ELSE <<>>) \o (IF Has(p[1]) THEN <<p[1].op>> ELSE <<>>)

LoopCall ==
    /\ loop = "call"
    /\ loop' = "commit"
    /\ BatchCall(BatchOps)
    /\ UNCHANGED <<cpu, p>>

InBatch ==
    /\ loop = "commit"
    /\ BatchEnqueue \/ BatchEnqueued \/ BatchCommit \/ BatchReturn
    /\ UNCHANGED pairVars

\* The responses of this batch for CPU c: at most one
ResultsFor(c) == {k \in 1..Len(call.committed) : call.committed[k].op.cpu = c}

Applied(c) ==
    LET k == CHOOSE k \in ResultsFor(c) : TRUE
    IN  apply_response(cpu[c], p[c].index, call.committed[k].response, p[c].op.token)

\* End of the iteration: deliver the responses
LoopApply ==
    /\ loop = "commit"
    /\ BatchFinish
    /\ cpu' = [c \in CpuIds |-> IF ResultsFor(c) # {} THEN Applied(c) ELSE cpu[c]]
    /\ p' = [c \in CpuIds |-> IF ResultsFor(c) # {} THEN NoOp ELSE p[c]]
    /\ loop' = "top"

Terminated == loop = "done" /\ UNCHANGED vars

Next == LoopTop \/ LoopCall \/ InBatch \/ LoopApply \/ Terminated

\* One thread that the host keeps running
Spec == Init /\ [][Next]_vars /\ WF_vars(Next)

-----------------------------------------------------------------------------
(* Properties *)

\* The abstract CPU: with the reply that the batch's results already hold
\* delivered, and advanced to its next bus operation.
AbstractCpu(c) ==
    IF ~Has(p[c]) THEN produce(cpu[c])
    ELSE IF ResultsFor(c) # {}
           THEN CHOOSE q \in {produce(served) : served \in {Applied(c)}} : TRUE
    ELSE [cpu |-> cpu[c], op |-> p[c]]

Abstract == INSTANCE AtomicPair WITH cpus <- [c \in CpuIds |-> AbstractCpu(c)]

\* The loop commits exactly the operations, in exactly the order and with
\* exactly the timing, that AtomicPair prescribes.
CommitsInAbstractOrder == Abstract!Spec

\* The program ends: both scripts run to their end.
Terminates == <>(loop = "done")

Covers(access, a) == a \in access.addr..(access.addr + access.size - 1)

\* CPU c has issued a store to byte a that TinyCache::write did not see: through
\* the uncached alias, or across the end of a line
BypassedCache(c, a) ==
    \E i \in 1..(cpu[c].pc - 1) :
        LET ins == cpu[c].script[i]
        IN  /\ ins.kind = "Write" /\ Covers(ins, a)
            /\ ins.alias \/ CrossesLine(ins.addr, ins.size)

\* Whenever no store of CPU c is in flight, a cached byte of c differs from
\* committed memory only if the other CPU has committed a store to that byte or
\* c itself has bypassed its cache: the stores that change the cache before the
\* bus has seen them, of every width, never make it diverge.
OwnStoresCoherent ==
    \A c \in CpuIds, a \in RamAddr :
        /\ ~Has(p[c]) /\ call.phase = "idle"
        /\ Resident(cpu[c].cache, a)
        /\ CacheRead(cpu[c].cache, a, 1) # memory[a]
        => \/ BypassedCache(c, a)
           \/ \E i \in 1..Len(trace) :
                 /\ trace[i].op.cpu # c
                 /\ trace[i].op.kind = "Write"
                 /\ Covers(trace[i].op, a)

\* Every store enters the store buffer before its bus operation and leaves it
\* with its reply, so between operations the buffer is empty and the end of
\* the program finds both buffers drained.
StoresRetired ==
    \A c \in CpuIds :
        ~Has(p[c]) /\ call.phase = "idle" => cpu[c].store_buffer = <<>>
=============================================================================
