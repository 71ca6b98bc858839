------------------------------ MODULE BiosPair ------------------------------
(***************************************************************************)
(* Emulator::run_bios_trace: one host thread steps two SH2Cores that run   *)
(* the same image on the shared bus, then probes a device by DMA.          *)
(***************************************************************************)
EXTENDS Sh2OnBus

CONSTANTS
    Images,    \* memories that hold a BIOS image
    ResetSp,   \* 0x1FFF0
    Budget,    \* the run-ahead budget, 16
    MaxSteps,  \* max_steps
    ProbeAddr  \* the device register of the DMA probe

ASSUME BiosAssumption == Budget \in Nat \ {0} /\ MaxSteps \in Nat

VARIABLES
    cores,  \* CPU -> SH2Core (master, slave)
    p,      \* CPU -> the operation it waits for (p0, p1), or Nothing
    seq,
    loop,   \* the statement of the loop that comes next
    turn,   \* the CPU whose produce_until_bus comes next or is running
    fuel    \* iterations left in produce_until_bus, or Idle outside of it

loopVars == <<cores, p, seq, loop, turn, fuel>>
vars == <<arbVars, loopVars>>

Nothing == <<>>
Some(op) == op # Nothing
Idle == -1

Init ==
    /\ \E image \in Images : ArbInitWith(image)
    /\ halt_on_fault = FALSE
    /\ cores = [c \in CpuIds |-> NewCore(c, 0, ResetSp)]
    /\ p = [c \in CpuIds |-> Nothing]
    /\ seq = 0 /\ loop = "top" /\ turn = 0 /\ fuel = Idle

Executed == cores[0].executed + cores[1].executed

LoopTop ==
    /\ loop = "top"
    /\ loop' = IF Executed < MaxSteps THEN "produce" ELSE "probe write"
    /\ UNCHANGED <<arbVars, cores, p, seq, turn, fuel>>

-----------------------------------------------------------------------------
(* produce_until_bus for both cores in turn *)

NextTurn ==
    /\ turn' = 1 - turn
    /\ loop' = IF turn = 0 THEN "produce" ELSE "publish"

\* The call returns with an operation, or with Nothing
Produced(op) ==
    /\ p' = [p EXCEPT ![turn] = op]
    /\ seq' = seq + 1
    /\ fuel' = Idle
    /\ NextTurn
    /\ UNCHANGED arbVars

AlreadyPending ==
    /\ loop = "produce" /\ Some(p[turn])
    /\ NextTurn
    /\ UNCHANGED <<arbVars, cores, p, seq, fuel>>

Producing == loop = "produce" /\ ~Some(p[turn])

IssuePending ==
    /\ Producing /\ fuel = Idle /\ S!Waiting(cores[turn].core)
    /\ Produced(DataOp(cores[turn], seq))
    /\ UNCHANGED cores

StartRun ==
    /\ Producing /\ fuel = Idle /\ ~S!Waiting(cores[turn].core)
    /\ fuel' = Budget
    /\ UNCHANGED <<arbVars, cores, p, seq, loop, turn>>

Running == Producing /\ fuel > 0

\* Seeded fault: cached instructions do not use up the budget
RunHitForFree ==
    /\ Running /\ Cached(cores[turn])
    /\ \E ins \in {CachedInstr(cores[turn])} :
          /\ ~IsMemory(ins)
          /\ cores' = [cores EXCEPT ![turn] = ExecuteCached(@, ins)]
    /\ UNCHANGED <<arbVars, p, seq, loop, turn, fuel>>

RunHit ==
    /\ Running /\ Cached(cores[turn])
    /\ \E ins \in {CachedInstr(cores[turn])} :
          /\ ~IsMemory(ins)
          /\ cores' = [cores EXCEPT ![turn] = ExecuteCached(@, ins)]
    /\ fuel' = fuel - 1
    /\ UNCHANGED <<arbVars, p, seq, loop, turn>>

RunMemory ==
    /\ Running /\ Cached(cores[turn])
    /\ \E ins \in {CachedInstr(cores[turn])} :
          /\ IsMemory(ins)
          /\ cores' = [cores EXCEPT ![turn] = DecodeCached(@, ins)]
    /\ Produced(DataOp(cores'[turn], seq))

RunFetch ==
    /\ Running /\ ~Cached(cores[turn])
    /\ Produced(FetchOp(cores[turn], seq))
    /\ UNCHANGED cores

RunEnd ==
    /\ Producing /\ fuel = 0
    /\ Produced(Nothing)
    /\ UNCHANGED cores

-----------------------------------------------------------------------------
(* Watermarks, the batch and its answers *)

\* Seeded fault: the watermark stops short of the pending operation
ReportedShort(c) == IF Some(p[c]) THEN p[c].req ELSE cores[c].t

\* Seeded fault: a core that ran out of budget reports the tick after its clock
ReportedPast(c) == IF Some(p[c]) THEN p[c].req + 1 ELSE cores[c].t + 1

Reported(c) == IF Some(p[c]) THEN p[c].req + 1 ELSE cores[c].t

\* With nothing to commit the loop starts over
Publish ==
    /\ loop = "publish"
    /\ progress_tracking_enabled' = TRUE
    /\ progress_up_to' = Advance(Advance(progress_up_to, 0, Reported(0)), 1, Reported(1))
    /\ loop' = IF Some(p[0]) \/ Some(p[1]) THEN "call" ELSE "top"
    /\ UNCHANGED <<timingVars, storeVars, traceVars, producer_last_enqueued_req_time, call>>
    /\ UNCHANGED <<cores, p, seq, turn, fuel>>

\* The vector fetches; cpus holds the CPU of each
Fetches ==
    (IF Some(p[0]) THEN <<p[0]>> ELSE <<>>) \o (IF Some(p[1]) THEN <<p[1]>> ELSE <<>>)

LoopCall ==
    /\ loop = "call"
    /\ loop' = "commit"
    /\ BatchCall(Fetches)
    /\ UNCHANGED <<cores, p, seq, turn, fuel>>

InBatch ==
    /\ loop = "commit"
    /\ BatchEnqueue \/ BatchEnqueued \/ BatchCommit \/ BatchReturn
    /\ UNCHANGED loopVars

\* The results of this batch for CPU c: at most one
ResultsFor(c) == {i \in 1..Len(call.committed) : call.committed[i].op.cpu = c}

Applied(c) ==
    IF ResultsFor(c) = {} THEN cores[c]
    ELSE apply_ifetch_and_step(cores[c],
                               call.committed[CHOOSE i \in ResultsFor(c) : TRUE].response)

LoopApply ==
    /\ loop = "commit"
    /\ BatchFinish
    /\ cores' = [c \in CpuIds |-> Applied(c)]
    /\ p' = [c \in CpuIds |-> IF ResultsFor(c) # {} THEN Nothing ELSE p[c]]
    /\ loop' = "top"
    /\ UNCHANGED <<seq, turn, fuel>>

-----------------------------------------------------------------------------
(* The DMA probe: a write at tick 0, whatever the time is, and a read *)

ProbeOp(kind, req, data) ==
    [cpu |-> 0, req |-> req, seq |-> seq, producer |-> "Auto", kind |-> kind,
     addr |-> ProbeAddr, size |-> 4, data |-> data, fill |-> 0, token |-> 0]

Probe ==
    /\ \/ loop = "probe write" /\ commit_dma(ProbeOp("MmioWrite", 0, 1)) /\ loop' = "probe read"
       \/ loop = "probe read" /\ commit_dma(ProbeOp("MmioRead", 1, 0)) /\ loop' = "done"
    /\ seq' = seq + 1
    /\ UNCHANGED <<cores, p, turn, fuel>>

Terminated == loop = "done" /\ UNCHANGED vars

Next ==
    \/ LoopTop \/ AlreadyPending \/ IssuePending \/ StartRun
    \/ RunHit \/ RunMemory \/ RunFetch \/ RunEnd
    \/ Publish \/ LoopCall \/ InBatch \/ LoopApply \/ Probe \/ Terminated

\* One thread that the host keeps running
Spec == Init /\ [][Next]_vars /\ WF_vars(Next)

-----------------------------------------------------------------------------
(* Properties *)

\* The COMMIT lines as they are printed: without sequence numbers, which count
\* the calls of produce_until_bus
Unnumbered == [i \in 1..Len(trace) |-> [trace[i] EXCEPT !.op.seq = 0]]

Atomic == INSTANCE AtomicCores WITH cores <- [c \in CpuIds |-> Applied(c)], trace <- Unnumbered

\* Run-ahead, its budget and the batches are invisible: every step of the loop
\* is an instruction of one core, the commit of the access that is next in
\* time, or nothing, for programs without TRAPA and RTE and also for those that
\* overwrite instructions one of the cores has cached (run_bios_trace,
\* emulator.cpp:470-518).
RunAheadInvisible == Atomic!Spec

\* The program ends: max_steps is reached and the probes are done.
Terminates == <>(loop = "done")

\* max_steps is overrun by less than two budgets, even if a program loops in
\* cached lines and never needs the bus.
StepsBounded == Executed < MaxSteps + 2 * Budget

Covers(op, a) == a \in op.addr..(op.addr + op.size - 1)

\* A fill of CPU c's line that holds byte a
Fills(line, c, a) ==
    /\ line.op.cpu = c /\ line.op.fill > 0 /\ line.fault = "none"
    /\ LineBase(line.op.addr) = LineBase(a)

\* A cached instruction byte differs from memory only if a store to it has
\* committed since the line was last filled: a line is as old as its fill and
\* no older (sh2_core.cpp:1068-1078).
StaleOnlyByStore ==
    \A c \in CpuIds, a \in RamAddr :
        /\ call.phase = "idle"
        /\ Resident(cores[c].icache, a)
        /\ CacheRead(cores[c].icache, a, 1) # memory[a]
        => \E i \in 1..Len(trace) :
              /\ trace[i].op.kind = "Write" /\ Covers(trace[i].op, a)
              /\ \A j \in (i + 1)..Len(trace) : ~Fills(trace[j], c, a)
=============================================================================
