----------------------------- MODULE BusArbiter -----------------------------
(***************************************************************************)
(* The bus arbiter (src/bus/bus_arbiter.{hpp,cpp}) with the committed      *)
(* memory, the devices and the trace log that it alone writes.             *)
(*                                                                         *)
(* The arbiter is called by one thread at a time and runs to completion.   *)
(* commit and commit_dma are single steps.  commit_batch has two loops;    *)
(* each iteration is a step, and `call` holds the function's locals while  *)
(* it runs, so no other arbiter operation can start in between.            *)
(***************************************************************************)
EXTENDS BusOps

CONSTANTS
    TickMax,              \* numeric_limits<Tick>::max(), the "no watermark" sentinel
    DevState,             \* states of the DeviceHub
    DevInit,              \* its initial state
    DevRead(_, _, _),     \* DevRead(d, addr, size): value a device read returns
    DevWrite(_, _, _, _)  \* DevWrite(d, addr, size, data): DeviceHub after a write

VARIABLES
    bus_free_time,                    \* first tick at which the bus is free
    last_grant_cpu,                   \* CPU that won the last tie
    last_addr,                        \* last address on the bus, or None
    producer_last_req_time,           \* per slot: last executed request time, or None
    producer_last_enqueued_req_time,  \* per slot: last enqueued request time, or None
    progress_tracking_enabled,
    progress_up_to,                   \* per CPU: watermark, TickMax before the first one
    memory,                           \* CommittedMemory: address -> byte
    devices,                          \* DeviceHub
    trace,                            \* TraceLog::lines_
    halt_on_fault,
    should_halt,
    call                              \* locals of the commit_batch in progress

timingVars == <<bus_free_time, last_grant_cpu, last_addr, producer_last_req_time>>
storeVars  == <<memory, devices>>
progressVars == <<progress_tracking_enabled, progress_up_to>>
traceVars  == <<trace, halt_on_fault, should_halt>>
arbVars == <<timingVars, storeVars, progressVars, traceVars,
             producer_last_enqueued_req_time, call>>

ASSUME TickMaxAssumption == TickMax \in Nat

\* The devices are any object with a read and a write operation
ASSUME DeviceAssumption ==
    /\ DevInit \in DevState
    /\ \A d \in DevState, a \in MmioAddr, s \in AccessSizes :
          /\ DevRead(d, a, s) \in Value
          /\ \A v \in Value : DevWrite(d, a, s, v) \in DevState

\* 0xBAD0BAD0, the value of every rejected operation
kInvalidBusOpValue == -1

IdleCall == [phase |-> "idle", ops |-> <<>>, next |-> 1,
             pending |-> <<>>, committed |-> <<>>]

\* A new arbiter, log and hub on a memory that holds image
ArbInitWith(image) ==
    /\ bus_free_time = 0
    /\ last_grant_cpu = 1
    /\ last_addr = None
    /\ producer_last_req_time = [s \in Slots |-> None]
    /\ producer_last_enqueued_req_time = [s \in Slots |-> None]
    /\ progress_tracking_enabled = FALSE
    /\ progress_up_to = [c \in CpuIds |-> TickMax]
    /\ memory = image
    /\ devices = DevInit
    /\ trace = <<>>
    /\ halt_on_fault \in BOOLEAN
    /\ should_halt = FALSE
    /\ call = IdleCall

ArbInit == ArbInitWith([a \in RamAddr |-> 0])

-----------------------------------------------------------------------------
(* TraceLog *)

Faults == {"INVALID_BUS_OP", "NON_MONOTONIC_REQ_TIME", "ENQUEUE_NON_MONOTONIC_REQ_TIME"}

\* A COMMIT line.  If fault is not "none" the element stands for two lines of
\* the log, the FAULT line and the zero-length COMMIT line that follows it.
Line == [start : Nat, finish : Nat, op : BusOp, stall : Nat,
         value : Value \cup {kInvalidBusOpValue}, fault : {"none"} \cup Faults]

\* fault_response, with TraceLog::add_fault latching the halt request
fault_response(op, t, reason) ==
    /\ trace' = Append(trace, [start |-> t, finish |-> t, op |-> op, stall |-> 0,
                               value |-> kInvalidBusOpValue, fault |-> reason])
    /\ should_halt' = (should_halt \/ halt_on_fault)
    /\ UNCHANGED halt_on_fault

add_commit(op, start, finish, value) ==
    /\ trace' = Append(trace, [start |-> start, finish |-> finish, op |-> op,
                               stall |-> finish - op.req, value |-> value, fault |-> "none"])
    /\ UNCHANGED <<halt_on_fault, should_halt>>

set_halt_on_fault(enabled) ==
    /\ halt_on_fault' = enabled
    /\ should_halt' = (enabled /\ should_halt)
    /\ UNCHANGED <<timingVars, storeVars, progressVars, trace,
                   producer_last_enqueued_req_time, call>>

-----------------------------------------------------------------------------
(* Executing one operation *)

\* The cache line that holds addr
LineData(addr, line_size) == read_block(memory, (addr \div line_size) * line_size, line_size)

\* Seeded fault: the grant ignores the transaction that holds the bus
StartEager(op) == op.req

\* Seeded fault: an operation may start before it was requested
StartIgnoresRequest(op) == bus_free_time

Start(op) == IF op.req > bus_free_time THEN op.req ELSE bus_free_time

contention_extra(op, had_tie) ==
    (IF op.kind # "Barrier" /\ last_addr # None /\ op.addr = last_addr
       THEN Latency["same_address_contention"] ELSE 0)
    + (IF had_tie THEN Latency["tie_turnaround"] ELSE 0)

Finish(op, had_tie) == Start(op) + base_latency(op) + contention_extra(op, had_tie)

\* Seeded fault: the per-producer time check is missing
NonMonotonicNever(op) == FALSE

NonMonotonic(op) ==
    LET slot == producer_slot(op)
    IN  producer_last_req_time[slot] # None /\ op.req < producer_last_req_time[slot]

Rejected(op) == ~ValidBusOp(op) \/ NonMonotonic(op)

RejectReason(op) == IF ~ValidBusOp(op) THEN "INVALID_BUS_OP" ELSE "NON_MONOTONIC_REQ_TIME"

IsWrite(op) == op.kind \in {"Write", "MmioWrite"}

ToDevice(op) == op.kind \in {"MmioRead", "MmioWrite"} \/ is_mmio(op.addr)

\* The value of an executed operation: what was read, or the data it carried
ValueOf(op) ==
    CASE op.kind = "Barrier" \/ IsWrite(op) -> op.data
      [] OTHER -> IF ToDevice(op) THEN DevRead(devices, op.addr, op.size)
                                  ELSE read(memory, op.addr, op.size)

\* The BusResponse that the producer receives
Response(op, had_tie) ==
    IF Rejected(op)
      THEN [value |-> kInvalidBusOpValue, stall |-> 0, line |-> <<>>]
      ELSE [value |-> ValueOf(op),
            stall |-> Finish(op, had_tie) - op.req,
            line  |-> IF op.kind \in {"Read", "IFetch"} /\ ~ToDevice(op) /\ op.fill > 0
                        THEN LineData(op.addr, op.fill) ELSE <<>>]

\* The memory or device effect of an executed operation
Effect(op) ==
    /\ memory' = IF IsWrite(op) /\ ~ToDevice(op)
                   THEN write(memory, op.addr, op.size, op.data) ELSE memory
    /\ devices' = IF IsWrite(op) /\ ToDevice(op)
                    THEN DevWrite(devices, op.addr, op.size, op.data) ELSE devices

\* Seeded fault: a rejected operation still occupies the bus
RejectOccupies(op) ==
    /\ fault_response(op, Start(op), RejectReason(op))
    /\ bus_free_time' = Start(op) + base_latency(op)
    /\ UNCHANGED <<last_grant_cpu, last_addr, producer_last_req_time, storeVars>>

Reject(op) ==
    /\ fault_response(op, Start(op), RejectReason(op))
    /\ UNCHANGED <<timingVars, storeVars>>

\* Seeded fault: the winner of a tie is not remembered
GrantNotRemembered(op, had_tie) ==
    /\ producer_last_req_time' = [producer_last_req_time EXCEPT ![producer_slot(op)] = op.req]
    /\ last_addr' = IF op.kind # "Barrier" THEN op.addr ELSE last_addr
    /\ UNCHANGED last_grant_cpu
    /\ bus_free_time' = Finish(op, had_tie)
    /\ add_commit(op, Start(op), Finish(op, had_tie), ValueOf(op))
    /\ Effect(op)

Grant(op, had_tie) ==
    /\ producer_last_req_time' = [producer_last_req_time EXCEPT ![producer_slot(op)] = op.req]
    /\ last_addr' = IF op.kind # "Barrier" THEN op.addr ELSE last_addr
    /\ last_grant_cpu' = IF had_tie /\ is_cpu(op.cpu) THEN op.cpu ELSE last_grant_cpu
    /\ bus_free_time' = Finish(op, had_tie)
    /\ add_commit(op, Start(op), Finish(op, had_tie), ValueOf(op))
    /\ Effect(op)

execute_commit(op, had_tie) ==
    \/ Rejected(op) /\ Reject(op)
    \/ ~Rejected(op) /\ Grant(op, had_tie)

-----------------------------------------------------------------------------
(* commit and commit_dma.  Once the log asks to halt both return at once   *)
(* and change nothing.                                                     *)

EnqueueOk(op) ==
    LET last == producer_last_enqueued_req_time[producer_slot(op)]
    IN  ~(last # None /\ op.req < last)

commit(op) ==
    /\ call.phase = "idle"
    /\ ~should_halt
    /\ \/ /\ EnqueueOk(op)
          /\ producer_last_enqueued_req_time' =
                [producer_last_enqueued_req_time EXCEPT ![producer_slot(op)] = op.req]
          /\ execute_commit(op, FALSE)
       \/ /\ ~EnqueueOk(op)
          /\ fault_response(op, Start(op), "ENQUEUE_NON_MONOTONIC_REQ_TIME")
          /\ UNCHANGED <<timingVars, storeVars, producer_last_enqueued_req_time>>
    /\ UNCHANGED <<progressVars, call>>

commit_dma(op) == commit([op EXCEPT !.cpu = DmaId, !.producer = "Dma"])

-----------------------------------------------------------------------------
(* Progress watermarks *)

has_safe_horizon == \A c \in CpuIds : progress_up_to[c] # TickMax

commit_horizon ==
    IF progress_up_to[0] <= progress_up_to[1] THEN progress_up_to[0] ELSE progress_up_to[1]

\* The watermarks after CPU cpu reports executed_up_to
Advance(progress, cpu, executed_up_to) ==
    IF progress[cpu] = TickMax \/ executed_up_to > progress[cpu]
      THEN [progress EXCEPT ![cpu] = executed_up_to]
      ELSE progress

update_progress(cpu, executed_up_to) ==
    /\ progress_tracking_enabled' = TRUE
    /\ progress_up_to' = Advance(progress_up_to, cpu, executed_up_to)
    /\ UNCHANGED <<timingVars, storeVars, traceVars, producer_last_enqueued_req_time, call>>

\* Seeded fault: the horizon is inclusive
CommitSafeInclusive(op) ==
    \/ ~progress_tracking_enabled
    \/ has_safe_horizon /\ op.req <= commit_horizon

CommitSafe(op) ==
    \/ ~progress_tracking_enabled
    \/ has_safe_horizon /\ op.req < commit_horizon

-----------------------------------------------------------------------------
(* Selection among pending operations *)

Preferred == IF last_grant_cpu = 0 THEN 1 ELSE 0

\* Seeded fault: the loop keeps whichever operation it met first
BeatsByPosition(cand, cur) ==
    \/ Start(cand) < Start(cur)
    \/ /\ Start(cand) = Start(cur)
       /\ producer_slot(cand) # producer_slot(cur)
       /\ priority_of(cand) > priority_of(cur)

\* pick_next's loop body: cand replaces the current best operation cur
Beats(cand, cur) ==
    \/ Start(cand) < Start(cur)
    \/ /\ Start(cand) = Start(cur)
       /\ IF producer_slot(cand) = producer_slot(cur)
            THEN \/ cand.seq < cur.seq
                 \/ cand.seq = cur.seq /\ cand.req < cur.req
            ELSE \/ priority_of(cand) > priority_of(cur)
                 \/ /\ priority_of(cand) = priority_of(cur)
                    /\ IF is_cpu(cand.cpu) /\ is_cpu(cur.cpu) /\ cand.cpu # cur.cpu
                         THEN cand.cpu = Preferred
                         ELSE IF cand.cpu # cur.cpu THEN cand.cpu < cur.cpu
                                                    ELSE cand.seq < cur.seq

\* pick_next over the operations ops[i], i \in C: the loop visits C in
\* increasing order and starts from its first member
pick_next(ops, C) ==
    LET first == CHOOSE i \in C : \A j \in C : i <= j
        best[k \in 0..Len(ops)] ==
            IF k = 0 THEN first
            ELSE IF k \in C /\ Beats(ops[k], ops[best[k - 1]]) THEN k ELSE best[k - 1]
    IN  best[Len(ops)]

\* The operations of the batch in progress that are still to be executed
PendingOps == [k \in 1..Len(call.pending) |-> call.pending[k].op]

Committable == {i \in 1..Len(call.pending) : CommitSafe(call.pending[i].op)}

\* Another operation could start at the same tick with the same priority
HadTie(w) ==
    \E i \in Committable \ {w} :
        /\ Start(call.pending[i].op) = Start(call.pending[w].op)
        /\ priority_of(call.pending[i].op) = priority_of(call.pending[w].op)

-----------------------------------------------------------------------------
(* commit_batch *)

\* Entry: the enqueue contract is checked afresh for each batch
BatchCall(ops) ==
    /\ call.phase = "idle"
    /\ producer_last_enqueued_req_time' = [s \in Slots |-> None]
    /\ call' = [IdleCall EXCEPT !.phase = "enqueue", !.ops = ops]
    /\ UNCHANGED <<timingVars, storeVars, progressVars, traceVars>>

\* One iteration of the first loop: accept or fault ops[next]
BatchEnqueue ==
    /\ call.phase = "enqueue"
    /\ call.next <= Len(call.ops)
    /\ ~should_halt
    /\ LET op == call.ops[call.next] IN
       \/ /\ EnqueueOk(op)
          /\ producer_last_enqueued_req_time' =
                [producer_last_enqueued_req_time EXCEPT ![producer_slot(op)] = op.req]
          /\ call' = [call EXCEPT !.next = @ + 1,
                                  !.pending = Append(@, [index |-> call.next, op |-> op])]
          /\ UNCHANGED traceVars
       \/ /\ ~EnqueueOk(op)
          /\ fault_response(op, Start(op), "ENQUEUE_NON_MONOTONIC_REQ_TIME")
          /\ call' = [call EXCEPT !.next = @ + 1]
          /\ UNCHANGED producer_last_enqueued_req_time
    /\ UNCHANGED <<timingVars, storeVars, progressVars>>

BatchEnqueued ==
    /\ call.phase = "enqueue"
    /\ call.next > Len(call.ops) \/ should_halt
    /\ call' = [call EXCEPT !.phase = "commit"]
    /\ UNCHANGED <<timingVars, storeVars, progressVars, traceVars,
                   producer_last_enqueued_req_time>>

\* Seeded fault: the second loop does not look at should_halt
BatchCommitIgnoringHalt ==
    /\ call.phase = "commit"
    /\ \E w \in Committable :
          /\ w = pick_next(PendingOps, Committable)
          /\ execute_commit(call.pending[w].op, HadTie(w))
          /\ call' = [call EXCEPT
                !.pending = RemoveIndex(@, w),
                !.committed = Append(@, [index |-> call.pending[w].index,
                                         op |-> call.pending[w].op,
                                         response |-> Response(call.pending[w].op, HadTie(w))])]
    /\ UNCHANGED <<progressVars, producer_last_enqueued_req_time>>

\* One iteration of the second loop: execute the operation pick_next selects
BatchCommit ==
    /\ call.phase = "commit"
    /\ ~should_halt
    /\ \E w \in Committable :
          /\ w = pick_next(PendingOps, Committable)
          /\ execute_commit(call.pending[w].op, HadTie(w))
          /\ call' = [call EXCEPT
                !.pending = RemoveIndex(@, w),
                !.committed = Append(@, [index |-> call.pending[w].index,
                                         op |-> call.pending[w].op,
                                         response |-> Response(call.pending[w].op, HadTie(w))])]
    /\ UNCHANGED <<progressVars, producer_last_enqueued_req_time>>

\* The second loop ends: nothing is committable, or the log asks to halt
BatchReturn ==
    /\ call.phase = "commit"
    /\ Committable = {} \/ should_halt
    /\ call' = [call EXCEPT !.phase = "return"]
    /\ UNCHANGED <<timingVars, storeVars, progressVars, traceVars,
                   producer_last_enqueued_req_time>>

\* The caller has taken the results
BatchFinish ==
    /\ call.phase = "return"
    /\ call' = IdleCall
    /\ UNCHANGED <<timingVars, storeVars, progressVars, traceVars,
                   producer_last_enqueued_req_time>>

=============================================================================
