---------------------------- MODULE ArbiterHost -----------------------------
(***************************************************************************)
(* The arbiter with its callers: producers that put operations into the    *)
(* host's pending vector and publish watermarks, a host that drains the    *)
(* vector with commit_pending, and direct calls of commit and commit_dma   *)
(* (the uses of the arbiter in src/core/emulator.cpp and tests/).          *)
(*                                                                         *)
(* With Honest = TRUE the producers keep the contract that                 *)
(* docs/architecture.md states: request times of a producer never          *)
(* decrease, a CPU never emits an operation below the watermark it has     *)
(* published, and the host publishes before it drains.  With Honest =      *)
(* FALSE request times are arbitrary and the arbiter's own checks are      *)
(* what is examined.                                                       *)
(***************************************************************************)
EXTENDS BusArbiter, FiniteSets

CONSTANTS
    Templates,       \* the operations producers may emit, without req and seq
    ReqTimes,        \* request times that occur
    Watermarks,      \* watermarks that occur
    MaxOps,          \* bound: operations emitted in a behaviour
    MaxOutstanding,  \* bound: operations of one producer in the pending vector
    MaxTrace,        \* bound: trace lines after which the host stops draining
    Honest

\* The operation made from template t with request time r and sequence n
MakeOp(t, r, n) ==
    [cpu |-> t.cpu, req |-> r, seq |-> n, kind |-> t.kind, addr |-> t.addr,
     size |-> t.size, data |-> t.data, fill |-> t.fill, producer |-> t.producer,
     token |-> 0]

Template ==
    [cpu : {DmaId} \cup CpuIds, kind : Kinds, addr : Nat, size : Nat, data : Value,
     fill : Nat, producer : Producers]

ASSUME HostAssumption ==
    /\ ReqTimes \subseteq Nat
    /\ Watermarks \subseteq Nat \ {TickMax}
    /\ Honest \in BOOLEAN
    /\ Templates \subseteq Template
    /\ \A t \in Templates : t.kind \in {"MmioRead", "MmioWrite"} => t.addr \in MmioAddr

VARIABLES
    pending_ops,   \* the caller's vector<BusOp>
    emitted,       \* history: the operations put into pending_ops, in order
    direct,        \* history: number of direct commits
    ties,          \* history: winners of the ties between the two CPUs
    scan,          \* commit_pending: index of its compaction loop
    remaining      \* commit_pending: the operations it keeps

keepVars == <<scan, remaining>>
hostVars == <<pending_ops, emitted, direct, ties, keepVars>>
vars == <<arbVars, hostVars>>

Init ==
    /\ ArbInit
    /\ pending_ops = <<>>
    /\ emitted = <<>>
    /\ direct = 0
    /\ ties = <<>>
    /\ scan = 1
    /\ remaining = <<>>

Emittable == Len(emitted) + direct < MaxOps

Outstanding(slot) ==
    Cardinality({i \in 1..Len(pending_ops) : producer_slot(pending_ops[i]) = slot})

\* The producers' side of the watermark contract
KeepsContract(op) ==
    /\ \A i \in 1..Len(emitted) :
          producer_slot(emitted[i]) = producer_slot(op) => emitted[i].req <= op.req
    /\ is_cpu(op.cpu) /\ progress_up_to[op.cpu] # TickMax
          => progress_up_to[op.cpu] <= op.req

\* A producer hands an operation to the host
Emit(t, r) ==
    LET op == MakeOp(t, r, Len(emitted) + direct)
    IN  /\ call.phase = "idle"
        /\ Emittable
        /\ Outstanding(producer_slot(op)) < MaxOutstanding
        /\ Honest => KeepsContract(op)
        /\ pending_ops' = Append(pending_ops, op)
        /\ emitted' = Append(emitted, op)
        /\ UNCHANGED <<arbVars, direct, ties, keepVars>>

\* A CPU publishes how far it has executed
Publish(cpu, t) ==
    /\ call.phase = "idle"
    /\ update_progress(cpu, t)
    /\ UNCHANGED hostVars

\* The host calls commit_pending
Drain ==
    /\ Len(trace) < MaxTrace
    /\ Honest => progress_tracking_enabled
    /\ pending_ops # <<>>
    /\ BatchCall(pending_ops)
    /\ UNCHANGED hostVars

DrainEnqueue == (BatchEnqueue \/ BatchEnqueued) /\ UNCHANGED hostVars

\* The two CPUs' operations i and w are tied for the bus
CrossTie(w) ==
    \E i \in Committable \ {w} :
        /\ Start(call.pending[i].op) = Start(call.pending[w].op)
        /\ priority_of(call.pending[i].op) = priority_of(call.pending[w].op)
        /\ is_cpu(call.pending[i].op.cpu) /\ is_cpu(call.pending[w].op.cpu)
        /\ call.pending[i].op.cpu # call.pending[w].op.cpu

DrainCommit ==
    /\ BatchCommit
    /\ LET w == pick_next(PendingOps, Committable)
       IN  ties' = IF CrossTie(w) /\ ~Rejected(call.pending[w].op)
                     THEN Append(ties, call.pending[w].op.cpu) ELSE ties
    /\ UNCHANGED <<pending_ops, emitted, direct, keepVars>>

DrainStop == BatchReturn /\ UNCHANGED hostVars

\* Seeded fault: a result's position is taken for its input index
WasCommittedByPosition(i) == i <= Len(call.committed)

\* Some result of the batch is that of pending_ops[i]
WasCommitted(i) == \E k \in 1..Len(call.committed) : call.committed[k].index = i

\* One iteration of commit_pending's loop over the caller's vector
DrainKeep ==
    /\ call.phase = "return"
    /\ scan <= Len(pending_ops)
    /\ scan' = scan + 1
    /\ remaining' = IF WasCommitted(scan) THEN remaining ELSE Append(remaining, pending_ops[scan])
    /\ UNCHANGED <<arbVars, pending_ops, emitted, direct, ties>>

\* commit_pending returns: the vector holds what was not committed
DrainFinish ==
    /\ scan > Len(pending_ops)
    /\ BatchFinish
    /\ pending_ops' = remaining
    /\ scan' = 1
    /\ remaining' = <<>>
    /\ UNCHANGED <<emitted, direct, ties>>

\* A caller bypasses the pending vector
DirectCommit(t, r) ==
    /\ ~Honest
    /\ Emittable /\ Len(trace) < MaxTrace
    /\ \/ commit(MakeOp(t, r, Len(emitted) + direct))
       \/ commit_dma(MakeOp(t, r, Len(emitted) + direct))
    /\ direct' = direct + 1
    /\ UNCHANGED <<pending_ops, emitted, ties, keepVars>>

SetHaltOnFault(enabled) ==
    /\ call.phase = "idle"
    /\ ~Honest
    /\ set_halt_on_fault(enabled)
    /\ UNCHANGED hostVars

Next ==
    \/ \E t \in Templates, r \in ReqTimes : Emit(t, r) \/ DirectCommit(t, r)
    \/ \E cpu \in CpuIds, t \in Watermarks : Publish(cpu, t)
    \/ Drain
    \/ DrainEnqueue
    \/ DrainCommit
    \/ DrainStop
    \/ DrainKeep
    \/ DrainFinish
    \/ \E enabled \in BOOLEAN : SetHaltOnFault(enabled)

Spec == Init /\ [][Next]_vars

-----------------------------------------------------------------------------
(* Properties *)

\* The operations that occur: an MMIO kind comes with an MMIO address
HostOp == {op \in BusOp : op.kind \in {"MmioRead", "MmioWrite"} => op.addr \in MmioAddr}

\* Types of the arbiter's and the host's state.  Not only shapes: a stall is
\* a natural number because no operation finishes before it was requested.
TypeOK ==
    /\ bus_free_time \in Nat
    /\ last_grant_cpu \in CpuIds
    /\ last_addr \in Nat \cup {None}
    /\ producer_last_req_time \in [Slots -> Nat \cup {None}]
    /\ producer_last_enqueued_req_time \in [Slots -> Nat \cup {None}]
    /\ progress_tracking_enabled \in BOOLEAN
    /\ progress_up_to \in [CpuIds -> Nat]
    /\ memory \in [RamAddr -> Byte]
    /\ devices \in DevState
    /\ trace \in Seq(Line)
    /\ halt_on_fault \in BOOLEAN
    /\ should_halt \in BOOLEAN
    /\ DOMAIN call = {"phase", "ops", "next", "pending", "committed"}
    /\ call.phase \in {"idle", "enqueue", "commit", "return"}
    /\ call.ops \in Seq(HostOp)
    /\ call.next \in Nat \ {0}
    /\ call.pending \in Seq([index : Nat, op : HostOp])
    /\ pending_ops \in Seq(HostOp)
    /\ emitted \in Seq(HostOp)
    /\ direct \in Nat
    /\ ties \in Seq(CpuIds)
    /\ scan \in Nat \ {0}
    /\ remaining \in Seq(HostOp)

Executed(i) == trace[i].fault = "none"

\* The bus is a single resource: an operation that execute_commit lets on the
\* bus starts no earlier than every operation before it has finished, and
\* bus_free_time covers them all.
BusSerial ==
    \A i \in 1..Len(trace) : Executed(i) =>
        /\ trace[i].finish <= bus_free_time
        /\ \A j \in 1..Len(trace) : i < j /\ Executed(j) => trace[i].finish <= trace[j].start

\* Whatever the callers pass, in whatever order and through whichever entry
\* point, the request times that execute_commit lets through never decrease
\* within one producer slot.
ProducerTimeMonotone ==
    \A i, j \in 1..Len(trace) :
        /\ i < j /\ Executed(i) /\ Executed(j)
        /\ producer_slot(trace[i].op) = producer_slot(trace[j].op)
        => trace[i].op.req <= trace[j].op.req

\* The horizon is safe: once CPU operations with request time T have been
\* committed by the batch path, no CPU can still emit an operation with
\* request time T or earlier, so a tie is never decided in the absence of one
\* of its parties.
NoLateArrival ==
    [][\A q \in {emitted'[i] : i \in (Len(emitted) + 1)..Len(emitted')},
          i \in 1..Len(trace) :
          is_cpu(q.cpu) /\ is_cpu(trace[i].op.cpu) /\ Executed(i)
             => trace[i].op.req < q.req]_vars

\* Round robin: with one outstanding operation per CPU, no CPU wins two
\* successive ties against the other one.
TiesAlternate == \A k \in 1..(Len(ties) - 1) : ties[k] # ties[k + 1]

\* Reorderings of 1..n under which operations of the same producer keep
\* their relative order
HostOrders(ops) ==
    {p \in [1..Len(ops) -> 1..Len(ops)] :
        /\ \A i, j \in 1..Len(ops) : i # j => p[i] # p[j]
        /\ \A i, j \in 1..Len(ops) :
              i < j /\ producer_slot(ops[p[i]]) = producer_slot(ops[p[j]]) => p[i] < p[j]}

\* The operation pick_next selects does not depend on the order in which the
\* host happened to receive the operations of different producers.
PickIgnoresHostOrder ==
    call.phase = "commit" /\ Committable # {} =>
        \A p \in HostOrders(PendingOps) :
            LET ops == [i \in DOMAIN PendingOps |-> PendingOps[p[i]]]
                C   == {i \in DOMAIN PendingOps : p[i] \in Committable}
            IN  ops[pick_next(ops, C)] = PendingOps[pick_next(PendingOps, Committable)]

\* A rejected operation has no effect but its trace lines and the halt latch:
\* neither the bus, nor memory, nor a device, nor any later arbitration
\* decision changes.
FaultsAreInert ==
    [][Len(trace') > Len(trace) /\ trace'[Len(trace')].fault # "none"
          => UNCHANGED <<timingVars, storeVars>>]_vars

\* Once a fault has latched should_halt, nothing reaches the bus, memory, a
\* device or the trace until halting on faults is switched off.
HaltFreezes ==
    [][should_halt /\ should_halt' => UNCHANGED <<timingVars, storeVars, trace>>]_vars

\* Between calls every operation given to the pending vector is either still
\* in it or was executed, exactly once: commit_pending neither loses nor
\* repeats an operation.
NothingLost ==
    call.phase = "idle" =>
        \A e \in 1..Len(emitted) :
            LET waiting == {i \in 1..Len(pending_ops) : pending_ops[i] = emitted[e]}
                done == {i \in 1..Len(trace) :
                            /\ trace[i].op = emitted[e]
                            /\ trace[i].fault # "ENQUEUE_NON_MONOTONIC_REQ_TIME"}
            IN  Cardinality(waiting) + Cardinality(done) = 1
=============================================================================
