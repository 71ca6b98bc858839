---------------------------- MODULE SingleProofs ----------------------------
(***************************************************************************)
(* Proofs about run_scripted_pair, for all scripts, latencies and devices. *)
(***************************************************************************)
EXTENDS ScriptedPair, HostProofs

CpuInv ==
    /\ DOMAIN cpu = CpuIds
    /\ \A c \in CpuIds :
          /\ cpu[c].script \in Seq(ScriptOp)
          /\ IsCpu(cpu[c], c, cpu[c].script)
          /\ cpu[c].local_time \in Nat

\* The instruction that CPU c waits for
Awaited(c) == cpu[c].script[p[c].index]

\* An operation that waits is the last one its CPU issued; a CPU without one
\* inside the loop has ended
PendingInv ==
    /\ DOMAIN p = CpuIds
    /\ \A c \in CpuIds :
          /\ Has(p[c]) =>
               /\ p[c].index \in 1..Len(cpu[c].script)
               /\ cpu[c].pc = p[c].index + 1
               /\ IsOpFor(p[c].op, c, Awaited(c), cpu[c].local_time)
          /\ ~Has(p[c]) =>
               /\ p[c] = NoOp
               /\ loop # "top" => cpu[c].pc = Len(cpu[c].script) + 1

\* The CPUs that wait, and the operation of each
Waiting == {c \in CpuIds : Has(p[c])}
WaitingOp == [c \in CpuIds |-> p[c].op]

\* The batch is that of the waiting operations
CallInv ==
    /\ loop \in {"top", "call", "commit", "done"}
    /\ loop = "commit" => \E D, h : D = Waiting /\ h = WaitingOp /\ OnePerCpu(D, h)
    /\ loop # "commit" => call = IdleCall
    /\ \A i \in 1..Len(call.committed) : call.committed[i].response.stall \in Nat

\* No fault stops the arbiter, and nothing on the bus or in a watermark is
\* ahead of the CPU it came from
ArbInv ==
    /\ bus_free_time \in Nat
    /\ ~halt_on_fault /\ ~should_halt
    /\ IsSeq(trace)
    /\ DOMAIN producer_last_req_time = Slots
    /\ \A c \in CpuIds :
          producer_last_req_time[c] # None =>
            /\ producer_last_req_time[c] \in Nat
            /\ producer_last_req_time[c] <= cpu[c].local_time
    /\ progress_up_to \in [CpuIds -> Nat]
    /\ loop # "top" => progress_tracking_enabled
    /\ \A c \in CpuIds :
          progress_up_to[c] # TickMax => progress_up_to[c] <= cpu[c].local_time + 1

\* The store that CPU c waits for is all that its buffer holds
BufferInv ==
    \A c \in CpuIds :
        IF Has(p[c]) /\ Awaited(c).kind = "Write"
          THEN \E e : e.store_id = p[c].op.token /\ cpu[c].store_buffer = <<e>>
          ELSE cpu[c].store_buffer = <<>>

IInv == CpuInv /\ PendingInv /\ CallInv /\ ArbInv /\ BufferInv

-----------------------------------------------------------------------------
(* Each action keeps it *)

\* New CPUs wait for nothing.
LEMMA InitIInv == Init => IInv
<1> SUFFICES ASSUME Init PROVE IInv
  OBVIOUS
<1>1. PICK s \in Scripts : cpu = [c \in CpuIds |-> NewCpu(c, s[c + 1])]
  BY DEF Init
<1>2. ASSUME NEW c \in CpuIds
      PROVE  /\ cpu[c].script \in Seq(ScriptOp)
             /\ IsCpu(cpu[c], c, cpu[c].script)
             /\ cpu[c].local_time = 0
             /\ cpu[c].store_buffer = <<>>
  <2>1. s[c + 1] \in Seq(ScriptOp)
    BY ScriptsAssumption DEF CpuIds
  <2> DEFINE script == s[c + 1]
  <2>2. cpu[c] = NewCpu(c, script)
    BY <1>1
  <2> HIDE DEF script
  <2>3. /\ IsCpu(cpu[c], c, script) /\ cpu[c].local_time = 0 /\ cpu[c].store_buffer = <<>>
    BY <2>1, <2>2, NewCpuFacts, ZenonT(40) DEF script
  <2>4. cpu[c].script = script
    BY <2>3 DEF IsCpu
  <2> QED BY <2>1, <2>3, <2>4 DEF script
<1>3. CpuInv
  BY <1>1, <1>2 DEF CpuInv
<1>4. PendingInv
  BY DEF PendingInv, Init, Has, NoOp
<1>5. CallInv
  BY EmptyIsSeq DEF CallInv, Init, ArbInit, ArbInitWith, IdleCall
<1>6. ArbInv
  <2>1. CpuIds \subseteq Slots /\ TickMax \in Nat
    BY TickMaxAssumption DEF CpuIds, Slots
  <2> QED BY <1>2, <2>1, EmptyIsSeq DEF ArbInv, Init, ArbInit, ArbInitWith
<1>7. BufferInv
  BY <1>2 DEF BufferInv, Init, Has, NoOp
<1> QED BY <1>3, <1>4, <1>5, <1>6, <1>7 DEF IInv

\* CPU c after the produce at the top of the loop
TopOK(q, c, script) ==
    /\ IsCpu(q.cpu, c, script)
    /\ q.cpu.local_time \in Nat /\ cpu[c].local_time <= q.cpu.local_time
    /\ cpu[c].pc <= q.cpu.pc
    /\ Has(q.op) =>
         /\ q.op.index \in 1..Len(script)
         /\ q.cpu.pc = q.op.index + 1
         /\ IsOpFor(q.op.op, c, script[q.op.index], q.cpu.local_time)
    /\ ~Has(q.op) => q.op = NoOp /\ q.cpu.pc = Len(script) + 1
    /\ IF Has(q.op) /\ script[q.op.index].kind = "Write"
         THEN \E e : e.store_id = q.op.op.token /\ q.cpu.store_buffer = <<e>>
         ELSE q.cpu.store_buffer = <<>>

\* It waits for an operation or has ended.
LEMMA ProducedFacts ==
    ASSUME IInv, NEW c \in CpuIds
    PROVE  TopOK(Produced(c), c, cpu[c].script)
<1> DEFINE k == cpu[c]
           script == cpu[c].script
           q == Produced(c)
<1>1. /\ script \in Seq(ScriptOp) /\ IsCpu(k, c, script) /\ k.local_time \in Nat
      /\ k.pc \in Nat
  BY DEF IInv, CpuInv, IsCpu
<1>2. CASE Has(p[c])
  <2>1. q.cpu = k /\ q.op = p[c]
    BY <1>2 DEF Produced
  <2> HIDE DEF q
  <2>2. TopOK(q, c, script)
    BY <1>1, <1>2, <2>1 DEF IInv, PendingInv, BufferInv, Awaited, TopOK
  <2> QED BY <2>2 DEF q
<1>3. CASE ~Has(p[c])
  <2>1. q = produce(k)
    BY <1>3 DEF Produced
  <2>2. k.store_buffer = <<>>
    BY <1>3 DEF IInv, BufferInv
  <2> DEFINE ins == script[q.op.index]
             e == [store_id |-> k.next_store_id, addr |-> ins.addr, size |-> ins.size,
                   value |-> ins.value]
  <2> HIDE DEF q
  <2>3. Produces(k, q, c, script)
    BY <1>1, <2>1, ProduceFacts
  <2>4. e.store_id = k.next_store_id
    OBVIOUS
  <2>5. /\ ~(Has(q.op) /\ ins.kind = "Write") => q.cpu.store_buffer = <<>>
        /\ Has(q.op) /\ ins.kind = "Write" =>
             q.op.op.token = k.next_store_id /\ q.cpu.store_buffer = Append(<<>>, e)
    BY <2>2, <2>3, Zenon DEF Produces
  <2> HIDE DEF e
  <2>6. Append(<<>>, e) = <<e>>
    OBVIOUS
  <2>7. TopOK(q, c, script)
    BY <1>1, <2>3, <2>4, <2>5, <2>6, Zenon DEF TopOK, Produces
  <2> QED BY <2>7 DEF q
<1> QED BY <1>2, <1>3

\* The top of the loop.
LEMMA LoopTopKeeps == IInv /\ LoopTop => IInv'
<1> SUFFICES ASSUME IInv, LoopTop PROVE IInv'
  OBVIOUS
<1> DEFINE q == [c \in CpuIds |-> Produced(c)]
<1>1. /\ loop = "top" /\ loop' \in {"done", "call"}
      /\ cpu' = [c \in CpuIds |-> q[c].cpu]
      /\ p' = [c \in CpuIds |-> q[c].op]
      /\ progress_up_to' = Advance(Advance(progress_up_to, 0, Reported(q[0])), 1, Reported(q[1]))
      /\ progress_tracking_enabled' = TRUE
      /\ UNCHANGED <<bus_free_time, producer_last_req_time, trace, halt_on_fault, should_halt, call>>
  BY DEF LoopTop, CpuIds, timingVars, traceVars
<1>2. \A c \in CpuIds : TopOK(q[c], c, cpu[c].script)
  BY ProducedFacts
<1> HIDE DEF q
<1>3. \A c \in CpuIds : cpu'[c] = q[c].cpu /\ p'[c] = q[c].op
  BY <1>1
<1>4. \A c \in CpuIds : cpu'[c].script = cpu[c].script
  BY <1>2, <1>3 DEF TopOK, IsCpu
<1>5. CpuInv'
  BY <1>1, <1>2, <1>3, <1>4 DEF IInv, CpuInv, TopOK
<1>6. PendingInv'
  BY <1>1, <1>2, <1>3, <1>4 DEF PendingInv, TopOK, Awaited
<1>7. CallInv'
  BY <1>1 DEF IInv, CallInv
<1>8. BufferInv'
  BY <1>1, <1>2, <1>3, <1>4 DEF BufferInv, TopOK, Awaited
<1>9. ArbInv'
  <2>1. /\ ArbInv
        /\ \A c \in CpuIds : cpu'[c].local_time \in Nat /\ cpu[c].local_time \in Nat
                              /\ cpu[c].local_time <= cpu'[c].local_time
    BY <1>2, <1>3 DEF IInv, CpuInv, TopOK
  <2>2. \A c \in CpuIds : Reported(q[c]) \in {cpu'[c].local_time, cpu'[c].local_time + 1}
    BY <1>2, <1>3, ZenonT(40) DEF Reported, TopOK, IsOpFor
  <2> DEFINE r0 == Reported(q[0])
             r1 == Reported(q[1])
             a == Advance(progress_up_to, 0, r0)
             b == Advance(a, 1, r1)
  <2>3. r0 \in Nat /\ r1 \in Nat
    BY <2>1, <2>2 DEF CpuIds
  <2> HIDE DEF r0, r1
  <2>4. a \in [CpuIds -> Nat] /\ a[0] \in {r0, progress_up_to[0]} /\ a[1] = progress_up_to[1]
    BY <2>1, <2>3 DEF ArbInv, Advance, CpuIds
  <2> HIDE DEF a
  <2>5. b \in [CpuIds -> Nat] /\ b[1] \in {r1, a[1]} /\ b[0] = a[0]
    BY <2>3, <2>4 DEF Advance, CpuIds
  <2>6. progress_up_to' = b
    BY <1>1 DEF a, r0, r1
  <2> HIDE DEF b
  <2>7. ASSUME NEW c \in CpuIds, progress_up_to'[c] # TickMax
        PROVE  progress_up_to'[c] <= cpu'[c].local_time + 1
    <3>1. progress_up_to'[c] \in {Reported(q[c]), progress_up_to[c]} /\ progress_up_to[c] \in Nat
      BY <2>1, <2>4, <2>5, <2>6 DEF CpuIds, ArbInv, r0, r1
    <3> QED BY <2>1, <2>2, <2>7, <3>1 DEF ArbInv
  <2>8. \A c \in CpuIds :
          producer_last_req_time[c] # None =>
            producer_last_req_time[c] \in Nat /\ producer_last_req_time[c] <= cpu'[c].local_time
    BY <2>1 DEF ArbInv
  <2> QED BY <1>1, <2>1, <2>5, <2>6, <2>7, <2>8 DEF ArbInv
<1> QED BY <1>5, <1>6, <1>7, <1>8, <1>9 DEF IInv

\* The batch is called with the waiting operations.
LEMMA BatchOpsFacts ==
    ASSUME IInv
    PROVE  /\ Waiting \in SUBSET CpuIds
           /\ \A c \in Waiting : WaitingOp[c].cpu = c /\ WaitingOp[c].producer = "Auto"
           /\ BatchOps \in Seq(Ops(Waiting, WaitingOp))
           /\ \A i, j \in 1..Len(BatchOps) : BatchOps[i].cpu = BatchOps[j].cpu => i = j
           /\ \A c \in Waiting : \E i \in 1..Len(BatchOps) : BatchOps[i] = WaitingOp[c]
<1>1. \A c \in CpuIds : Has(p[c]) => p[c].op.cpu = c /\ p[c].op.producer = "Auto"
  BY DEF IInv, PendingInv, IsOpFor
<1>2. Waiting = Holders(p) /\ WaitingOp = OpsBy(p) /\ BatchOps = OpsOf(p)
  BY Zenon DEF Waiting, Holders, WaitingOp, OpsBy, BatchOps, OpsOf
<1> QED BY <1>1, <1>2, OpsOfFacts

\* commit_batch starts.
LEMMA LoopCallKeeps == IInv /\ LoopCall => IInv'
<1> SUFFICES ASSUME IInv, LoopCall PROVE IInv'
  OBVIOUS
<1>1. /\ loop = "call" /\ loop' = "commit" /\ BatchCall(BatchOps) /\ UNCHANGED <<cpu, p>>
      /\ UNCHANGED <<bus_free_time, producer_last_req_time, trace, halt_on_fault, should_halt>>
      /\ UNCHANGED <<progress_tracking_enabled, progress_up_to>>
  BY DEF LoopCall, BatchCall, timingVars, traceVars, progressVars
<1>2. CpuInv' /\ PendingInv' /\ ArbInv' /\ BufferInv'
  BY <1>1 DEF IInv, CpuInv, PendingInv, ArbInv, BufferInv, Awaited
<1>3. CallInv'
  <2>1. PICK D, h, ops : D = Waiting /\ h = WaitingOp /\ ops = BatchOps
    OBVIOUS
  <2>2. /\ D \in SUBSET CpuIds /\ \A c \in D : h[c].cpu = c /\ h[c].producer = "Auto"
        /\ ops \in Seq(Ops(D, h)) /\ BatchCall(ops)
        /\ \A i, j \in 1..Len(ops) : ops[i].cpu = ops[j].cpu => i = j
        /\ \A c \in D : \E i \in 1..Len(ops) : ops[i] = h[c]
    BY <1>1, <2>1, BatchOpsFacts
  <2>3. OnePerCpu(D, h)'
    BY <2>2, OneCall
  <2>4. D = Waiting' /\ h = WaitingOp'
    BY <1>1, <2>1 DEF Waiting, WaitingOp
  <2>5. call'.committed = <<>>
    BY <2>2, BatchCallOf
  <2> QED BY <1>1, <2>3, <2>4, <2>5, EmptyIsSeq DEF CallInv
<1> QED BY <1>2, <1>3 DEF IInv

\* What is known of an operation of the batch that CPU c waits for.
LEMMA BatchedOp ==
    ASSUME IInv, NEW c \in Waiting
    PROVE  /\ WaitingOp[c] = p[c].op /\ c \in CpuIds
           /\ p[c].op.kind \in Kinds /\ p[c].op.req = cpu[c].local_time /\ p[c].op.req \in Nat
           /\ producer_slot(p[c].op) = c
<1>1. c \in CpuIds /\ Has(p[c]) /\ WaitingOp[c] = p[c].op
  BY DEF Waiting, WaitingOp
<1>2. IsOpFor(p[c].op, c, Awaited(c), cpu[c].local_time) /\ cpu[c].local_time \in Nat
  BY <1>1 DEF IInv, PendingInv, CpuInv
<1>3. p[c].op.kind \in Kinds
  BY <1>2, OpKind
<1>4. p[c].op.cpu = c /\ p[c].op.producer = "Auto" /\ p[c].op.req = cpu[c].local_time
  BY <1>2 DEF IsOpFor
<1> QED BY <1>1, <1>2, <1>3, <1>4 DEF producer_slot, CpuIds

\* An iteration of the second loop: the operation of CPU c is executed.
CommitOf(c, w, e) ==
    /\ w \in Committable /\ w = pick_next(PendingOps, Committable)
    /\ c \in Waiting /\ call.pending[w].op = p[c].op
    /\ execute_commit(p[c].op, HadTie(w))
    /\ e = [index |-> call.pending[w].index, op |-> p[c].op,
            response |-> Response(p[c].op, HadTie(w))]
    /\ Serves(w, e)

LEMMA CommitFacts ==
    ASSUME IInv, loop = "commit", BatchCommit
    PROVE  \E c, w, e : CommitOf(c, w, e)
<1>1. PICK D, h : D = Waiting /\ h = WaitingOp /\ OnePerCpu(D, h)
  BY DEF IInv, CallInv
<1>2. PICK w \in Committable :
        /\ w = pick_next(PendingOps, Committable)
        /\ execute_commit(call.pending[w].op, HadTie(w))
        /\ Serves(w, [index |-> call.pending[w].index, op |-> call.pending[w].op,
                      response |-> Response(call.pending[w].op, HadTie(w))])
  BY DEF BatchCommit, Serves
<1>3. w \in 1..Len(call.pending) /\ call.pending \in Seq([index : Nat, op : Ops(D, h)])
  BY <1>1 DEF Committable, OnePerCpu, BatchOf
<1>4. call.pending[w] \in [index : Nat, op : Ops(D, h)]
  BY <1>3, ElementType
<1>5. call.pending[w].op \in Ops(D, h)
  BY <1>4
<1>6. PICK c \in Waiting : call.pending[w].op = p[c].op
  BY <1>1, <1>5 DEF Ops, Waiting, WaitingOp
<1> DEFINE e == [index |-> call.pending[w].index, op |-> p[c].op,
                 response |-> Response(p[c].op, HadTie(w))]
<1>7. CommitOf(c, w, e)
  BY <1>2, <1>6, Zenon DEF CommitOf
<1> QED BY <1>7

\* A step of commit_batch.
LEMMA InBatchKeeps == IInv /\ InBatch => IInv'
<1> SUFFICES ASSUME IInv, InBatch PROVE IInv'
  OBVIOUS
<1>1. /\ loop = "commit" /\ UNCHANGED <<cpu, p, loop, progress_tracking_enabled, progress_up_to>>
      /\ BatchEnqueue \/ BatchEnqueued \/ BatchCommit \/ BatchReturn
  BY DEF InBatch, pairVars, BatchEnqueue, BatchEnqueued, BatchCommit, BatchReturn, progressVars
<1>2. CpuInv' /\ PendingInv' /\ BufferInv'
  BY <1>1 DEF IInv, CpuInv, PendingInv, BufferInv, Awaited
<1>3. PICK D, h : D = Waiting /\ h = WaitingOp /\ OnePerCpu(D, h)
  BY <1>1 DEF IInv, CallInv
<1>4. D = Waiting' /\ h = WaitingOp'
  BY <1>1, <1>3 DEF Waiting, WaitingOp
<1>5. ASSUME OnePerCpu(D, h)', call'.committed = call.committed, UNCHANGED traceVars,
             UNCHANGED timingVars
      PROVE  IInv'
  <2>1. ArbInv'
    BY <1>1, <1>5 DEF IInv, ArbInv, traceVars, timingVars
  <2>2. CallInv'
    BY <1>1, <1>4, <1>5 DEF IInv, CallInv
  <2> QED BY <1>2, <2>1, <2>2 DEF IInv
<1>6. ~should_halt /\ BatchOf(Ops(D, h))
  BY <1>3 DEF IInv, ArbInv, OnePerCpu
<1>7. CASE BatchEnqueue
  <2>1. OnePerCpu(D, h)' /\ UNCHANGED traceVars
    BY <1>3, <1>7, OneEnqueue
  <2>2. call'.committed = call.committed
    BY <1>6, <1>7, BatchEnqueueOf
  <2> QED BY <1>5, <1>7, <2>1, <2>2 DEF BatchEnqueue
<1>8. CASE BatchEnqueued
  <2>1. OnePerCpu(D, h)'
    BY <1>3, <1>6, <1>8, OneEnqueued
  <2>2. call'.committed = call.committed
    BY <1>6, <1>8, BatchPhaseOf
  <2> QED BY <1>5, <1>8, <2>1, <2>2 DEF BatchEnqueued
<1>9. CASE BatchReturn
  <2>1. OnePerCpu(D, h)' /\ call'.committed = call.committed
    BY <1>3, <1>9, OneReturn
  <2> QED BY <1>5, <1>9, <2>1 DEF BatchReturn
<1>10. CASE BatchCommit
  <2>1. PICK c, w, e : CommitOf(c, w, e)
    BY <1>1, <1>10, CommitFacts
  <2> DEFINE op == p[c].op
  <2>2. /\ c \in CpuIds /\ op.kind \in Kinds /\ op.req = cpu[c].local_time /\ op.req \in Nat
        /\ producer_slot(op) = c
    BY <2>1, BatchedOp DEF CommitOf
  <2>3. HadTie(w) \in BOOLEAN
    BY DEF HadTie
  <2>4. /\ execute_commit(op, HadTie(w)) /\ e.op = op /\ e.response = Response(op, HadTie(w))
        /\ w \in 1..Len(call.pending) /\ call.pending[w].op = op /\ Serves(w, e)
        /\ call.phase = "commit"
    BY <1>10, <2>1 DEF CommitOf, Committable, BatchCommit
  <2>5. /\ bus_free_time \in Nat /\ ~halt_on_fault /\ ~should_halt /\ IsSeq(trace)
        /\ DOMAIN producer_last_req_time = Slots
    BY DEF IInv, ArbInv
  <2> HIDE DEF op
  <2>6. e.response.stall \in Nat
    BY <2>2, <2>3, <2>4, <2>5, Times
  <2>7. OnePerCpu(D, h)'
    BY <1>3, <2>4, OneCommit
  <2>8. /\ Len(call.committed) \in Nat /\ Len(call'.committed) = Len(call.committed) + 1
        /\ \A i \in 1..Len(call.committed) : call'.committed[i] = call.committed[i]
        /\ call'.committed[Len(call.committed) + 1] = e
    BY <1>3, <2>4, OneCommit
  <2>9. CallInv'
    <3>1. ASSUME NEW i \in 1..Len(call'.committed) PROVE call'.committed[i].response.stall \in Nat
      <4>1. i \in 1..Len(call.committed) \/ i = Len(call.committed) + 1
        BY <2>8
      <4> QED BY <2>6, <2>8, <4>1 DEF IInv, CallInv
    <3> QED BY <1>1, <1>4, <2>7, <3>1 DEF IInv, CallInv
  <2>10. /\ bus_free_time' \in Nat /\ ~halt_on_fault' /\ ~should_halt'
         /\ \E line : line.op = op /\ trace' = Append(trace, line)
    BY <2>2, <2>3, <2>4, <2>5, ExecuteFacts
  <2>11. \/ producer_last_req_time' = producer_last_req_time
         \/ producer_last_req_time' = [producer_last_req_time EXCEPT ![c] = op.req]
    BY <2>2, <2>3, <2>4, <2>5, ExecuteFacts
  <2>12. IsSeq(trace')
    BY <2>5, <2>10, AppendAny
  <2>13. ArbInv'
    <3>1. CpuIds \subseteq Slots /\ cpu[c].local_time <= cpu[c].local_time
      BY <2>2 DEF CpuIds, Slots
    <3>2. /\ DOMAIN producer_last_req_time' = Slots
          /\ \A d \in CpuIds : producer_last_req_time'[d] # None =>
               /\ producer_last_req_time'[d] \in Nat
               /\ producer_last_req_time'[d] <= cpu[d].local_time
      BY <2>2, <2>5, <2>11, <3>1 DEF IInv, ArbInv
    <3> QED BY <1>1, <2>10, <2>12, <3>2 DEF IInv, ArbInv
  <2> QED BY <1>2, <2>9, <2>13 DEF IInv
<1> QED BY <1>1, <1>7, <1>8, <1>9, <1>10

\* The only entry of a buffer, retired, leaves it empty.
LEMMA RetireOnly ==
    ASSUME NEW e
    PROVE  retire(<<e>>, e.store_id) = <<>>
<1> DEFINE sb == <<e>>
           found == {i \in 1..Len(sb) : sb[i].store_id = e.store_id}
<1>1. Len(sb) = 1 /\ sb[1] = e
  OBVIOUS
<1>2. found = {1}
  BY <1>1
<1>3. RemoveIndex(sb, 1) = <<>>
  BY <1>1 DEF RemoveIndex
<1> HIDE DEF found, sb
<1>4. (CHOOSE i \in found : \A j \in found : i <= j) = 1
  BY <1>2
<1>5. retire(sb, e.store_id) = <<>>
  BY <1>2, <1>3, <1>4 DEF retire, found
<1> QED BY <1>5 DEF sb

\* The reply that CPU c gets at the end of the iteration.
LEMMA AppliedFacts ==
    ASSUME IInv, loop = "commit", NEW c \in CpuIds, ResultsFor(c) # {}
    PROVE  /\ c \in Waiting
           /\ \E k \in 1..Len(call.committed) :
                /\ call.committed[k].op = p[c].op
                /\ call.committed[k].response.stall \in Nat
                /\ IsCpu(Applied(c), c, cpu[c].script)
                /\ Replies(cpu[c], Applied(c), Awaited(c), call.committed[k].response,
                           p[c].op.token)
<1>1. PICK D, h : D = Waiting /\ h = WaitingOp /\ OnePerCpu(D, h)
  BY DEF IInv, CallInv
<1> DEFINE k == CHOOSE k \in ResultsFor(c) : TRUE
           response == call.committed[k].response
<1>2. k \in 1..Len(call.committed) /\ call.committed[k].op.cpu = c
  BY DEF ResultsFor
<1> HIDE DEF k
<1>3. call.committed[k].op \in Ops(D, h)
  BY <1>1, <1>2 DEF OnePerCpu, BatchOf
<1>4. c \in Waiting /\ call.committed[k].op = p[c].op
  <2>1. c \in D /\ call.committed[k].op = h[c]
    BY <1>1, <1>2, <1>3, OpOfBatch DEF OnePerCpu
  <2> QED BY <1>1, <2>1 DEF WaitingOp
<1>5. response.stall \in Nat
  BY <1>2 DEF IInv, CallInv
<1>6. /\ cpu[c].script \in Seq(ScriptOp) /\ IsCpu(cpu[c], c, cpu[c].script)
      /\ p[c].index \in 1..Len(cpu[c].script)
      /\ IsOpFor(p[c].op, c, Awaited(c), cpu[c].local_time)
  BY <1>4 DEF IInv, CpuInv, PendingInv, Waiting
<1>7. cpu[c].script[p[c].index].kind \in BusKinds
  BY <1>6 DEF IsOpFor, Awaited
<1>8. Applied(c) = apply_response(cpu[c], p[c].index, response, p[c].op.token)
  BY DEF Applied, k
<1> HIDE DEF response
<1>9. /\ IsCpu(Applied(c), c, cpu[c].script)
      /\ Replies(cpu[c], Applied(c), Awaited(c), response, p[c].op.token)
  BY <1>6, <1>7, <1>8, ReplyFacts DEF Awaited
<1> QED BY <1>2, <1>4, <1>5, <1>9 DEF response

\* The end of an iteration.
LEMMA LoopApplyKeeps == IInv /\ LoopApply => IInv'
<1> SUFFICES ASSUME IInv, LoopApply PROVE IInv'
  OBVIOUS
<1>1. /\ loop = "commit" /\ loop' = "top" /\ call' = IdleCall
      /\ UNCHANGED <<bus_free_time, producer_last_req_time, trace, halt_on_fault, should_halt>>
      /\ UNCHANGED <<progress_tracking_enabled, progress_up_to>>
      /\ DOMAIN cpu' = CpuIds /\ DOMAIN p' = CpuIds
      /\ \A c \in CpuIds : ResultsFor(c) # {} => cpu'[c] = Applied(c) /\ p'[c] = NoOp
      /\ \A c \in CpuIds : ResultsFor(c) = {} => cpu'[c] = cpu[c] /\ p'[c] = p[c]
  BY DEF LoopApply, BatchFinish, timingVars, traceVars, progressVars
<1>2. ~Has(NoOp)
  BY DEF Has, NoOp
<1>3. ASSUME NEW c \in CpuIds, ResultsFor(c) # {}
      PROVE  /\ IsCpu(cpu'[c], c, cpu[c].script)
             /\ cpu'[c].local_time \in Nat /\ cpu[c].local_time <= cpu'[c].local_time
             /\ cpu'[c].store_buffer = <<>>
  <2>1. PICK k \in 1..Len(call.committed) :
          /\ call.committed[k].response.stall \in Nat
          /\ IsCpu(Applied(c), c, cpu[c].script)
          /\ Replies(cpu[c], Applied(c), Awaited(c), call.committed[k].response, p[c].op.token)
    BY <1>1, <1>3, AppliedFacts
  <2>2. Has(p[c]) /\ cpu[c].local_time \in Nat
    BY <1>1, <1>3, AppliedFacts DEF Waiting, IInv, CpuInv
  <2>3. cpu'[c].local_time = cpu[c].local_time + call.committed[k].response.stall
    BY <1>1, <1>3, <2>1 DEF Replies
  <2>4. CASE Awaited(c).kind = "Write"
    <3>1. PICK e : e.store_id = p[c].op.token /\ cpu[c].store_buffer = <<e>>
      BY <2>2, <2>4 DEF IInv, BufferInv
    <3>2. cpu'[c].store_buffer = retire(cpu[c].store_buffer, p[c].op.token)
      BY <1>1, <1>3, <2>1, <2>4 DEF Replies
    <3>3. cpu'[c].store_buffer = <<>>
      BY <3>1, <3>2, RetireOnly
    <3> QED BY <1>1, <1>3, <2>1, <2>2, <2>3, <3>3
  <2>5. CASE Awaited(c).kind # "Write"
    <3>1. cpu[c].store_buffer = <<>>
      BY <2>2, <2>5 DEF IInv, BufferInv
    <3>2. cpu'[c].store_buffer = cpu[c].store_buffer
      BY <1>1, <1>3, <2>1, <2>5 DEF Replies
    <3> QED BY <1>1, <1>3, <2>1, <2>2, <2>3, <3>1, <3>2
  <2> QED BY <2>4, <2>5
<1>4. \A c \in CpuIds : cpu'[c].script = cpu[c].script
  BY <1>1, <1>3 DEF IsCpu
<1>5. CpuInv'
  BY <1>1, <1>3, <1>4 DEF IInv, CpuInv
<1>6. PendingInv'
  <2>1. ASSUME NEW c \in CpuIds
        PROVE  /\ Has(p'[c]) =>
                    /\ p'[c].index \in 1..Len(cpu'[c].script)
                    /\ cpu'[c].pc = p'[c].index + 1
                    /\ IsOpFor(p'[c].op, c, cpu'[c].script[p'[c].index], cpu'[c].local_time)
               /\ ~Has(p'[c]) => p'[c] = NoOp
    BY <1>1, <1>2 DEF IInv, PendingInv, Awaited
  <2> QED BY <1>1, <2>1 DEF PendingInv, Awaited
<1>7. CallInv'
  BY <1>1, EmptyIsSeq DEF CallInv, IdleCall
<1>8. ArbInv'
  <2>1. \A c \in CpuIds : /\ cpu'[c].local_time \in Nat /\ cpu[c].local_time \in Nat
                          /\ cpu[c].local_time <= cpu'[c].local_time
    BY <1>1, <1>3 DEF IInv, CpuInv
  <2> QED BY <1>1, <2>1 DEF IInv, ArbInv
<1>9. BufferInv'
  <2>1. ASSUME NEW c \in CpuIds
        PROVE  IF Has(p'[c]) /\ cpu'[c].script[p'[c].index].kind = "Write"
                 THEN \E e : e.store_id = p'[c].op.token /\ cpu'[c].store_buffer = <<e>>
                 ELSE cpu'[c].store_buffer = <<>>
    BY <1>1, <1>2, <1>3 DEF IInv, BufferInv, Awaited
  <2> QED BY <2>1 DEF BufferInv, Awaited
<1> QED BY <1>5, <1>6, <1>7, <1>8, <1>9 DEF IInv

\* A step that changes nothing.
LEMMA StutterKeeps == IInv /\ UNCHANGED vars => IInv'
<1> SUFFICES ASSUME IInv, UNCHANGED vars PROVE IInv'
  OBVIOUS
<1>1. UNCHANGED <<cpu, p, loop, call, bus_free_time, producer_last_req_time, trace, halt_on_fault,
                  should_halt, producer_last_enqueued_req_time, progress_tracking_enabled,
                  progress_up_to>>
  BY DEF vars, arbVars, pairVars, timingVars, progressVars, traceVars
<1>2. CpuInv' /\ PendingInv' /\ ArbInv' /\ BufferInv'
  BY <1>1 DEF IInv, CpuInv, PendingInv, ArbInv, BufferInv, Awaited
<1>3. Waiting' = Waiting /\ WaitingOp' = WaitingOp
  BY <1>1 DEF Waiting, WaitingOp
<1>4. \A D, h : OnePerCpu(D, h) => OnePerCpu(D, h)'
  BY <1>1 DEF OnePerCpu, BatchOf, Accepting, Answering
<1>5. CallInv'
  BY <1>1, <1>3, <1>4 DEF IInv, CallInv
<1> QED BY <1>2, <1>5 DEF IInv

\* Every step keeps it.
LEMMA NextIInv == IInv /\ [Next]_vars => IInv'
BY LoopTopKeeps, LoopCallKeeps, InBatchKeeps, LoopApplyKeeps, StutterKeeps DEF Next, Terminated

\* For all scripts, latencies, devices and memories: run_scripted_pair leaves no
\* store in a CPU's store buffer between that CPU's operations, and ends with both
\* buffers drained.
THEOREM BuffersDrain == Spec => []StoresRetired
<1>1. IInv => StoresRetired
  BY DEF IInv, BufferInv, StoresRetired
<1> QED BY <1>1, InitIInv, NextIInv, PTL DEF Spec

-----------------------------------------------------------------------------
(* The operators of AtomicPair, instantiated, are those of this module     *)

\* A byte of a value.
LEMMA SameByteOf == \A v, s, i : Abstract!ByteOf(v, s, i) = ByteOf(v, s, i)
BY Zenon DEF ByteOf, ShiftedBy, Abstract!ByteOf, Abstract!ShiftedBy

\* Writing a value.
LEMMA SameOverwrite ==
    ASSUME NEW f, NEW a, NEW size, NEW v
    PROVE  Abstract!Overwrite(f, a, size, v) = Overwrite(f, a, size, v)
<1> DEFINE x(s, i) == ByteOf(v, s, i)
           result == CASE size = 1 -> [f EXCEPT ![a] = x(1, 0)]
                       [] size = 2 -> [f EXCEPT ![a] = x(2, 0), ![a + 1] = x(2, 1)]
                       [] size = 4 -> [f EXCEPT ![a] = x(4, 0), ![a + 1] = x(4, 1),
                                                ![a + 2] = x(4, 2), ![a + 3] = x(4, 3)]
<1>1. \A s, i : Abstract!ByteOf(v, s, i) = x(s, i)
  BY SameByteOf
<1>2. /\ Abstract!ByteOf(v, 1, 0) = x(1, 0) /\ Abstract!ByteOf(v, 2, 0) = x(2, 0)
      /\ Abstract!ByteOf(v, 2, 1) = x(2, 1) /\ Abstract!ByteOf(v, 4, 0) = x(4, 0)
      /\ Abstract!ByteOf(v, 4, 1) = x(4, 1) /\ Abstract!ByteOf(v, 4, 2) = x(4, 2)
      /\ Abstract!ByteOf(v, 4, 3) = x(4, 3)
  BY <1>1
<1>3. Overwrite(f, a, size, v) = result
  BY Zenon DEF Overwrite
<1> HIDE DEF x
<1>4. Abstract!Overwrite(f, a, size, v) = result
  BY <1>2, Zenon DEF Abstract!Overwrite
<1> QED BY <1>3, <1>4, Zenon

\* The lines of a cache.
LEMMA SameLines ==
    /\ \A a : Abstract!LineBytes(a) = LineBytes(a) /\ Abstract!LineBase(a) = LineBase(a)
    /\ \A h, base, data : Abstract!fill_line(h, base, data) = fill_line(h, base, data)
BY Zenon DEF LineBytes, LineBase, fill_line, LineIndex,
             Abstract!LineBytes, Abstract!LineBase, Abstract!fill_line, Abstract!LineIndex

\* Writing to a cache.
LEMMA SameCacheWrite ==
    \A h, a, size, v : Abstract!CacheWrite(h, a, size, v) = CacheWrite(h, a, size, v)
BY SameOverwrite, ZenonT(40) DEF CacheWrite, LineBase, LineIndex, Hit, CrossesLine, Resident,
     Abstract!CacheWrite, Abstract!LineBase, Abstract!LineIndex, Abstract!Hit,
     Abstract!CrossesLine, Abstract!Resident

\* Retiring a store.
LEMMA SameRetire == \A sb, id : Abstract!retire(sb, id) = retire(sb, id)
BY Zenon DEF retire, RemoveIndex, Abstract!retire, Abstract!RemoveIndex

\* Issuing an operation.
LEMMA SameIssue ==
    ASSUME NEW k
    PROVE  Abstract!Issue(k) = Issue(k)
<1> DEFINE ins == Ins(k)
           s == [k EXCEPT !.pc = @ + 1, !.sequence = @ + 1]
           W(h) == CacheWrite(h, ins.addr, ins.size, ins.value)
           AW(h) == Abstract!CacheWrite(h, ins.addr, ins.size, ins.value)
           U == Uncached(ins)
<1>1. /\ Issue(k) = IF ins.kind # "Write" THEN s
        ELSE [s EXCEPT
                !.next_store_id = @ + 1,
                !.store_buffer = Append(@, [store_id |-> k.next_store_id, addr |-> ins.addr,
                                            size |-> ins.size, value |-> ins.value]),
                !.cache = IF U THEN @ ELSE W(@)]
  BY Zenon DEF Issue
<1>2. (Abstract!Uncached(ins) <=> U) /\ Abstract!Ins(k) = ins
  BY Zenon DEF Uncached, is_mmio, Abstract!Uncached, Abstract!is_mmio, Ins, Abstract!Ins
<1>3. \A h : AW(h) = W(h)
  BY SameCacheWrite, Zenon
<1> HIDE DEF U, ins
<1>4. /\ Abstract!Issue(k) = IF ins.kind # "Write" THEN s
        ELSE [s EXCEPT
                !.next_store_id = @ + 1,
                !.store_buffer = Append(@, [store_id |-> k.next_store_id, addr |-> ins.addr,
                                            size |-> ins.size, value |-> ins.value]),
                !.cache = IF U THEN @ ELSE AW(@)]
  BY <1>2, Zenon DEF Abstract!Issue
<1> DEFINE x == IF U THEN s.cache ELSE W(s.cache)
           y == IF U THEN s.cache ELSE AW(s.cache)
<1>5. x = y
  <2>1. AW(s.cache) = W(s.cache)
    BY <1>3, Zenon
  <2> HIDE DEF AW, W, s
  <2> QED BY <2>1
<1> HIDE DEF W, AW, s
<1>6. Issue(k) = IF ins.kind # "Write" THEN s
        ELSE [s EXCEPT
                !.next_store_id = @ + 1,
                !.store_buffer = Append(@, [store_id |-> k.next_store_id, addr |-> ins.addr,
                                            size |-> ins.size, value |-> ins.value]),
                !.cache = x]
  BY <1>1, Zenon
<1>7. Abstract!Issue(k) = IF ins.kind # "Write" THEN s
        ELSE [s EXCEPT
                !.next_store_id = @ + 1,
                !.store_buffer = Append(@, [store_id |-> k.next_store_id, addr |-> ins.addr,
                                            size |-> ins.size, value |-> ins.value]),
                !.cache = y]
  BY <1>4, Zenon
<1> HIDE DEF x, y
<1> QED BY <1>5, <1>6, <1>7, Zenon

\* Delivering a reply.
LEMMA SameApply ==
    ASSUME NEW k, NEW index, NEW response, NEW token
    PROVE  Abstract!apply_response(k, index, response, token) =
             apply_response(k, index, response, token)
<1> DEFINE ins == k.script[index]
           s == [k EXCEPT !.local_time = @ + response.stall]
           base == LineBase(ins.addr)
           zero == [a \in LineBytes(ins.addr) |-> 0]
           U == Uncached(ins)
           Cached(h) == IF U THEN h
                    ELSE IF response.line # <<>>
                           THEN fill_line(h, base, response.line)
                           ELSE CacheWrite(fill_line(h, base, zero),
                                           ins.addr, ins.size, response.value)
           Retired(sb) == retire(sb, token)
           result == CASE ins.kind = "Write" -> [s EXCEPT !.store_buffer = Retired(@)]
                       [] ins.kind = "Barrier" -> s
                       [] ins.kind = "Read" ->
                            [s EXCEPT !.last_read = response.value, !.cache = Cached(@)]
           ACached(h) == IF U THEN h
                    ELSE IF response.line # <<>>
                           THEN Abstract!fill_line(h, base, response.line)
                           ELSE Abstract!CacheWrite(Abstract!fill_line(h, base, zero),
                                           ins.addr, ins.size, response.value)
           ARetired(sb) == Abstract!retire(sb, token)
           aresult == CASE ins.kind = "Write" -> [s EXCEPT !.store_buffer = ARetired(@)]
                       [] ins.kind = "Barrier" -> s
                       [] ins.kind = "Read" ->
                            [s EXCEPT !.last_read = response.value, !.cache = ACached(@)]
<1>1. apply_response(k, index, response, token) = result
  BY Zenon DEF apply_response
<1>2. /\ (Abstract!Uncached(ins) <=> U) /\ Abstract!LineBase(ins.addr) = base
      /\ Abstract!LineBytes(ins.addr) = LineBytes(ins.addr)
  BY Zenon, SameLines DEF Uncached, is_mmio, Abstract!Uncached, Abstract!is_mmio
<1>3. \A h, sb : ACached(h) = Cached(h) /\ ARetired(sb) = Retired(sb)
  <2> HIDE DEF zero, base
  <2> QED BY SameLines, SameCacheWrite, SameRetire, Zenon
<1> HIDE DEF U, base
<1>4. Abstract!apply_response(k, index, response, token) = aresult
  BY <1>2, Zenon DEF Abstract!apply_response
<1> HIDE DEF Cached, ACached, s, Retired, ARetired
<1>5. aresult = result
  BY <1>3, Zenon
<1> QED BY <1>1, <1>4, <1>5, Zenon

\* When an operation starts and finishes.
LEMMA SameTiming ==
    \A op, tie : Abstract!Start(op) = Start(op) /\ Abstract!Finish(op, tie) = Finish(op, tie)
BY Zenon DEF Finish, Start, base_latency, contention_extra, is_mmio, None, Abstract!Finish,
   Abstract!Start, Abstract!base_latency, Abstract!contention_extra, Abstract!is_mmio,
   Abstract!None

\* Which operations are rejected.
LEMMA SameRejected ==
    \A op : Abstract!Rejected(op) <=> Rejected(op)
BY Zenon DEF Rejected, ValidBusOp, NonMonotonic, valid_bus_size, is_mmio, is_aligned,
   producer_slot, None, AccessSizes, Abstract!Rejected, Abstract!ValidBusOp,
   Abstract!NonMonotonic, Abstract!valid_bus_size, Abstract!is_mmio, Abstract!is_aligned,
   Abstract!producer_slot, Abstract!None, Abstract!AccessSizes

\* What rejecting one does.
LEMMA SameReject ==
    \A op : Abstract!Reject(op) <=> Reject(op)
BY Zenon DEF Reject, fault_response, Start, RejectReason, timingVars, storeVars,
   kInvalidBusOpValue, ValidBusOp, valid_bus_size, is_mmio, is_aligned, AccessSizes,
   Abstract!Reject, Abstract!fault_response, Abstract!Start, Abstract!RejectReason,
   Abstract!timingVars, Abstract!storeVars, Abstract!kInvalidBusOpValue,
   Abstract!ValidBusOp, Abstract!valid_bus_size, Abstract!is_mmio, Abstract!is_aligned,
   Abstract!AccessSizes

\* The value of an operation.
LEMMA SameValueOf ==
    \A op : Abstract!ValueOf(op) = ValueOf(op)
BY Zenon DEF ValueOf, IsWrite, ToDevice, read, is_mmio, access_in_range, Assemble,
   Abstract!ValueOf, Abstract!IsWrite, Abstract!ToDevice, Abstract!read, Abstract!is_mmio,
   Abstract!access_in_range, Abstract!Assemble

\* Its effect.
LEMMA SameEffect ==
    \A op : Abstract!Effect(op) <=> Effect(op)
BY SameOverwrite, Zenon DEF Effect, IsWrite, ToDevice, write, is_mmio, access_in_range,
   Abstract!Effect, Abstract!IsWrite, Abstract!ToDevice, Abstract!write, Abstract!is_mmio,
   Abstract!access_in_range

\* What executing one does.
LEMMA SameGrant ==
    \A op, tie : Abstract!Grant(op, tie) <=> Grant(op, tie)
BY SameEffect, SameTiming, SameValueOf, ZenonT(40) DEF Grant, producer_slot, is_cpu, add_commit,
   CpuIds, Abstract!Grant, Abstract!producer_slot, Abstract!is_cpu, Abstract!add_commit,
   Abstract!CpuIds

\* The two outcomes of an operation.
LEMMA SameExecute ==
    \A op, tie : Abstract!execute_commit(op, tie) <=> execute_commit(op, tie)
BY SameGrant, SameReject, SameRejected, Zenon DEF execute_commit, Abstract!execute_commit

\* Its reply.
LEMMA SameResponse ==
    \A op, tie : Abstract!Response(op, tie) = Response(op, tie)
BY SameRejected, SameValueOf, SameTiming, Zenon DEF Response, kInvalidBusOpValue, ToDevice,
   LineData, is_mmio, read_block, access_in_range, Abstract!Response,
   Abstract!kInvalidBusOpValue, Abstract!ToDevice, Abstract!LineData, Abstract!is_mmio,
   Abstract!read_block, Abstract!access_in_range

\* The arbitration policy.
LEMMA SameBeats ==
    \A op, other : Abstract!Beats(op, other) <=> Beats(op, other)
BY Zenon DEF Beats, Start, producer_slot, priority_of, is_cpu, Preferred, is_mmio, CpuIds,
   Abstract!Beats, Abstract!Start, Abstract!producer_slot, Abstract!priority_of,
   Abstract!is_cpu, Abstract!Preferred, Abstract!is_mmio, Abstract!CpuIds

\* The priority of an operation.
LEMMA SamePriority ==
    \A op : Abstract!priority_of(op) = priority_of(op)
BY Zenon DEF priority_of, is_mmio, Abstract!priority_of, Abstract!is_mmio

\* Where produce stops.
LEMMA SameStop ==
    \A k : Abstract!Stop(k) = Stop(k)
BY Zenon DEF Stop, IsLocal, Uncached, Matches, Hit, is_mmio, Resident, CrossesLine,
   LineIndex, LineBase, Abstract!Stop, Abstract!IsLocal, Abstract!Uncached,
   Abstract!Matches, Abstract!Hit, Abstract!is_mmio, Abstract!Resident,
   Abstract!CrossesLine, Abstract!LineIndex, Abstract!LineBase

\* The cycles in between.
LEMMA SameTicks ==
    \A s, i, j : Abstract!ComputeTicks(s, i, j) = ComputeTicks(s, i, j)
BY Zenon DEF ComputeTicks, Abstract!ComputeTicks

\* The value of a load that needs no bus.
LEMMA SameLocalValue ==
    \A k, ins : Abstract!LocalValue(k, ins) = LocalValue(k, ins)
BY Zenon DEF LocalValue, Matches, forward, CacheRead, Assemble, LineIndex, LineBase,
   Abstract!LocalValue, Abstract!Matches, Abstract!forward, Abstract!CacheRead,
   Abstract!Assemble, Abstract!LineIndex, Abstract!LineBase

\* The largest of a set.
LEMMA SameMax ==
    \A S : Abstract!Max(S) = Max(S)
BY Zenon DEF Max, Abstract!Max

\* The local instructions.
LEMMA SameRunAhead ==
    \A k : Abstract!RunAhead(k) = RunAhead(k)
BY SameStop, SameTicks, SameLocalValue, SameMax, Zenon DEF RunAhead, Abstract!RunAhead

\* The operation for an instruction.
LEMMA SameOpOf ==
    \A k : Abstract!OpOf(k) = OpOf(k)
BY Zenon DEF OpOf, Ins, is_mmio, Uncached, Abstract!OpOf, Abstract!Ins, Abstract!is_mmio,
   Abstract!Uncached

\* produce.
LEMMA SameProduce ==
    \A k : Abstract!produce(k) = produce(k)
BY SameRunAhead, SameIssue, SameOpOf, Zenon DEF produce, done, NoOp, Abstract!produce,
   Abstract!done, Abstract!NoOp

\* The initial state.
LEMMA SameNew ==
    /\ \A c, script : Abstract!NewCpu(c, script) = NewCpu(c, script)
    /\ Abstract!ArbInit <=> ArbInit
BY Zenon DEF NewCpu, ArbInit, NewCache, None, ArbInitWith, InvalidLine, Slots, CpuIds,
   IdleCall, Abstract!NewCpu, Abstract!ArbInit, Abstract!NewCache, Abstract!None,
   Abstract!ArbInitWith, Abstract!InvalidLine, Abstract!Slots, Abstract!CpuIds,
   Abstract!IdleCall

-----------------------------------------------------------------------------
(* run_scripted_pair implements AtomicPair                                 *)

\* The accesses of a script pass validate_bus_op
WellFormed(script) ==
    \A i \in 1..Len(script) :
        script[i].kind \in {"Read", "Write"} =>
            /\ valid_bus_size(script[i].size)
            /\ is_mmio(script[i].addr) => is_aligned(script[i].addr, script[i].size)

WellFormedScripts == \A s \in Scripts, c \in CpuIds : WellFormed(s[c + 1])

\* So every reply comes later than its request
StallInv ==
    /\ \A c \in CpuIds : WellFormed(cpu[c].script)
    /\ \A i \in 1..Len(call.committed) : call.committed[i].response.stall > 0

\* A CPU keeps its script.
LEMMA ScriptsStay ==
    ASSUME IInv, [Next]_vars, NEW c \in CpuIds
    PROVE  cpu'[c].script = cpu[c].script
<1>1. CASE LoopTop
  <2>1. cpu'[c] = Produced(c).cpu
    BY <1>1 DEF LoopTop, CpuIds
  <2> QED BY <2>1, ProducedFacts DEF TopOK, IsCpu
<1>2. CASE LoopApply
  <2>1. CASE ResultsFor(c) # {}
    <3>1. cpu'[c] = Applied(c)
      BY <1>2, <2>1 DEF LoopApply
    <3> QED BY <1>2, <2>1, <3>1, AppliedFacts DEF IsCpu, LoopApply
  <2>2. CASE ResultsFor(c) = {}
    BY <1>2, <2>2 DEF LoopApply
  <2> QED BY <2>1, <2>2
<1>3. CASE UNCHANGED cpu
  BY <1>3
<1> QED BY <1>1, <1>2, <1>3 DEF Next, LoopCall, InBatch, Terminated, vars, pairVars

\* No operation of a well-formed script is rejected.
LEMMA NotRejected ==
    ASSUME IInv, NEW c \in Waiting, WellFormed(cpu[c].script)
    PROVE  ~Rejected(p[c].op)
<1> DEFINE op == p[c].op
           ins == Awaited(c)
<1>1. /\ c \in CpuIds /\ op.req = cpu[c].local_time /\ op.req \in Nat /\ producer_slot(op) = c
  BY BatchedOp
<1>2. ~NonMonotonic(op)
  BY <1>1 DEF IInv, ArbInv, NonMonotonic
<1>3. p[c].index \in 1..Len(cpu[c].script) /\ IsOpFor(op, c, ins, op.req)
  BY <1>1 DEF Waiting, IInv, PendingInv
<1>4. ins.kind \in {"Read", "Write"} =>
        valid_bus_size(ins.size) /\ (is_mmio(ins.addr) => is_aligned(ins.addr, ins.size))
  BY <1>3 DEF WellFormed, Awaited
<1> HIDE DEF ins, op
<1>5. ValidBusOp(op)
  BY <1>3, <1>4 DEF ValidBusOp, IsOpFor, BusKinds
<1> QED BY <1>2, <1>5 DEF Rejected, op

\* New CPUs have had no reply.
LEMMA InitStallInv == WellFormedScripts /\ Init => StallInv
<1> SUFFICES ASSUME WellFormedScripts, Init PROVE StallInv
  OBVIOUS
<1>1. PICK s \in Scripts : cpu = [c \in CpuIds |-> NewCpu(c, s[c + 1])]
  BY DEF Init
<1>2. \A c \in CpuIds : cpu[c].script = s[c + 1]
  BY <1>1 DEF NewCpu
<1>3. Len(call.committed) = 0
  BY EmptyIsSeq DEF Init, ArbInit, ArbInitWith, IdleCall
<1> QED BY <1>2, <1>3 DEF StallInv, WellFormedScripts

\* Every step keeps it.
LEMMA NextStallInv ==
    ASSUME PositiveLatencies, IInv, StallInv, [Next]_vars
    PROVE  StallInv'
<1>1. \A c \in CpuIds : WellFormed(cpu'[c].script)
  BY ScriptsStay DEF StallInv
<1>2. ASSUME \/ call'.committed = call.committed
             \/ Len(call'.committed) = 0
      PROVE  StallInv'
  BY <1>1, <1>2 DEF StallInv
<1>3. CASE LoopTop \/ Terminated \/ UNCHANGED vars
  BY <1>2, <1>3 DEF LoopTop, Terminated, vars, arbVars
<1>4. CASE LoopCall
  <2>1. call'.committed = <<>>
    BY <1>4 DEF LoopCall, BatchCall, IdleCall
  <2> QED BY <1>2, <2>1, EmptyIsSeq
<1>5. CASE LoopApply
  <2>1. call'.committed = <<>>
    BY <1>5 DEF LoopApply, BatchFinish, IdleCall
  <2> QED BY <1>2, <2>1, EmptyIsSeq
<1>6. CASE InBatch
  <2>1. PICK D, h : OnePerCpu(D, h) /\ BatchOf(Ops(D, h))
    BY <1>6 DEF InBatch, IInv, CallInv, OnePerCpu
  <2>2. CASE BatchEnqueue \/ BatchEnqueued \/ BatchReturn
    BY <1>2, <2>1, <2>2, BatchEnqueueOf, BatchPhaseOf
  <2>3. CASE BatchCommit
    <3>1. PICK c, w, e : CommitOf(c, w, e)
      BY <1>6, <2>3, CommitFacts DEF InBatch
    <3> DEFINE op == p[c].op
    <3>2. c \in Waiting /\ c \in CpuIds /\ op.kind \in Kinds /\ op.req \in Nat
      BY <3>1, BatchedOp DEF CommitOf
    <3>3. ~Rejected(op)
      BY <3>2, NotRejected DEF StallInv
    <3>4. HadTie(w) \in BOOLEAN
      BY DEF HadTie
    <3>5. bus_free_time \in Nat
      BY DEF IInv, ArbInv
    <3> HIDE DEF op
    <3>6. Response(op, HadTie(w)).stall > 0
      BY <3>2, <3>3, <3>4, <3>5, Times
    <3>7. e.response.stall > 0 /\ e.op = op
      BY <3>1, <3>6 DEF CommitOf, op
    <3>8. /\ w \in 1..Len(call.pending) /\ call.pending[w].op = op /\ Serves(w, e)
          /\ call.phase = "commit"
      BY <2>3, <3>1 DEF CommitOf, Committable, BatchCommit, op
    <3>9. /\ Len(call.committed) \in Nat /\ Len(call'.committed) = Len(call.committed) + 1
          /\ \A i \in 1..Len(call.committed) : call'.committed[i] = call.committed[i]
          /\ call'.committed[Len(call.committed) + 1] = e
      BY <2>1, <3>7, <3>8, OneCommit
    <3>10. ASSUME NEW i \in 1..Len(call'.committed) PROVE call'.committed[i].response.stall > 0
      <4>1. i \in 1..Len(call.committed) \/ i = Len(call.committed) + 1
        BY <3>9
      <4> QED BY <3>7, <3>9, <4>1 DEF StallInv
    <3> QED BY <1>1, <3>10 DEF StallInv
  <2> QED BY <1>6, <2>2, <2>3 DEF InBatch
<1> QED BY <1>3, <1>4, <1>5, <1>6 DEF Next

\* A step that leaves what AtomicPair constrains.
LEMMA AbstractStutter ==
    ASSUME UNCHANGED <<bus_free_time, last_grant_cpu, last_addr, producer_last_req_time, memory,
                       devices, trace>>,
           \A c \in CpuIds : AbstractCpu(c)' = AbstractCpu(c)
    PROVE  UNCHANGED Abstract!abstractVars
<1>1. [c \in CpuIds |-> AbstractCpu(c)]' = [c \in CpuIds |-> AbstractCpu(c)]
  OBVIOUS
<1> QED BY <1>1 DEF Abstract!abstractVars, Abstract!timingVars, Abstract!storeVars

\* The abstract CPU in each of its three cases.
LEMMA AbstractCases ==
    ASSUME NEW c \in CpuIds
    PROVE  /\ ~Has(p[c]) => AbstractCpu(c) = produce(cpu[c])
           /\ Has(p[c]) /\ ResultsFor(c) # {} => AbstractCpu(c) = produce(Applied(c))
           /\ Has(p[c]) /\ ResultsFor(c) = {} => AbstractCpu(c) = [cpu |-> cpu[c], op |-> p[c]]
<1> DEFINE r == produce(Applied(c))
<1>1. {produce(served) : served \in {Applied(c)}} = {r}
  OBVIOUS
<1> HIDE DEF r
<1>2. (CHOOSE q \in {r} : TRUE) = r
  OBVIOUS
<1> QED BY <1>1, <1>2, Zenon DEF AbstractCpu, r

\* The same of the next state.
LEMMA AbstractCasesNext ==
    ASSUME NEW c \in CpuIds
    PROVE  /\ ~Has(p'[c]) => AbstractCpu(c)' = produce(cpu'[c])
           /\ Has(p'[c]) /\ ResultsFor(c)' # {} => AbstractCpu(c)' = produce(Applied(c)')
           /\ Has(p'[c]) /\ ResultsFor(c)' = {} =>
                AbstractCpu(c)' = [cpu |-> cpu'[c], op |-> p'[c]]
<1> DEFINE a == Applied(c)'
           r == produce(Applied(c)')
<1>1. {produce(served) : served \in {a}} = {r}
  OBVIOUS
<1> HIDE DEF r
<1>2. (CHOOSE q \in {r} : TRUE) = r
  OBVIOUS
<1>3. AbstractCpu(c)' = IF ~Has(p'[c]) THEN produce(cpu'[c])
                        ELSE IF ResultsFor(c)' # {}
                               THEN CHOOSE q \in {produce(served) : served \in {a}} : TRUE
                        ELSE [cpu |-> cpu'[c], op |-> p'[c]]
  BY DEF AbstractCpu
<1> HIDE DEF a
<1> QED BY <1>1, <1>2, <1>3, Zenon DEF r, a

\* Before a batch and after it there are no results.
LEMMA NoResults ==
    ASSUME NEW c \in CpuIds
    PROVE  /\ call = IdleCall => ResultsFor(c) = {}
           /\ call'.committed = <<>> => ResultsFor(c)' = {}
<1>1. call = IdleCall => call.committed = <<>>
  BY DEF IdleCall
<1> QED BY <1>1, EmptyIsSeq DEF ResultsFor

\* The top of the loop does nothing that AtomicPair sees: the abstract CPU has
\* already produced.
LEMMA LoopTopStutters == IInv /\ LoopTop => UNCHANGED Abstract!abstractVars
<1> SUFFICES ASSUME IInv, LoopTop PROVE UNCHANGED Abstract!abstractVars
  OBVIOUS
<1>1. /\ loop = "top"
      /\ UNCHANGED <<bus_free_time, last_grant_cpu, last_addr, producer_last_req_time, memory,
                     devices, trace, call>>
      /\ \A c \in CpuIds : cpu'[c] = Produced(c).cpu /\ p'[c] = Produced(c).op
  BY DEF LoopTop, CpuIds, timingVars, traceVars, storeVars
<1>2. call = IdleCall /\ call'.committed = <<>>
  BY <1>1 DEF IInv, CallInv, IdleCall
<1>3. ASSUME NEW c \in CpuIds PROVE AbstractCpu(c)' = AbstractCpu(c)
  <2>1. ResultsFor(c) = {} /\ ResultsFor(c)' = {}
    BY <1>2, NoResults
  <2>2. CASE Has(p[c])
    <3>1. cpu'[c] = cpu[c] /\ p'[c] = p[c]
      BY <1>1, <2>2 DEF Produced
    <3> QED BY <2>1, <2>2, <3>1, AbstractCases, AbstractCasesNext
  <2>3. CASE ~Has(p[c])
    <3> DEFINE k == cpu[c]
               script == cpu[c].script
               q == produce(k)
    <3>1. script \in Seq(ScriptOp) /\ IsCpu(k, c, script) /\ k.local_time \in Nat
      BY DEF IInv, CpuInv
    <3>2. cpu'[c] = q.cpu /\ p'[c] = q.op /\ AbstractCpu(c) = q
      BY <1>1, <2>3, AbstractCases DEF Produced
    <3> HIDE DEF k, script
    <3>3. Produces(k, q, c, script)
      BY <3>1, ProduceFacts
    <3> HIDE DEF q
    <3>4. CASE Has(q.op)
      <4>1. AbstractCpu(c)' = [cpu |-> q.cpu, op |-> q.op]
        BY <2>1, <3>2, <3>4, AbstractCasesNext
      <4>2. q = [cpu |-> q.cpu, op |-> q.op]
        BY <3>3 DEF Produces
      <4> QED BY <3>2, <4>1, <4>2
    <3>5. CASE ~Has(q.op)
      <4>1. /\ IsCpu(q.cpu, c, script) /\ q.cpu.local_time \in Nat
            /\ q.op = NoOp /\ q.cpu.pc = Len(script) + 1 /\ q = [cpu |-> q.cpu, op |-> q.op]
        BY <3>1, <3>3, <3>5, Zenon DEF Produces
      <4>2. produce(q.cpu) = [cpu |-> q.cpu, op |-> NoOp]
        BY <3>1, <4>1, ProduceAtEnd
      <4>3. AbstractCpu(c)' = produce(q.cpu)
        BY <3>2, <3>5, AbstractCasesNext
      <4> QED BY <3>2, <4>1, <4>2, <4>3
    <3> QED BY <3>4, <3>5
  <2> QED BY <2>2, <2>3
<1> QED BY <1>1, <1>3, AbstractStutter

\* Nor do the call, the loop that accepts the operations, and the return.
LEMMA QuietStutters ==
    ASSUME UNCHANGED <<cpu, p, bus_free_time, last_grant_cpu, last_addr, producer_last_req_time,
                       memory, devices, trace>>,
           call'.committed = call.committed
    PROVE  UNCHANGED Abstract!abstractVars
<1>1. ASSUME NEW c \in CpuIds PROVE AbstractCpu(c)' = AbstractCpu(c)
  <2>1. ResultsFor(c)' = ResultsFor(c)
    BY DEF ResultsFor
  <2>2. Applied(c)' = Applied(c)
    BY <2>1, Zenon DEF Applied
  <2> QED BY <2>1, <2>2, AbstractCases, AbstractCasesNext
<1> QED BY <1>1, AbstractStutter

\* Delivering the replies does nothing either: the abstract CPU has them.
LEMMA LoopApplyStutters == IInv /\ LoopApply => UNCHANGED Abstract!abstractVars
<1> SUFFICES ASSUME IInv, LoopApply PROVE UNCHANGED Abstract!abstractVars
  OBVIOUS
<1>1. /\ loop = "commit" /\ call'.committed = <<>>
      /\ UNCHANGED <<bus_free_time, last_grant_cpu, last_addr, producer_last_req_time, memory,
                     devices, trace>>
      /\ \A c \in CpuIds : ResultsFor(c) # {} => cpu'[c] = Applied(c) /\ p'[c] = NoOp
      /\ \A c \in CpuIds : ResultsFor(c) = {} => cpu'[c] = cpu[c] /\ p'[c] = p[c]
  BY DEF LoopApply, BatchFinish, IdleCall, timingVars, traceVars, storeVars
<1>2. ~Has(NoOp)
  BY DEF Has, NoOp
<1>3. ASSUME NEW c \in CpuIds PROVE AbstractCpu(c)' = AbstractCpu(c)
  <2>1. ResultsFor(c)' = {}
    BY <1>1, NoResults
  <2>2. CASE ResultsFor(c) # {}
    <3>1. Has(p[c])
      BY <1>1, <2>2, AppliedFacts DEF Waiting
    <3> QED BY <1>1, <1>2, <2>2, <3>1, AbstractCases, AbstractCasesNext
  <2>3. CASE ResultsFor(c) = {}
    BY <1>1, <2>1, <2>3, AbstractCases, AbstractCasesNext
  <2> QED BY <2>2, <2>3
<1> QED BY <1>1, <1>3, AbstractStutter

\* The winner against the other CPU, as AtomicPair sees both
WinsAs(w, me, peer) == Abstract!Wins(me, peer) /\ (HadTie(w) <=> Abstract!Tied(me, peer))

\* The operation that the arbiter picks is the one that AtomicPair lets go first,
\* tied exactly when AtomicPair says so: an operation within the horizon is not
\* later than the other CPU's, and both are compared if they are equal.
LEMMA PicksTheWinner ==
    ASSUME IInv, StallInv, loop = "commit", call.phase = "commit",
           NEW c, NEW w, NEW e, CommitOf(c, w, e)
    PROVE  /\ ResultsFor(c) = {}
           /\ WinsAs(w, AbstractCpu(c), AbstractCpu(1 - c))
<1> DEFINE d == 1 - c
           op == p[c].op
           od == p[d].op
           me == AbstractCpu(c)
           peer == AbstractCpu(d)
<1>1. PICK D, h : D = Waiting /\ h = WaitingOp /\ OnePerCpu(D, h)
  BY DEF IInv, CallInv
<1>2. /\ c \in Waiting /\ c \in CpuIds /\ Has(p[c]) /\ op.req = cpu[c].local_time
      /\ op.req \in Nat /\ op.cpu = c /\ op.producer = "Auto"
  BY BatchedOp DEF CommitOf, Waiting, IInv, PendingInv, IsOpFor
<1>3. d \in CpuIds /\ d # c /\ \A x \in CpuIds : x = c \/ x = d
  BY <1>2 DEF CpuIds
<1>4. /\ w \in Committable /\ w \in 1..Len(call.pending) /\ call.pending[w].op = op
      /\ CommitSafe(op) /\ w = pick_next(PendingOps, Committable)
  BY DEF CommitOf, Committable
<1>5. /\ Answering(D, h) /\ call.pending \in Seq([index : Nat, op : Ops(D, h)])
      /\ Len(call.pending) \in Nat
  BY <1>1 DEF OnePerCpu, BatchOf
<1>6. ResultsFor(c) = {}
  <2>1. ASSUME NEW k \in 1..Len(call.committed) PROVE call.committed[k].op.cpu # c
    <3>1. call.pending[w].op.cpu = c
      BY <1>2, <1>4
    <3> QED BY <1>4, <1>5, <3>1 DEF Answering
  <2> QED BY <2>1 DEF ResultsFor
<1>7. me = [cpu |-> cpu[c], op |-> p[c]]
  BY <1>2, <1>6, AbstractCases
<1>8. \A x \in CpuIds : op.req <= cpu[x].local_time /\ cpu[x].local_time \in Nat
  <2>1. /\ progress_tracking_enabled /\ progress_up_to \in [CpuIds -> Nat]
        /\ \A x \in CpuIds : progress_up_to[x] # TickMax =>
              progress_up_to[x] <= cpu[x].local_time + 1
        /\ \A x \in CpuIds : cpu[x].local_time \in Nat
    BY DEF IInv, ArbInv, CpuInv
  <2>2. \A x \in CpuIds : op.req < progress_up_to[x] /\ progress_up_to[x] # TickMax
    BY <1>2, <1>4, <2>1, WithinHorizon
  <2> QED BY <1>2, <2>1, <2>2
<1>9. ASSUME NEW i \in 1..Len(call.pending), i # w
      PROVE  d \in Waiting /\ call.pending[i].op = od /\ call.pending[i].op.cpu = d
  <2>1. call.pending[i] \in [index : Nat, op : Ops(D, h)]
    BY <1>5, ElementType
  <2>2. call.pending[i].op \in Ops(D, h)
    BY <2>1
  <2>3. PICK x \in Waiting : call.pending[i].op = p[x].op
    BY <1>1, <2>2 DEF Ops, Waiting, WaitingOp
  <2>4. x \in CpuIds /\ p[x].op.cpu = x
    BY DEF Waiting, IInv, PendingInv, IsOpFor
  <2>5. x # c
    BY <1>2, <1>4, <1>5, <1>9, <2>3, <2>4 DEF Answering
  <2> QED BY <1>3, <2>3, <2>4, <2>5
<1> HIDE DEF d
<1>10. CASE ~Has(p[d])
  <2>1. /\ cpu[d].script \in Seq(ScriptOp) /\ IsCpu(cpu[d], d, cpu[d].script)
        /\ cpu[d].local_time \in Nat /\ cpu[d].pc = Len(cpu[d].script) + 1
    BY <1>3, <1>10 DEF IInv, CpuInv, PendingInv
  <2>2. peer = [cpu |-> cpu[d], op |-> NoOp]
    BY <1>3, <1>10, <2>1, AbstractCases, ProduceAtEnd
  <2>3. ~Abstract!Has(peer.op)
    BY <2>2 DEF NoOp, Abstract!Has
  <2>4. ~HadTie(w)
    BY <1>9, <1>10 DEF HadTie, Committable, Waiting
  <2> HIDE DEF me, peer
  <2>5. WinsAs(w, me, peer)
    BY <2>3, <2>4 DEF WinsAs, Abstract!Wins, Abstract!Tied
  <2> QED BY <1>6, <2>5 DEF me, peer, d
<1>11. CASE Has(p[d]) /\ ResultsFor(d) # {}
  <2>1. PICK k \in 1..Len(call.committed) :
          /\ call.committed[k].op = od
          /\ call.committed[k].response.stall \in Nat
          /\ IsCpu(Applied(d), d, cpu[d].script)
          /\ Replies(cpu[d], Applied(d), Awaited(d), call.committed[k].response, od.token)
    BY <1>3, <1>11, AppliedFacts
  <2>2. call.committed[k].response.stall > 0
    BY DEF StallInv
  <2>3. cpu[d].local_time \in Nat /\ cpu[d].script \in Seq(ScriptOp) /\ od.cpu = d
    BY <1>3, <1>11 DEF IInv, CpuInv, PendingInv, IsOpFor
  <2>4. Applied(d).local_time \in Nat /\ Applied(d).local_time > cpu[d].local_time
    BY <2>1, <2>2, <2>3 DEF Replies
  <2>5. peer = produce(Applied(d))
    BY <1>3, <1>11, AbstractCases
  <2>6. Produces(Applied(d), peer, d, cpu[d].script)
    BY <2>1, <2>3, <2>5, ProduceFacts
  <2> HIDE DEF me, peer
  <2>7. ~HadTie(w)
    <3>1. ASSUME NEW i \in 1..Len(call.pending), i # w PROVE FALSE
      <4>1. call.pending[i].op.cpu = d /\ call.committed[k].op.cpu = d
        BY <1>9, <2>1, <2>3, <3>1
      <4> QED BY <1>5, <4>1 DEF Answering
    <3> QED BY <3>1 DEF HadTie, Committable
  <2>8. CASE ~Has(peer.op)
    <3>1. WinsAs(w, me, peer)
      BY <2>7, <2>8 DEF WinsAs, Abstract!Wins, Abstract!Tied, Abstract!Has, Has
    <3> QED BY <1>6, <3>1 DEF me, peer, d
  <2>9. CASE Has(peer.op)
    <3>1. /\ peer.cpu.local_time \in Nat /\ Applied(d).local_time <= peer.cpu.local_time
          /\ peer.op.op.req = peer.cpu.local_time
      BY <2>4, <2>6, <2>9, Zenon DEF Produces, IsOpFor
    <3>2. op.req < peer.op.op.req /\ op.req \in Nat /\ peer.op.op.req \in Nat
      BY <1>2, <1>3, <1>8, <2>4, <3>1
    <3>3. me.op.op = op
      BY <1>7
    <3>4. WinsAs(w, me, peer)
      <4> HIDE DEF op
      <4> QED BY <2>7, <3>2, <3>3 DEF WinsAs, Abstract!Wins, Abstract!Tied
    <3> QED BY <1>6, <3>4 DEF me, peer, d
  <2> QED BY <2>8, <2>9
<1>12. CASE Has(p[d]) /\ ResultsFor(d) = {}
  <2>1. peer = [cpu |-> cpu[d], op |-> p[d]]
    BY <1>3, <1>12, AbstractCases
  <2>2. me.op.op = op /\ peer.op.op = od /\ peer.op = p[d]
    BY <1>7, <2>1
  <2>3. /\ od.req = cpu[d].local_time /\ od.req \in Nat /\ od.cpu = d /\ od.producer = "Auto"
        /\ d \in Waiting
    BY <1>3, <1>12 DEF IInv, CpuInv, PendingInv, IsOpFor, Waiting
  <2>4. PICK i \in 1..Len(call.pending) : call.pending[i].op = od /\ i # w
    <3>1. \/ \E i \in 1..Len(call.pending) : call.pending[i].op = od
          \/ \E i \in 1..Len(call.committed) : call.committed[i].op = od
      <4>1. d \in D /\ h[d] = od
        BY <1>1, <1>3, <2>3 DEF WaitingOp
      <4> QED BY <1>5, <4>1 DEF Answering
    <3>2. ~\E i \in 1..Len(call.committed) : call.committed[i].op = od
      BY <1>12, <2>3 DEF ResultsFor
    <3>3. PICK i \in 1..Len(call.pending) : call.pending[i].op = od
      BY <3>1, <3>2
    <3>4. i # w
      BY <1>2, <1>3, <1>4, <2>3, <3>3
    <3> QED BY <3>3, <3>4
  <2>5. op.req <= od.req
    BY <1>3, <1>8, <2>3
  <2>6. \A j \in Committable \ {w} : j = i /\ i \in Committable
    <3> SUFFICES ASSUME NEW j \in Committable \ {w} PROVE j = i
      OBVIOUS
    <3>1. j \in 1..Len(call.pending) /\ j # w
      BY DEF Committable
    <3>2. call.pending[j].op.cpu = d /\ call.pending[i].op.cpu = d
      BY <1>9, <2>3, <2>4, <3>1
    <3> QED BY <1>5, <3>1, <3>2 DEF Answering
  <2> HIDE DEF me, peer, op, od
  <2>7. CASE op.req < od.req
    <3>1. i \notin Committable
      <4> SUFFICES ASSUME CommitSafe(od) PROVE FALSE
        BY <2>4 DEF Committable
      <4>1. /\ progress_tracking_enabled /\ progress_up_to \in [CpuIds -> Nat]
            /\ progress_up_to[c] # TickMax => progress_up_to[c] <= op.req + 1
        BY <1>2 DEF IInv, ArbInv
      <4>2. od.req < progress_up_to[c] /\ progress_up_to[c] # TickMax
        BY <1>2, <2>3, <4>1, WithinHorizon
      <4>3. progress_up_to[c] \in Nat
        BY <1>2, <4>1
      <4> QED BY <1>2, <2>3, <2>7, <4>1, <4>2, <4>3
    <3>2. ~HadTie(w)
      BY <2>6, <3>1 DEF HadTie
    <3>3. WinsAs(w, me, peer)
      BY <1>2, <2>2, <2>3, <2>7, <3>2 DEF WinsAs, Abstract!Wins, Abstract!Tied
    <3> QED BY <1>6, <3>3 DEF me, peer, d
  <2>8. CASE op.req = od.req
    <3>1. i \in Committable
      BY <1>4, <2>4, <2>8 DEF Committable, CommitSafe
    <3>2. Start(op) = Start(od) /\ Start(op) \in Nat
      BY <1>2, <2>8 DEF Start, IInv, ArbInv
    <3>3. HadTie(w) <=> priority_of(op) = priority_of(od)
      BY <1>4, <2>4, <2>6, <3>1, <3>2 DEF HadTie
    <3>4. /\ Len(PendingOps) = Len(call.pending) /\ PendingOps[w] = op /\ PendingOps[i] = od
      BY <1>4, <1>5, <2>4 DEF PendingOps
    <3>5. Len(call.pending) \in {1, 2}
      <4>1. \A j \in 1..Len(call.pending) : j = w \/ j = i
        <5> TAKE j \in 1..Len(call.pending)
        <5>1. j # w => call.pending[j].op.cpu = d /\ call.pending[i].op.cpu = d
          BY <1>9, <2>3, <2>4
        <5> QED BY <1>5, <5>1 DEF Answering
      <4>2. ~(Len(call.pending) >= 3)
        <5> SUFFICES ASSUME Len(call.pending) >= 3 PROVE FALSE
          OBVIOUS
        <5>1. 1 \in 1..Len(call.pending) /\ 2 \in 1..Len(call.pending) /\ 3 \in 1..Len(call.pending)
          BY <1>5
        <5> QED BY <4>1, <5>1
      <4> DEFINE n == Len(call.pending)
      <4>3. n \in Nat /\ 1 <= n /\ ~(n >= 3)
        BY <1>4, <1>5, <4>2
      <4> HIDE DEF n
      <4>4. n \in {1, 2}
        BY <4>3
      <4> QED BY <4>4 DEF n
    <3>6. Beats(op, od)
      <4> DEFINE ops == PendingOps
                 C == Committable
      <4>1. Len(ops) \in {1, 2} /\ C \in SUBSET (1..Len(ops)) /\ C # {} /\ w = pick_next(ops, C)
        BY <1>4, <3>4, <3>5 DEF Committable
      <4>2. ops[w] = op /\ ops[i] = od /\ i \in C \ {w} /\ i \in Nat /\ w \in Nat
        BY <1>4, <2>4, <3>1, <3>4
      <4> HIDE DEF ops, C
      <4>3. IF i < w THEN Beats(ops[w], ops[i]) ELSE ~Beats(ops[i], ops[w])
        BY <4>1, <4>2, PickOfTwo
      <4>4. Beats(op, od) \/ ~Beats(od, op)
        BY <4>2, <4>3
      <4>5. Beats(op, od) <=> ~Beats(od, op)
        BY <1>2, <1>3, <2>3, <3>2, OneBeats DEF op
      <4> QED BY <4>4, <4>5
    <3>7. WinsAs(w, me, peer)
      <4>1. Abstract!Beats(op, od) /\ Abstract!Has(peer.op)
        BY <1>12, <2>2, <3>6, SameBeats DEF Abstract!Has, Has
      <4>2. Abstract!priority_of(op) = priority_of(op) /\ Abstract!priority_of(od) = priority_of(od)
        BY SamePriority
      <4> QED BY <2>2, <2>8, <3>3, <4>1, <4>2 DEF WinsAs, Abstract!Wins, Abstract!Tied
    <3> QED BY <1>6, <3>7 DEF me, peer, d
  <2> QED BY <1>2, <2>3, <2>5, <2>7, <2>8 DEF op
<1> QED BY <1>10, <1>11, <1>12

\* An iteration of the second loop is a commit of AtomicPair.
LEMMA CommitRefines ==
    ASSUME IInv, StallInv, InBatch, BatchCommit
    PROVE  Abstract!Next
<1>1. PICK c, w, e : CommitOf(c, w, e)
  BY CommitFacts DEF InBatch
<1> DEFINE d == 1 - c
           op == p[c].op
           tie == HadTie(w)
           response == Response(op, tie)
           me == AbstractCpu(c)
           peer == AbstractCpu(d)
           done0 == call.committed
<1>2. loop = "commit" /\ call.phase = "commit" /\ UNCHANGED <<cpu, p>>
  BY DEF InBatch, BatchCommit, pairVars
<1>3. PICK D, h : D = Waiting /\ h = WaitingOp /\ OnePerCpu(D, h)
  BY <1>2 DEF IInv, CallInv
<1>4. /\ c \in CpuIds /\ Has(p[c]) /\ op.cpu = c /\ e.op = op /\ e.response = response
      /\ w \in 1..Len(call.pending) /\ call.pending[w].op = op /\ Serves(w, e)
      /\ execute_commit(op, tie)
  BY <1>1, BatchedOp DEF CommitOf, Committable, Waiting, IInv, PendingInv, IsOpFor
<1>5. d \in CpuIds /\ d # c /\ c = 1 - d /\ \A x \in CpuIds : x = c \/ x = d
  BY <1>4 DEF CpuIds
<1>6. ResultsFor(c) = {} /\ WinsAs(w, me, peer)
  BY <1>1, <1>2, PicksTheWinner
<1>7. /\ Len(done0) \in Nat /\ Len(call'.committed) = Len(done0) + 1
      /\ \A i \in 1..Len(done0) : call'.committed[i] = done0[i]
      /\ call'.committed[Len(done0) + 1] = e
  BY <1>2, <1>3, <1>4, OneCommit
<1> HIDE DEF op, tie, response, done0
<1>8. ResultsFor(c)' = {Len(done0) + 1} /\ ResultsFor(d)' = ResultsFor(d)
  <2>1. \A i \in 1..Len(call'.committed) : i \in 1..Len(done0) \/ i = Len(done0) + 1
    BY <1>7
  <2>2. \A i \in 1..Len(done0) : done0[i].op.cpu # c
    BY <1>6 DEF ResultsFor, done0
  <2>3. Len(done0) + 1 \in 1..Len(call'.committed)
    BY <1>7
  <2>4. \A i \in 1..Len(done0) : i \in 1..Len(call'.committed)
    BY <1>7
  <2>5. ResultsFor(c)' = {i \in 1..Len(call'.committed) : call'.committed[i].op.cpu = c}
    BY DEF ResultsFor
  <2>6. ResultsFor(d)' = {i \in 1..Len(call'.committed) : call'.committed[i].op.cpu = d}
    BY DEF ResultsFor
  <2>7. ResultsFor(d) = {i \in 1..Len(done0) : done0[i].op.cpu = d}
    BY DEF ResultsFor, done0
  <2>8. e.op.cpu = c
    BY <1>4
  <2>9. ResultsFor(c)' = {Len(done0) + 1}
    BY <1>7, <2>1, <2>2, <2>3, <2>5, <2>8
  <2>10. ResultsFor(d)' = ResultsFor(d)
    BY <1>5, <1>7, <2>1, <2>4, <2>6, <2>7, <2>8
  <2> QED BY <2>9, <2>10
<1>9. AbstractCpu(d)' = AbstractCpu(d)
  <2>1. ASSUME ResultsFor(d) # {} PROVE Applied(d)' = Applied(d)
    <3> DEFINE k == CHOOSE k \in ResultsFor(d) : TRUE
    <3>1. k \in 1..Len(done0)
      BY <2>1 DEF ResultsFor, done0
    <3>2. Applied(d) = apply_response(cpu[d], p[d].index, done0[k].response, p[d].op.token)
      BY Zenon DEF Applied, done0
    <3>3. Applied(d)' = apply_response(cpu[d], p[d].index, call'.committed[k].response, p[d].op.token)
      BY <1>2, <1>8, Zenon DEF Applied
    <3> HIDE DEF k
    <3> QED BY <1>7, <3>1, <3>2, <3>3
  <2>2. cpu'[d] = cpu[d] /\ p'[d] = p[d]
    BY <1>2
  <2>3. CASE ResultsFor(d) # {}
    BY <1>5, <1>8, <2>1, <2>2, <2>3, AbstractCases, AbstractCasesNext
  <2>4. CASE ResultsFor(d) = {}
    BY <1>5, <1>8, <2>2, <2>4, AbstractCases, AbstractCasesNext
  <2> QED BY <2>3, <2>4
<1> DEFINE served == apply_response(cpu[c], p[c].index, response, op.token)
<1>10. AbstractCpu(c)' = produce(served)
  <2> DEFINE k == CHOOSE k \in ResultsFor(c)' : TRUE
  <2>1. k = Len(done0) + 1
    BY <1>8
  <2>2. Applied(c)' = apply_response(cpu[c], p[c].index, call'.committed[k].response, p[c].op.token)
    BY <1>2, Zenon DEF Applied
  <2> HIDE DEF k
  <2>3. Applied(c)' = served
    BY <1>4, <1>7, <2>1, <2>2 DEF op
  <2>4. Has(p'[c]) /\ ResultsFor(c)' # {}
    BY <1>2, <1>4, <1>8
  <2> QED BY <1>4, <2>3, <2>4, AbstractCasesNext
<1>11. me = [cpu |-> cpu[c], op |-> p[c]]
  BY <1>4, <1>6, AbstractCases
<1>12. me.cpu = cpu[c] /\ me.op = p[c] /\ me.op.op = op /\ Abstract!Has(me.op)
  BY <1>4, <1>11 DEF Has, Abstract!Has, op
<1>13. tie = Abstract!Tied(me, peer) /\ Abstract!Wins(me, peer)
  <2> HIDE DEF me, peer
  <2>1. Abstract!Wins(me, peer) /\ (tie <=> Abstract!Tied(me, peer))
    BY <1>6 DEF WinsAs, tie
  <2>2. tie \in BOOLEAN
    BY DEF tie, HadTie
  <2>3. Abstract!Tied(me, peer) \in BOOLEAN
    BY DEF Abstract!Tied
  <2> QED BY <2>1, <2>2, <2>3
<1> DEFINE C == [x \in CpuIds |-> AbstractCpu(x)]
<1>14. C[c] = me /\ C[d] = peer
  BY <1>4, <1>5
<1>15. C' = [C EXCEPT ![c] = produce(served)]
  <2>1. \A x \in CpuIds : C'[x] = [C EXCEPT ![c] = produce(served)][x]
    BY <1>4, <1>5, <1>9, <1>10
  <2> QED BY <2>1
<1> HIDE DEF me, peer, served
<1>16. Abstract!execute_commit(me.op.op, Abstract!Tied(me, peer))
  BY <1>4, <1>12, <1>13, SameExecute
<1>17. served = Abstract!apply_response(me.cpu, me.op.index,
                    Abstract!Response(me.op.op, Abstract!Tied(me, peer)), me.op.op.token)
  BY <1>12, <1>13, SameApply, SameResponse DEF served, response
<1>18. Abstract!produce(served) = produce(served)
  BY SameProduce
<1>19. Abstract!Commit(c)
  BY <1>5, <1>12, <1>13, <1>14, <1>15, <1>16, <1>17, <1>18, Zenon DEF Abstract!Commit, d
<1> QED BY <1>4, <1>19 DEF Abstract!Next, Abstract!CpuIds, CpuIds

\* The program starts as AtomicPair does.
LEMMA InitRefines == Init => Abstract!Init
<1> SUFFICES ASSUME Init PROVE Abstract!Init
  OBVIOUS
<1>1. PICK s \in Scripts : cpu = [c \in CpuIds |-> NewCpu(c, s[c + 1])]
  BY DEF Init
<1> DEFINE C == [c \in CpuIds |-> AbstractCpu(c)]
<1>2. ASSUME NEW c \in CpuIds
      PROVE  C[c] = produce(NewCpu(c, s[c + 1])) /\ C[c].cpu.script = s[c + 1]
  <2> DEFINE script == s[c + 1]
             k == NewCpu(c, script)
             q == produce(k)
  <2>1. script \in Seq(ScriptOp)
    BY ScriptsAssumption DEF CpuIds
  <2>2. ~Has(p[c]) /\ cpu[c] = k
    BY <1>1 DEF Init, Has, NoOp
  <2>3. C[c] = q
    BY <2>2, AbstractCases
  <2> HIDE DEF script
  <2>4. IsCpu(k, c, script)
    BY <2>1, NewCpuFacts, Zenon
  <2> HIDE DEF k
  <2>5. Produces(k, q, c, script)
    BY <2>1, <2>4, ProduceFacts
  <2> HIDE DEF q
  <2>6. q.cpu.script = script
    BY <2>5, Zenon DEF Produces, IsCpu
  <2> QED BY <2>3, <2>6 DEF script, q, k
<1> HIDE DEF C
<1>3. <<C[0].cpu.script, C[1].cpu.script>> = s /\ 0 \in CpuIds /\ 1 \in CpuIds
  <2>1. C[0].cpu.script = s[1] /\ C[1].cpu.script = s[2]
    BY <1>2 DEF CpuIds
  <2>2. s \in Seq(ScriptOp) \X Seq(ScriptOp)
    BY ScriptsAssumption
  <2> QED BY <2>1, <2>2 DEF CpuIds
<1>4. C = [c \in CpuIds |-> produce(NewCpu(c, s[c + 1]))]
  BY <1>2 DEF C
<1>5. C = [c \in Abstract!CpuIds |-> Abstract!produce(Abstract!NewCpu(c, s[c + 1]))]
  <2>1. Abstract!CpuIds = CpuIds
    BY DEF CpuIds, Abstract!CpuIds
  <2>2. \A c : Abstract!produce(Abstract!NewCpu(c, s[c + 1])) = produce(NewCpu(c, s[c + 1]))
    BY SameProduce, SameNew
  <2> QED BY <1>4, <2>1, <2>2
<1>6. Abstract!ArbInit /\ halt_on_fault = FALSE
  BY SameNew DEF Init
<1> DEFINE t == <<C[0].cpu.script, C[1].cpu.script>>
<1>7. t \in Scripts /\ C = [c \in Abstract!CpuIds |-> Abstract!produce(Abstract!NewCpu(c, t[c + 1]))]
  BY <1>3, <1>5
<1> HIDE DEF t
<1> QED BY <1>6, <1>7, Zenon DEF Abstract!Init, C, t

\* A step of the program is a commit of AtomicPair or nothing that it sees.
LEMMA NextRefines ==
    ASSUME IInv, StallInv, [Next]_vars
    PROVE  [Abstract!Next]_(Abstract!abstractVars)
<1>1. CASE LoopTop
  BY <1>1, LoopTopStutters
<1>2. CASE LoopApply
  BY <1>2, LoopApplyStutters
<1>3. CASE LoopCall
  <2>1. call'.committed = call.committed
    <3>1. call.committed = <<>>
      BY <1>3 DEF LoopCall, IInv, CallInv, IdleCall
    <3>2. call'.committed = <<>>
      BY <1>3 DEF LoopCall, BatchCall, IdleCall
    <3> QED BY <3>1, <3>2
  <2> QED BY <1>3, <2>1, QuietStutters DEF LoopCall, BatchCall, timingVars, storeVars, traceVars
<1>4. CASE InBatch
  <2>1. PICK D, h : OnePerCpu(D, h) /\ BatchOf(Ops(D, h))
    BY <1>4 DEF InBatch, IInv, CallInv, OnePerCpu
  <2>2. CASE BatchEnqueue
    <3>1. UNCHANGED traceVars
      BY <2>1, <2>2, OneEnqueue
    <3>2. call'.committed = call.committed
      BY <2>1, <2>2, BatchEnqueueOf
    <3> QED BY <1>4, <2>2, <3>1, <3>2, QuietStutters
            DEF InBatch, BatchEnqueue, pairVars, timingVars, storeVars, traceVars
  <2>3. CASE BatchEnqueued \/ BatchReturn
    <3>1. call'.committed = call.committed
      BY <2>1, <2>3, BatchPhaseOf
    <3> QED BY <1>4, <2>3, <3>1, QuietStutters
            DEF InBatch, BatchEnqueued, BatchReturn, pairVars, timingVars, storeVars, traceVars
  <2>4. CASE BatchCommit
    BY <1>4, <2>4, CommitRefines
  <2> QED BY <1>4, <2>2, <2>3, <2>4 DEF InBatch
<1>5. CASE Terminated \/ UNCHANGED vars
  BY <1>5, QuietStutters
     DEF Terminated, vars, arbVars, pairVars, timingVars, storeVars, traceVars
<1> QED BY <1>1, <1>2, <1>3, <1>4, <1>5 DEF Next

\* For all well-formed scripts, every latency model without a zero and all devices:
\* run_scripted_pair commits exactly the operations, in exactly the order and with
\* exactly the timing, that AtomicPair prescribes.  Watermarks, batches and the
\* host's own order of the two CPUs leave no mark in the log.
THEOREM LoopImplementsAtomicPair ==
    ASSUME PositiveLatencies, WellFormedScripts
    PROVE  Spec => CommitsInAbstractOrder
<1>1. Init => IInv /\ StallInv
  BY InitIInv, InitStallInv
<1>2. IInv /\ StallInv /\ [Next]_vars => (IInv /\ StallInv)'
  BY NextIInv, NextStallInv
<1>3. IInv /\ StallInv /\ [Next]_vars => [Abstract!Next]_(Abstract!abstractVars)
  BY NextRefines
<1> QED BY <1>1, <1>2, <1>3, InitRefines, PTL DEF Spec, CommitsInAbstractOrder, Abstract!Spec

-----------------------------------------------------------------------------
(* The caches *)

\* RAM consists of whole cache lines
WholeLines == \A a \in RamAddr : LineBytes(a) \subseteq RamAddr

\* The other CPU has committed a store to byte a
OtherWrote(c, a) ==
    \E i \in 1..Len(trace) :
        /\ trace[i].op.cpu # c
        /\ trace[i].op.kind = "Write"
        /\ Covers(trace[i].op, a)

\* CPU c waits for a store to byte a that the arbiter has not executed
StoreAhead(c, a) ==
    /\ Has(p[c]) /\ Awaited(c).kind = "Write" /\ ResultsFor(c) = {}
    /\ a \in Touched(Awaited(c).addr, Awaited(c).size)

\* What the cache of CPU c should hold of byte a
Expected(c, a) ==
    IF StoreAhead(c, a) THEN ByteOf(Awaited(c).value, Awaited(c).size, a - Awaited(c).addr)
    ELSE memory[a]

\* A load through the cache
FillsLine(ins) == ins.kind = "Read" /\ ~Uncached(ins)

\* The line that a reply brings is that of memory, but for the other's stores
GoodLine(c, ins, line) ==
    /\ line # <<>>
    /\ line = [b \in BytesOf(LineBase(ins.addr)) |-> line[b]]
    /\ \A a \in RamAddr : a \in BytesOf(LineBase(ins.addr)) => line[a] = memory[a] \/ OtherWrote(c, a)

\* A resident byte is the expected one, but for the other's stores and those
\* that bypass the cache
GoodCache(c) ==
    /\ IsCache(cpu[c].cache)
    /\ \A a \in RamAddr :
          Resident(cpu[c].cache, a) =>
            \/ CachedByte(cpu[c].cache, a) = Expected(c, a)
            \/ BypassedCache(c, a)
            \/ OtherWrote(c, a)

CacheInv ==
    /\ memory = [a \in RamAddr |-> memory[a]]
    /\ \A c \in CpuIds :
          /\ WellFormed(cpu[c].script)
          /\ GoodCache(c)
          /\ \A k \in ResultsFor(c) :
                FillsLine(Awaited(c)) => GoodLine(c, Awaited(c), call.committed[k].response.line)

\* An access of a script.
LEMMA AccessType ==
    ASSUME NEW script \in Seq(ScriptOp), WellFormed(script), NEW i \in 1..Len(script),
           script[i].kind \in {"Read", "Write"}
    PROVE  script[i].addr \in Nat /\ script[i].size \in AccessSizes
<1>1. script[i] \in ScriptOp
  BY ElementType
<1> QED BY <1>1 DEF ScriptOp, WellFormed, valid_bus_size

\* New caches are empty.
LEMMA InitCacheInv == WellFormedScripts /\ Init => CacheInv
<1> SUFFICES ASSUME WellFormedScripts, Init PROVE CacheInv
  OBVIOUS
<1>1. PICK s \in Scripts : cpu = [c \in CpuIds |-> NewCpu(c, s[c + 1])]
  BY DEF Init
<1>2. memory = [a \in RamAddr |-> memory[a]]
  BY DEF Init, ArbInit, ArbInitWith
<1>3. Len(call.committed) = 0
  BY EmptyIsSeq DEF Init, ArbInit, ArbInitWith, IdleCall
<1>4. ASSUME NEW c \in CpuIds
      PROVE  WellFormed(cpu[c].script) /\ cpu[c].cache = NewCache /\ ResultsFor(c) = {}
  <2>1. cpu[c].script = s[c + 1] /\ cpu[c].cache = NewCache
    BY <1>1 DEF NewCpu
  <2> QED BY <1>3, <2>1 DEF WellFormedScripts, ResultsFor
<1>5. ASSUME NEW c \in CpuIds PROVE GoodCache(c)
  BY <1>4, NewCacheFacts, AddrAssumption DEF GoodCache
<1> QED BY <1>2, <1>4, <1>5 DEF CacheInv

\* What a CPU has bypassed stays bypassed, and a committed store stays committed.
LEMMA BypassStays ==
    ASSUME NEW c, NEW a, cpu'[c].script = cpu[c].script, cpu[c].pc \in Nat, cpu'[c].pc \in Nat,
           cpu[c].pc <= cpu'[c].pc, BypassedCache(c, a)
    PROVE  BypassedCache(c, a)'
<1>1. PICK i \in 1..(cpu[c].pc - 1) :
        /\ cpu[c].script[i].kind = "Write" /\ Covers(cpu[c].script[i], a)
        /\ cpu[c].script[i].alias \/ CrossesLine(cpu[c].script[i].addr, cpu[c].script[i].size)
  BY DEF BypassedCache
<1>2. i \in 1..(cpu'[c].pc - 1)
  BY <1>1
<1> QED BY <1>1, <1>2 DEF BypassedCache, Covers

LEMMA WroteStays ==
    ASSUME NEW c, NEW a, OtherWrote(c, a),
           trace' = trace \/ (IsSeq(trace) /\ \E line : trace' = Append(trace, line))
    PROVE  OtherWrote(c, a)'
<1>1. Len(trace) \in Nat \/ trace' = trace
  BY AppendAny
<1>2. \A i \in 1..Len(trace) : i \in 1..Len(trace') /\ trace'[i] = trace[i]
  <2>1. CASE trace' = trace
    BY <2>1
  <2>2. CASE trace' # trace
    <3>1. PICK line : trace' = Append(trace, line) /\ IsSeq(trace)
      BY <2>2
    <3> QED BY <3>1, AppendAny
  <2> QED BY <2>1, <2>2
<1> QED BY <1>2 DEF OtherWrote, Covers

\* What a store does to the CPU's own cache when it is issued.
LEMMA StoreIntoCache ==
    ASSUME WholeLines, NEW h, IsCache(h), NEW ins, ins.addr \in Nat, ins.size \in AccessSizes,
           NEW w, w = IF Uncached(ins) THEN h ELSE CacheWrite(h, ins.addr, ins.size, ins.value)
    PROVE  /\ IsCache(w)
           /\ \A a \in RamAddr : Resident(w, a) =>
                /\ Resident(h, a)
                /\ a \notin Touched(ins.addr, ins.size) => CachedByte(w, a) = CachedByte(h, a)
                /\ a \in Touched(ins.addr, ins.size) =>
                     \/ ins.alias \/ CrossesLine(ins.addr, ins.size)
                     \/ CachedByte(w, a) = ByteOf(ins.value, ins.size, a - ins.addr)
<1>0. RamAddr \subseteq Nat
  BY AddrAssumption
<1>1. CASE ~Uncached(ins)
  <2>1. w = CacheWrite(h, ins.addr, ins.size, ins.value)
    BY <1>1
  <2>2. /\ IsCache(w)
        /\ \A a \in Nat : Resident(w, a) <=> Resident(h, a)
        /\ \A a \in Nat : Resident(h, a) =>
             CachedByte(w, a) =
               (IF a \in Touched(ins.addr, ins.size) /\ ~CrossesLine(ins.addr, ins.size)
                  THEN ByteOf(ins.value, ins.size, a - ins.addr) ELSE CachedByte(h, a))
    BY <2>1, CacheWriteFacts
  <2> QED BY <1>0, <2>2
<1>2. CASE Uncached(ins)
  <2>1. ASSUME NEW a \in RamAddr, a \in Touched(ins.addr, ins.size), ~ins.alias,
               ~CrossesLine(ins.addr, ins.size)
        PROVE  FALSE
    <3>1. LineBase(a) = LineBase(ins.addr) /\ a \in Nat
      BY <2>1, OneLine
    <3>2. ins.addr \in LineBytes(a)
      BY <3>1, LineOfByte
    <3>3. ins.addr \in RamAddr
      BY <2>1, <3>2 DEF WholeLines
    <3> QED BY <1>2, <2>1, <3>3, AddrAssumption DEF Uncached, is_mmio
  <2> QED BY <1>2, <2>1
<1> QED BY <1>1, <1>2

\* The top of the loop.
LEMMA LoopTopCaches ==
    ASSUME IInv, CacheInv, WholeLines, LoopTop
    PROVE  CacheInv'
<1>1. /\ loop = "top" /\ UNCHANGED <<memory, trace, call>>
      /\ \A c \in CpuIds : cpu'[c] = Produced(c).cpu /\ p'[c] = Produced(c).op
  BY DEF LoopTop, CpuIds, storeVars, traceVars
<1>2. \A c \in CpuIds : ResultsFor(c) = {} /\ ResultsFor(c)' = {}
  BY <1>1, EmptyIsSeq DEF IInv, CallInv, ResultsFor, IdleCall
<1>3. ASSUME NEW c \in CpuIds PROVE GoodCache(c)'
  <2> DEFINE k == cpu[c]
             script == cpu[c].script
             q == Produced(c)
  <2>1. /\ script \in Seq(ScriptOp) /\ IsCpu(k, c, script) /\ WellFormed(script)
        /\ IsCache(k.cache)
    BY DEF IInv, CpuInv, CacheInv, GoodCache
  <2>2. TopOK(q, c, script)
    BY ProducedFacts
  <2>3. /\ cpu'[c].script = cpu[c].script /\ cpu[c].pc \in Nat /\ cpu'[c].pc \in Nat
        /\ cpu[c].pc <= cpu'[c].pc
    BY <1>1, <2>1, <2>2 DEF TopOK, IsCpu
  <2>4. \A a : BypassedCache(c, a) => BypassedCache(c, a)'
    BY <2>3, BypassStays
  <2>5. \A a : OtherWrote(c, a) => OtherWrote(c, a)'
    BY <1>1, WroteStays
  <2>6. CASE Has(p[c])
    <3>1. cpu'[c] = cpu[c] /\ p'[c] = p[c]
      BY <1>1, <2>6 DEF Produced
    <3>2. \A a : Expected(c, a)' = Expected(c, a)
      BY <1>1, <1>2, <3>1 DEF Expected, StoreAhead, Awaited
    <3> QED BY <2>4, <2>5, <3>1, <3>2 DEF CacheInv, GoodCache
  <2>7. CASE ~Has(p[c])
    <3>1. \A a : Expected(c, a) = memory[a]
      BY <2>7 DEF Expected, StoreAhead
    <3>2. q = produce(k)
      BY <2>7 DEF Produced
    <3>3. cpu'[c] = q.cpu /\ p'[c] = q.op
      BY <1>1
    <3> HIDE DEF q
    <3>4. Produces(k, q, c, script)
      BY <2>1, <3>2, ProduceFacts
    <3>5. \A a \in RamAddr : Resident(k.cache, a) =>
             CachedByte(k.cache, a) = memory[a] \/ BypassedCache(c, a) \/ OtherWrote(c, a)
      BY <3>1 DEF CacheInv, GoodCache
    <3> DEFINE ins == script[q.op.index]
               w == q.cpu.cache
    <3>6. CASE ~(Has(q.op) /\ ins.kind = "Write")
      <4>1. w = k.cache
        BY <3>4, <3>6, Zenon DEF Produces
      <4>2. \A a : Expected(c, a)' = memory[a]
        BY <1>1, <2>3, <3>3, <3>6 DEF Expected, StoreAhead, Awaited
      <4> QED BY <2>1, <2>4, <2>5, <3>3, <3>5, <4>1, <4>2 DEF GoodCache
    <3>7. CASE Has(q.op) /\ ins.kind = "Write"
      <4>1. /\ q.op.index \in 1..Len(script) /\ q.cpu.pc = q.op.index + 1
            /\ w = IF Uncached(ins) THEN k.cache
                   ELSE CacheWrite(k.cache, ins.addr, ins.size, ins.value)
        BY <3>4, <3>7, Zenon DEF Produces
      <4>2. ins.addr \in Nat /\ ins.size \in AccessSizes
        BY <2>1, <3>7, <4>1, AccessType
      <4>3. \A a : /\ a \in Touched(ins.addr, ins.size) =>
                        Expected(c, a)' = ByteOf(ins.value, ins.size, a - ins.addr)
                   /\ a \notin Touched(ins.addr, ins.size) => Expected(c, a)' = memory[a]
        BY <1>1, <1>2, <2>3, <3>3, <3>7 DEF Expected, StoreAhead, Awaited
      <4>4. ASSUME NEW a, a \in Touched(ins.addr, ins.size),
                   ins.alias \/ CrossesLine(ins.addr, ins.size)
            PROVE  BypassedCache(c, a)'
        <5>1. q.op.index \in 1..(cpu'[c].pc - 1) /\ ins = cpu'[c].script[q.op.index]
          BY <2>3, <3>3, <4>1
        <5>2. Covers(ins, a)
          BY <4>4 DEF Covers, Touched
        <5> QED BY <3>7, <4>4, <5>1, <5>2 DEF BypassedCache, Covers
      <4> HIDE DEF ins
      <4>5. /\ IsCache(w)
            /\ \A a \in RamAddr : Resident(w, a) =>
                 /\ Resident(k.cache, a)
                 /\ a \notin Touched(ins.addr, ins.size) =>
                      CachedByte(w, a) = CachedByte(k.cache, a)
                 /\ a \in Touched(ins.addr, ins.size) =>
                      \/ ins.alias \/ CrossesLine(ins.addr, ins.size)
                      \/ CachedByte(w, a) = ByteOf(ins.value, ins.size, a - ins.addr)
        <5> HIDE DEF w, k
        <5> QED BY <2>1, <4>1, <4>2, StoreIntoCache
      <4>6. cpu'[c].cache = w
        BY <3>3
      <4> HIDE DEF w
      <4> QED BY <2>4, <2>5, <3>5, <4>3, <4>4, <4>5, <4>6 DEF GoodCache
    <3> QED BY <3>6, <3>7
  <2> QED BY <2>6, <2>7
<1>4. \A c \in CpuIds : WellFormed(cpu'[c].script)
  BY <1>1, ProducedFacts DEF CacheInv, TopOK, IsCpu
<1> QED BY <1>1, <1>2, <1>3, <1>4 DEF CacheInv

\* A step that leaves the CPUs, memory and the results alone.
LEMMA QuietCaches ==
    ASSUME CacheInv, UNCHANGED <<cpu, p, memory, trace>>,
           \A c \in CpuIds : ResultsFor(c)' = ResultsFor(c),
           \A c \in CpuIds : \A k \in ResultsFor(c) : call'.committed[k] = call.committed[k]
    PROVE  CacheInv'
<1>1. ASSUME NEW c \in CpuIds
      PROVE  /\ Awaited(c)' = Awaited(c)
             /\ \A a : /\ Expected(c, a)' = Expected(c, a)
                       /\ BypassedCache(c, a) => BypassedCache(c, a)'
                       /\ OtherWrote(c, a) => OtherWrote(c, a)'
  BY DEF Awaited, Expected, StoreAhead, BypassedCache, OtherWrote, Covers
<1>2. ASSUME NEW c \in CpuIds PROVE GoodCache(c)'
  BY <1>1 DEF CacheInv, GoodCache
<1>3. ASSUME NEW c \in CpuIds, NEW k \in ResultsFor(c)', FillsLine(Awaited(c)')
      PROVE  GoodLine(c, Awaited(c), call.committed[k].response.line)'
  <2>1. k \in ResultsFor(c) /\ call'.committed[k] = call.committed[k]
    BY <1>3
  <2>2. GoodLine(c, Awaited(c), call.committed[k].response.line)
    BY <1>1, <1>3, <2>1 DEF CacheInv
  <2> QED BY <1>1, <2>1, <2>2 DEF GoodLine
<1> QED BY <1>2, <1>3 DEF CacheInv, FillsLine

\* commit_batch starts without results.
LEMMA LoopCallCaches == IInv /\ CacheInv /\ LoopCall => CacheInv'
<1> SUFFICES ASSUME IInv, CacheInv, LoopCall PROVE CacheInv'
  OBVIOUS
<1>1. UNCHANGED <<cpu, p, memory, trace>>
  BY DEF LoopCall, BatchCall, storeVars, traceVars
<1>2. Len(call.committed) = 0 /\ Len(call'.committed) = 0
  BY EmptyIsSeq DEF LoopCall, BatchCall, IInv, CallInv, IdleCall
<1>3. \A c \in CpuIds : ResultsFor(c) = {} /\ ResultsFor(c)' = {}
  BY <1>2 DEF ResultsFor
<1> QED BY <1>1, <1>3, QuietCaches

\* CPU c's own operation is executed: a store lands, a load gets its line.
LEMMA OwnCommit ==
    ASSUME IInv, CacheInv, WholeLines, NEW c \in Waiting, Effect(p[c].op), ~Rejected(p[c].op),
           NEW tie
    PROVE  /\ memory' = [a \in RamAddr |-> memory'[a]]
           /\ \A a \in RamAddr :
                \/ memory'[a] = memory[a]
                \/ p[c].op.kind = "Write" /\ Covers(p[c].op, a)
           /\ \A a \in RamAddr :
                \/ memory'[a] = (IF Awaited(c).kind = "Write"
                                    /\ a \in Touched(Awaited(c).addr, Awaited(c).size)
                                   THEN ByteOf(Awaited(c).value, Awaited(c).size, a - Awaited(c).addr)
                                   ELSE memory[a])
                \/ BypassedCache(c, a)
           /\ FillsLine(Awaited(c)) =>
                /\ memory' = memory
                /\ GoodLine(c, Awaited(c), Response(p[c].op, tie).line)
<1> DEFINE op == p[c].op
           ins == Awaited(c)
<1>1. /\ c \in CpuIds /\ Has(p[c]) /\ p[c].index \in 1..Len(cpu[c].script)
      /\ cpu[c].pc = p[c].index + 1 /\ IsOpFor(op, c, ins, cpu[c].local_time)
      /\ cpu[c].script \in Seq(ScriptOp) /\ WellFormed(cpu[c].script)
      /\ ins = cpu[c].script[p[c].index]
  BY DEF Waiting, IInv, PendingInv, CpuInv, CacheInv, Awaited
<1>2. ins.kind \in {"Read", "Write"} => ins.addr \in Nat /\ ins.size \in AccessSizes
  BY <1>1, AccessType
<1>3. memory = [a \in RamAddr |-> memory[a]] /\ RamAddr \subseteq Nat
  BY AddrAssumption DEF CacheInv
<1> HIDE DEF ins, op
<1>4. CASE ins.kind = "Write" /\ ~is_mmio(ins.addr)
  <2>1. /\ op.kind = "Write" /\ op.addr = ins.addr /\ op.size = ins.size /\ op.data = ins.value
        /\ ~ToDevice(op) /\ IsWrite(op)
    BY <1>1, <1>4 DEF IsOpFor, ToDevice, IsWrite
  <2>2. memory' = write(memory, ins.addr, ins.size, ins.value)
    BY <2>1 DEF Effect, op
  <2>3. PICK m, w : m = memory /\ w = memory'
    OBVIOUS
  <2>4. /\ w = [a \in RamAddr |-> w[a]]
        /\ \A a \in RamAddr :
             w[a] = IF a \in Touched(ins.addr, ins.size) /\ Touched(ins.addr, ins.size) \subseteq RamAddr
                      THEN ByteOf(ins.value, ins.size, a - ins.addr) ELSE m[a]
    BY <1>2, <1>3, <1>4, <2>2, <2>3, WriteFacts
  <2>5. ASSUME NEW a \in RamAddr, a \in Touched(ins.addr, ins.size)
        PROVE  Touched(ins.addr, ins.size) \subseteq RamAddr \/ BypassedCache(c, a)
    <3>1. CASE CrossesLine(ins.addr, ins.size)
      <4>1. p[c].index \in 1..(cpu[c].pc - 1)
        BY <1>1
      <4>2. Covers(ins, a)
        BY <2>5 DEF Covers, Touched
      <4> QED BY <1>1, <1>4, <3>1, <4>1, <4>2 DEF BypassedCache
    <3>2. CASE ~CrossesLine(ins.addr, ins.size)
      <4>1. /\ Touched(ins.addr, ins.size) \subseteq BytesOf(LineBase(ins.addr))
            /\ a \in Nat /\ LineBase(a) = LineBase(ins.addr)
        BY <1>2, <1>4, <2>5, <3>2, OneLine
      <4>2. LineBytes(a) = BytesOf(LineBase(a))
        BY <4>1, LineOfByte
      <4> QED BY <2>5, <4>1, <4>2 DEF WholeLines
    <3> QED BY <3>1, <3>2
  <2>6. \A a \in RamAddr : w[a] = m[a] \/ (op.kind = "Write" /\ Covers(op, a))
    BY <2>1, <2>4 DEF Covers, Touched
  <2>7. ~FillsLine(ins)
    BY <1>4 DEF FillsLine
  <2> QED BY <1>4, <2>3, <2>4, <2>5, <2>6, <2>7 DEF ins, op
<1>5. CASE ~(ins.kind = "Write" /\ ~is_mmio(ins.addr))
  <2>1. ~IsWrite(op) \/ ToDevice(op)
    BY <1>1, <1>5 DEF IsOpFor, ToDevice, IsWrite, BusKinds
  <2>2. memory' = memory
    BY <2>1 DEF Effect, op
  <2>3. ASSUME NEW a \in RamAddr, ins.kind = "Write", a \in Touched(ins.addr, ins.size)
        PROVE  BypassedCache(c, a)
    <3>1. CASE CrossesLine(ins.addr, ins.size)
      <4>1. p[c].index \in 1..(cpu[c].pc - 1)
        BY <1>1
      <4>2. Covers(ins, a)
        BY <2>3 DEF Covers, Touched
      <4> QED BY <1>1, <2>3, <3>1, <4>1, <4>2 DEF BypassedCache
    <3>2. CASE ~CrossesLine(ins.addr, ins.size)
      <4>1. a \in Nat /\ LineBase(a) = LineBase(ins.addr)
        BY <1>2, <2>3, <3>2, OneLine
      <4>2. ins.addr \in LineBytes(a)
        BY <1>2, <2>3, <4>1, LineOfByte
      <4>3. ins.addr \in RamAddr
        BY <2>3, <4>2 DEF WholeLines
      <4> QED BY <1>5, <2>3, <4>3, AddrAssumption DEF is_mmio
    <3> QED BY <3>1, <3>2
  <2>4. ASSUME FillsLine(ins) PROVE GoodLine(c, ins, Response(op, tie).line)
    <3>1. ins.kind = "Read" /\ ~is_mmio(ins.addr) /\ ~Uncached(ins) /\ LineSize \in Nat \ {0}
      BY <2>4, CacheAssumption DEF FillsLine, Uncached
    <3>2. op.kind = "Read" /\ op.addr = ins.addr /\ op.fill = LineSize /\ ~ToDevice(op)
      BY <1>1, <3>1 DEF IsOpFor, ToDevice
    <3> DEFINE line == LineData(ins.addr, LineSize)
               t == LineBase(ins.addr)
    <3>3. Response(op, tie).line = line
      <4> DEFINE value == ValueOf(op)
                 stall == Finish(op, tie) - op.req
                 data == IF op.kind \in {"Read", "IFetch"} /\ ~ToDevice(op) /\ op.fill > 0
                           THEN LineData(op.addr, op.fill) ELSE <<>>
      <4>1. Response(op, tie) = [value |-> value, stall |-> stall, line |-> data]
        BY DEF Response, op
      <4>2. data = line
        BY <3>1, <3>2
      <4> HIDE DEF value, stall, data, line
      <4> QED BY <4>1, <4>2
    <3> HIDE DEF line, t
    <3>4. /\ line = [b \in BytesOf(t) |-> line[b]] /\ line # <<>>
          /\ BytesOf(t) \subseteq RamAddr => \A a \in BytesOf(t) : line[a] = memory[a]
      <4>1. ins.addr \in Nat /\ t = LineBase(ins.addr) /\ line = LineData(ins.addr, LineSize)
        BY <1>2, <3>1 DEF line, t
      <4>2. LineFrom(memory, t, line)
        BY <1>3, <4>1, LineDataFacts
      <4> QED BY <4>2 DEF LineFrom
    <3>5. ASSUME NEW a \in RamAddr, a \in BytesOf(t) PROVE line[a] = memory[a]
      <4>1. t \in Nat
        BY <1>2, <3>1, LineOfByte DEF t
      <4>2. a \in Nat /\ t = LineBase(a) /\ LineBytes(a) = BytesOf(LineBase(a))
        BY <1>3, <3>5, <4>1, LineOfByte
      <4> QED BY <3>4, <3>5, <4>2 DEF WholeLines
    <3> QED BY <3>3, <3>4, <3>5 DEF GoodLine, t
  <2> QED BY <1>3, <1>5, <2>2, <2>3, <2>4 DEF ins, op
<1> QED BY <1>4, <1>5

\* An iteration of commit_batch executes the operation of one CPU.
LEMMA CommitCaches ==
    ASSUME IInv, CacheInv, WholeLines, loop = "commit", BatchCommit, UNCHANGED <<cpu, p>>
    PROVE  CacheInv'
<1>1. PICK d, w, e : CommitOf(d, w, e)
  BY CommitFacts
<1>2. PICK D, h : D = Waiting /\ h = WaitingOp /\ OnePerCpu(D, h)
  BY DEF IInv, CallInv
<1> DEFINE op == p[d].op
           n == Len(call.committed)
<1>3. /\ d \in Waiting /\ d \in CpuIds /\ op.kind \in Kinds /\ op.req \in Nat /\ op.cpu = d
      /\ execute_commit(op, HadTie(w)) /\ HadTie(w) \in BOOLEAN
      /\ e.op = op /\ e.response = Response(op, HadTie(w))
      /\ w \in 1..Len(call.pending) /\ call.pending[w].op = op /\ Serves(w, e)
      /\ call.phase = "commit"
  <2>1. d \in Waiting /\ d \in CpuIds /\ op.kind \in Kinds /\ op.req \in Nat
    BY <1>1, BatchedOp DEF CommitOf
  <2>2. op.cpu = d
    BY <2>1 DEF Waiting, IInv, PendingInv, IsOpFor
  <2>3. HadTie(w) \in BOOLEAN
    BY DEF HadTie
  <2> QED BY <1>1, <2>1, <2>2, <2>3 DEF CommitOf, Committable, BatchCommit
<1>4. /\ n \in Nat /\ Len(call'.committed) = n + 1
      /\ \A i \in 1..n : call'.committed[i] = call.committed[i]
      /\ call'.committed[n + 1] = e
  BY <1>2, <1>3, OneCommit
<1>5. ~Rejected(op)
  BY <1>3, NotRejected DEF CacheInv
<1>6. /\ Effect(op) /\ IsSeq(trace)
      /\ \E line : line.op = op /\ trace' = Append(trace, line)
  BY <1>3, <1>5, ExecuteFacts DEF IInv, ArbInv
<1>7. /\ ResultsFor(d) = {}
      /\ ResultsFor(d)' = {n + 1}
      /\ \A c \in CpuIds \ {d} : ResultsFor(c)' = ResultsFor(c)
  <2>1. \A i \in 1..n : call.committed[i].op.cpu # d
    BY <1>2, <1>3 DEF OnePerCpu, Answering
  <2>2. \A i \in 1..(n + 1) : i \in 1..n \/ i = n + 1
    BY <1>4
  <2>3. ResultsFor(d) = {}
    BY <2>1 DEF ResultsFor
  <2>4. ResultsFor(d)' = {n + 1}
    BY <1>3, <1>4, <2>1, <2>2, SMTT(40) DEF ResultsFor
  <2>5. ASSUME NEW c \in CpuIds \ {d} PROVE ResultsFor(c)' = ResultsFor(c)
    BY <1>3, <1>4, <2>2, <2>5, SMTT(40) DEF ResultsFor
  <2> QED BY <2>3, <2>4, <2>5
<1>8. /\ memory' = [a \in RamAddr |-> memory'[a]]
      /\ \A a \in RamAddr : memory'[a] = memory[a] \/ (op.kind = "Write" /\ Covers(op, a))
      /\ \A a \in RamAddr :
           \/ memory'[a] = (IF Awaited(d).kind = "Write"
                               /\ a \in Touched(Awaited(d).addr, Awaited(d).size)
                              THEN ByteOf(Awaited(d).value, Awaited(d).size, a - Awaited(d).addr)
                              ELSE memory[a])
           \/ BypassedCache(d, a)
      /\ FillsLine(Awaited(d)) =>
           memory' = memory /\ GoodLine(d, Awaited(d), Response(op, HadTie(w)).line)
  BY <1>3, <1>5, <1>6, OwnCommit
<1>9. \A c \in CpuIds : Awaited(c)' = Awaited(c)
  BY DEF Awaited
<1>10. \A c, a : OtherWrote(c, a) => OtherWrote(c, a)'
  BY <1>6, WroteStays
<1>11. \A c, a : BypassedCache(c, a) => BypassedCache(c, a)'
  BY DEF BypassedCache, Covers
<1>12. ASSUME NEW c \in CpuIds \ {d}, NEW a \in RamAddr
       PROVE  memory'[a] = memory[a] \/ OtherWrote(c, a)'
  <2> SUFFICES ASSUME op.kind = "Write", Covers(op, a) PROVE OtherWrote(c, a)'
    BY <1>8
  <2>1. PICK line : line.op = op /\ trace' = Append(trace, line)
    BY <1>6
  <2>2. /\ Len(trace) \in Nat /\ Len(trace') = Len(trace) + 1
        /\ trace'[Len(trace) + 1] = line
    BY <1>6, <2>1, AppendAny
  <2>3. Len(trace) + 1 \in 1..Len(trace') /\ trace'[Len(trace) + 1].op = op
    BY <2>1, <2>2
  <2> QED BY <1>3, <2>3 DEF OtherWrote, Covers
<1>13. ASSUME NEW c \in CpuIds \ {d} PROVE GoodCache(c)'
  <2>1. ASSUME NEW a \in RamAddr PROVE Expected(c, a)' = Expected(c, a) \/ OtherWrote(c, a)'
    <3>1. StoreAhead(c, a)' <=> StoreAhead(c, a)
      BY <1>7, <1>9 DEF StoreAhead
    <3> QED BY <1>9, <1>12, <3>1 DEF Expected
  <2> QED BY <1>10, <1>11, <2>1 DEF CacheInv, GoodCache
<1>14. GoodCache(d)'
  <2>1. ASSUME NEW a \in RamAddr PROVE Expected(d, a)' = Expected(d, a) \/ BypassedCache(d, a)
    <3>1. ~StoreAhead(d, a)'
      BY <1>7 DEF StoreAhead
    <3>2. Expected(d, a)' = memory'[a]
      BY <3>1 DEF Expected
    <3>3. Expected(d, a) = (IF Awaited(d).kind = "Write"
                               /\ a \in Touched(Awaited(d).addr, Awaited(d).size)
                              THEN ByteOf(Awaited(d).value, Awaited(d).size, a - Awaited(d).addr)
                              ELSE memory[a])
      BY <1>3, <1>7 DEF Expected, StoreAhead, Waiting
    <3> QED BY <1>8, <3>2, <3>3
  <2> QED BY <1>3, <1>10, <1>11, <2>1 DEF CacheInv, GoodCache
<1>15. ASSUME NEW c \in CpuIds, NEW k \in ResultsFor(c)', FillsLine(Awaited(c)')
       PROVE  GoodLine(c, Awaited(c), call.committed[k].response.line)'
  <2>1. CASE c = d
    <3>1. GoodLine(d, Awaited(d), e.response.line) /\ memory' = memory
      BY <1>3, <1>8, <1>9, <1>15, <2>1
    <3>2. call'.committed[k] = e
      BY <1>4, <1>7, <1>15, <2>1
    <3> QED BY <1>9, <1>10, <2>1, <3>1, <3>2 DEF GoodLine
  <2>2. CASE c # d
    <3>1. k \in ResultsFor(c) /\ k \in 1..n /\ call'.committed[k] = call.committed[k]
      BY <1>4, <1>7, <1>15, <2>2 DEF ResultsFor
    <3>2. GoodLine(c, Awaited(c), call.committed[k].response.line)
      BY <1>9, <1>15, <3>1 DEF CacheInv
    <3> QED BY <1>9, <1>10, <1>12, <2>2, <3>1, <3>2 DEF GoodLine
  <2> QED BY <2>1, <2>2
<1>16. \A c \in CpuIds : GoodCache(c)' /\ WellFormed(cpu'[c].script)
  BY <1>13, <1>14 DEF CacheInv
<1> QED BY <1>8, <1>15, <1>16 DEF CacheInv, FillsLine

\* A step of commit_batch.
LEMMA InBatchCaches == IInv /\ CacheInv /\ WholeLines /\ InBatch => CacheInv'
<1> SUFFICES ASSUME IInv, CacheInv, WholeLines, InBatch PROVE CacheInv'
  OBVIOUS
<1>1. /\ loop = "commit" /\ UNCHANGED <<cpu, p>>
      /\ BatchEnqueue \/ BatchEnqueued \/ BatchCommit \/ BatchReturn
  BY DEF InBatch, pairVars
<1>2. PICK D, h : OnePerCpu(D, h) /\ BatchOf(Ops(D, h)) /\ ~should_halt
  BY <1>1 DEF IInv, CallInv, OnePerCpu, ArbInv
<1>3. CASE BatchCommit
  BY <1>1, <1>3, CommitCaches
<1>4. CASE ~BatchCommit
  <2>1. call'.committed = call.committed
    BY <1>1, <1>2, <1>4, BatchEnqueueOf, BatchPhaseOf
  <2>2. UNCHANGED <<memory, trace>>
    <3>1. CASE BatchEnqueue
      <4>1. UNCHANGED traceVars
        BY <1>2, <3>1, OneEnqueue
      <4> QED BY <3>1, <4>1 DEF BatchEnqueue, storeVars, traceVars
    <3>2. CASE BatchEnqueued \/ BatchReturn
      BY <3>2 DEF BatchEnqueued, BatchReturn, storeVars, traceVars
    <3> QED BY <1>1, <1>4, <3>1, <3>2
  <2>3. \A c \in CpuIds : ResultsFor(c)' = ResultsFor(c)
    BY <2>1 DEF ResultsFor
  <2> QED BY <1>1, <2>1, <2>2, <2>3, QuietCaches
<1> QED BY <1>3, <1>4

\* The end of an iteration: lines are filled.
LEMMA LoopApplyCaches == IInv /\ CacheInv /\ LoopApply => CacheInv'
<1> SUFFICES ASSUME IInv, CacheInv, LoopApply PROVE CacheInv'
  OBVIOUS
<1>1. /\ loop = "commit" /\ call' = IdleCall /\ UNCHANGED <<memory, trace>>
      /\ \A c \in CpuIds : ResultsFor(c) # {} => cpu'[c] = Applied(c) /\ p'[c] = NoOp
      /\ \A c \in CpuIds : ResultsFor(c) = {} => cpu'[c] = cpu[c] /\ p'[c] = p[c]
  BY DEF LoopApply, BatchFinish, storeVars, traceVars
<1>2. \A c \in CpuIds : ResultsFor(c)' = {}
  BY <1>1, EmptyIsSeq DEF ResultsFor, IdleCall
<1>3. ASSUME NEW c \in CpuIds PROVE GoodCache(c)' /\ WellFormed(cpu'[c].script)
  <2>0. \A a : OtherWrote(c, a) => OtherWrote(c, a)'
    BY <1>1, WroteStays
  <2>1. CASE ResultsFor(c) = {}
    <3>1. cpu'[c] = cpu[c] /\ p'[c] = p[c]
      BY <1>1, <2>1
    <3>2. \A a : Expected(c, a)' = Expected(c, a)
      BY <1>1, <1>2, <2>1, <3>1 DEF Expected, StoreAhead, Awaited
    <3>3. \A a : BypassedCache(c, a) => BypassedCache(c, a)'
      BY <3>1 DEF BypassedCache, Covers
    <3> QED BY <2>0, <3>1, <3>2, <3>3 DEF CacheInv, GoodCache
  <2>2. CASE ResultsFor(c) # {}
    <3>1. cpu'[c] = Applied(c) /\ ~Has(p'[c])
      BY <1>1, <2>2 DEF Has, NoOp
    <3>2. c \in Waiting
      BY <1>1, <2>2, AppliedFacts
    <3>3. PICK k \in 1..Len(call.committed) :
            /\ call.committed[k].op = p[c].op
            /\ IsCpu(Applied(c), c, cpu[c].script)
            /\ Replies(cpu[c], Applied(c), Awaited(c), call.committed[k].response, p[c].op.token)
      BY <1>1, <2>2, AppliedFacts
    <3>4. /\ Has(p[c]) /\ p[c].index \in 1..Len(cpu[c].script) /\ p[c].op.cpu = c
          /\ cpu[c].script \in Seq(ScriptOp) /\ WellFormed(cpu[c].script)
          /\ cpu[c].pc \in Nat /\ IsOpFor(p[c].op, c, Awaited(c), cpu[c].local_time)
      <4>1. /\ Has(p[c]) /\ p[c].index \in 1..Len(cpu[c].script)
            /\ cpu[c].script \in Seq(ScriptOp) /\ WellFormed(cpu[c].script)
            /\ IsCpu(cpu[c], c, cpu[c].script)
            /\ IsOpFor(p[c].op, c, Awaited(c), cpu[c].local_time)
        BY <3>2 DEF Waiting, IInv, PendingInv, CpuInv, CacheInv
      <4>2. cpu[c].pc \in Nat
        BY <4>1 DEF IsCpu
      <4>3. p[c].op.cpu = c
        BY <4>1 DEF IsOpFor
      <4> QED BY <4>1, <4>2, <4>3
    <3>5. k \in ResultsFor(c)
      BY <3>3, <3>4 DEF ResultsFor
    <3>6. cpu'[c].script = cpu[c].script /\ cpu'[c].pc = cpu[c].pc
      BY <3>1, <3>3 DEF IsCpu, Replies
    <3>7. \A a : BypassedCache(c, a) => BypassedCache(c, a)'
      BY <3>6 DEF BypassedCache, Covers
    <3>8. \A a : Expected(c, a)' = memory[a] /\ Expected(c, a) = memory[a]
      BY <1>1, <2>2, <3>1 DEF Expected, StoreAhead
    <3>9. /\ IsCache(cpu[c].cache)
          /\ \A a \in RamAddr : Resident(cpu[c].cache, a) =>
               CachedByte(cpu[c].cache, a) = memory[a] \/ BypassedCache(c, a) \/ OtherWrote(c, a)
      BY <3>8 DEF CacheInv, GoodCache
    <3> DEFINE ins == Awaited(c)
               line == call.committed[k].response.line
               w == cpu'[c].cache
               v == cpu[c].cache
    <3>10. CASE ~FillsLine(ins)
      <4>1. w = v
        BY <3>1, <3>3, <3>10 DEF FillsLine, Replies
      <4> QED BY <2>0, <3>4, <3>6, <3>7, <3>8, <3>9, <4>1 DEF GoodCache
    <3>11. CASE FillsLine(ins)
      <4> DEFINE t == LineBase(ins.addr)
      <4>1. GoodLine(c, ins, line)
        BY <3>5, <3>11 DEF CacheInv
      <4>2. w = fill_line(v, t, line)
        BY <3>1, <3>3, <3>11, <4>1 DEF FillsLine, Replies, GoodLine
      <4>3. ins.addr \in Nat
        BY <3>4, <3>11, AccessType DEF FillsLine, Awaited
      <4>4. t \in Nat /\ line = [b \in BytesOf(t) |-> line[b]]
        BY <4>1, <4>3, LineOfByte DEF GoodLine
      <4>5. \A a \in RamAddr : a \in BytesOf(t) => line[a] = memory[a] \/ OtherWrote(c, a)
        BY <4>1 DEF GoodLine
      <4>6. \A a \in RamAddr : a \in Nat /\ a \in BytesOf(LineBase(a))
        BY AddrAssumption, LineOfByte
      <4>7. cpu'[c].cache = w
        OBVIOUS
      <4> HIDE DEF t, line, w, v
      <4>8. /\ IsCache(w)
            /\ \A a \in Nat : Resident(w, a) =>
                 IF LineBase(a) = t THEN CachedByte(w, a) = line[a]
                 ELSE Resident(v, a) /\ CachedByte(w, a) = CachedByte(v, a)
        <5>1. IsCache(v)
          BY <3>9 DEF v
        <5> QED BY <4>2, <4>4, <5>1, FillFacts
      <4>9. \A a \in RamAddr : Resident(w, a) =>
              CachedByte(w, a) = memory[a] \/ BypassedCache(c, a) \/ OtherWrote(c, a)
        BY <3>9, <4>5, <4>6, <4>8 DEF v
      <4> QED BY <2>0, <3>4, <3>6, <3>7, <3>8, <4>7, <4>8, <4>9 DEF GoodCache
    <3> QED BY <3>10, <3>11
  <2> QED BY <2>1, <2>2
<1>4. memory' = [a \in RamAddr |-> memory'[a]]
  BY <1>1 DEF CacheInv
<1> QED BY <1>2, <1>3, <1>4 DEF CacheInv

\* Every step keeps it.
LEMMA NextCacheInv ==
    ASSUME WholeLines, IInv, CacheInv, [Next]_vars
    PROVE  CacheInv'
<1>1. CASE UNCHANGED vars
  <2>1. UNCHANGED <<cpu, p, memory, trace, call>>
    BY <1>1 DEF vars, arbVars, pairVars, storeVars, traceVars
  <2>2. \A c \in CpuIds : ResultsFor(c)' = ResultsFor(c)
    BY <2>1 DEF ResultsFor
  <2> QED BY <2>1, <2>2, QuietCaches
<1> QED BY <1>1, LoopTopCaches, LoopCallCaches, InBatchCaches, LoopApplyCaches DEF Next, Terminated

\* For all scripts of valid accesses on a RAM of whole lines, and all latencies,
\* devices, cache and line sizes: a CPU's own stores never make its cache differ
\* from memory, unless they bypass it.
THEOREM CachesSeeOwnStores ==
    ASSUME WellFormedScripts, WholeLines
    PROVE  Spec => []OwnStoresCoherent
<1>1. ASSUME CacheInv PROVE OwnStoresCoherent
  <2> SUFFICES ASSUME NEW c \in CpuIds, NEW a \in RamAddr, ~Has(p[c]), Resident(cpu[c].cache, a),
                      CacheRead(cpu[c].cache, a, 1) # memory[a]
               PROVE  BypassedCache(c, a) \/ OtherWrote(c, a)
    BY Zenon DEF OwnStoresCoherent, OtherWrote
  <2>1. CacheRead(cpu[c].cache, a, 1) = CachedByte(cpu[c].cache, a)
    BY DEF CacheRead, Assemble, CachedByte
  <2>2. Expected(c, a) = memory[a]
    BY DEF Expected, StoreAhead
  <2> QED BY <1>1, <2>1, <2>2 DEF CacheInv, GoodCache
<1>2. Init => IInv /\ CacheInv
  BY InitIInv, InitCacheInv
<1>3. IInv /\ CacheInv /\ [Next]_vars => IInv' /\ CacheInv'
  BY NextIInv, NextCacheInv
<1> QED BY <1>1, <1>2, <1>3, PTL DEF Spec
=============================================================================
