-------------------------- MODULE ArbiterHostProofs --------------------------
(***************************************************************************)
(* Proofs about ArbiterHost for every set of operations, request times,    *)
(* watermarks, latencies and devices, and for behaviours of any length.    *)
(***************************************************************************)
EXTENDS ArbiterHost, HostProofs, FiniteSetTheorems

-----------------------------------------------------------------------------
(* Bytes and values *)

\* One more byte: a number below top, times ByteMod, plus a byte, is below
\* top times ByteMod.
LEMMA AppendByte ==
    ASSUME NEW top \in Nat, NEW x \in 0..(top - 1), NEW y \in Byte
    PROVE  x * ByteMod + y \in 0..(top * ByteMod - 1)
<1>1. ByteMod \in Nat /\ ByteMod > 0 /\ y \in Nat /\ y < ByteMod
  BY ByteModAssumption DEF Byte
<1>2. x \in Nat /\ x + 1 <= top
  OBVIOUS
<1>3. (x + 1) * ByteMod <= top * ByteMod
  BY <1>1, <1>2
<1>4. (x + 1) * ByteMod = x * ByteMod + ByteMod
  BY <1>1, <1>2
<1>5. x * ByteMod \in Nat /\ top * ByteMod \in Nat
  BY <1>1, <1>2
<1> QED
  BY <1>1, <1>3, <1>4, <1>5

\* What CommittedMemory::read assembles from bytes fits a 32-bit value.
LEMMA AssembleType ==
    ASSUME NEW S \in SUBSET Nat, NEW f \in [S -> Byte], NEW a \in Nat, NEW size \in AccessSizes,
           a..(a + size - 1) \subseteq S
    PROVE  Assemble(f, a, size) \in Value
<1> DEFINE B2 == ByteMod * ByteMod
           B3 == B2 * ByteMod
           B4 == B3 * ByteMod
<1>1. ByteMod \in Nat /\ ByteMod >= 2
  BY ByteModAssumption
<1>2. B2 \in Nat /\ ByteMod <= B2
  BY <1>1
<1>3. B3 \in Nat /\ B2 <= B3
  <2> HIDE DEF B2
  <2> QED BY <1>1, <1>2
<1>4. B4 \in Nat /\ B3 <= B4
  <2> HIDE DEF B3
  <2> QED BY <1>1, <1>3
<1>5. Value = 0..(B4 - 1)
  BY DEF Value
<1>6. \A x \in Byte : x \in 0..(ByteMod - 1)
  BY DEF Byte
<1>7. CASE size = 1
  <2>1. a \in S
    BY <1>7
  <2>2. Assemble(f, a, size) = f[a] /\ f[a] \in 0..(ByteMod - 1)
    BY <1>6, <1>7, <2>1 DEF Assemble
  <2> HIDE DEF B2, B3, B4
  <2> QED BY <1>1, <1>2, <1>3, <1>4, <1>5, <2>2
<1>8. CASE size = 2
  <2>1. a \in S /\ a + 1 \in S
    BY <1>8
  <2>2. Assemble(f, a, size) = f[a] * ByteMod + f[a + 1]
    BY <1>8 DEF Assemble
  <2>3. f[a] * ByteMod + f[a + 1] \in 0..(B2 - 1)
    BY <1>1, <1>6, <2>1, AppendByte
  <2> HIDE DEF B2, B3, B4
  <2> QED BY <1>1, <1>2, <1>3, <1>4, <1>5, <2>2, <2>3
<1>9. CASE size = 4
  <2>1. a \in S /\ a + 1 \in S /\ a + 2 \in S /\ a + 3 \in S
    BY <1>9
  <2> DEFINE x2 == f[a] * ByteMod + f[a + 1]
             x3 == x2 * ByteMod + f[a + 2]
  <2>2. Assemble(f, a, size) = x3 * ByteMod + f[a + 3]
    BY <1>9 DEF Assemble
  <2>3. x2 \in 0..(B2 - 1)
    BY <1>1, <1>6, <2>1, AppendByte
  <2>4. x3 \in 0..(B3 - 1)
    <3> HIDE DEF x2, B2
    <3> QED BY <1>2, <2>1, <2>3, AppendByte
  <2>5. x3 * ByteMod + f[a + 3] \in 0..(B4 - 1)
    <3> HIDE DEF x3, B3
    <3> QED BY <1>3, <2>1, <2>4, AppendByte
  <2> HIDE DEF B2, B3, B4, x3
  <2> QED BY <1>5, <2>2, <2>5
<1> QED
  BY <1>7, <1>8, <1>9 DEF AccessSizes

\* CommittedMemory::read returns a 32-bit value, in range or not.
LEMMA ReadType ==
    ASSUME NEW S \in SUBSET Nat, NEW f \in [S -> Byte], NEW a \in Nat, NEW size \in AccessSizes
    PROVE  read(f, a, size) \in Value
<1>1. CASE access_in_range(f, a, size)
  <2>1. a..(a + size - 1) \subseteq S
    BY <1>1 DEF access_in_range
  <2>2. read(f, a, size) = Assemble(f, a, size)
    BY <1>1 DEF read
  <2> QED BY <2>1, <2>2, AssembleType
<1>2. CASE ~access_in_range(f, a, size)
  <2> DEFINE B3 == ByteMod * ByteMod * ByteMod
  <2>1. ByteMod \in Nat /\ ByteMod >= 2
    BY ByteModAssumption
  <2>2. ByteMod * ByteMod \in Nat /\ ByteMod * ByteMod >= 2
    BY <2>1
  <2>3. B3 \in Nat /\ B3 >= 2
    BY <2>1, <2>2
  <2>4. B3 * ByteMod \in Nat /\ B3 * ByteMod >= 2
    <3> HIDE DEF B3
    <3> QED BY <2>1, <2>3
  <2>5. 0 \in Value
    BY <2>4 DEF Value
  <2> QED BY <1>2, <2>5 DEF read
<1> QED
  BY <1>1, <1>2

\* CommittedMemory::write keeps the memory a memory of bytes.
LEMMA WriteType ==
    ASSUME NEW S, NEW f \in [S -> Byte], NEW a, NEW size \in AccessSizes, NEW v \in Nat
    PROVE  write(f, a, size, v) \in [S -> Byte]
<1>1. ByteMod \in Nat /\ ByteMod >= 2
  BY ByteModAssumption
<1>2. \A x \in Nat : x \div ByteMod \in Nat
  BY <1>1
<1>3. \A k \in 0..3 : ShiftedBy(v, k) \in Nat
  BY <1>2 DEF ShiftedBy
<1>4. \A x \in Nat : x % ByteMod \in Byte
  BY <1>1 DEF Byte
<1>5. \A i \in 0..(size - 1) : ByteOf(v, size, i) \in Byte
  <2>1. \A i \in 0..(size - 1) : size - 1 - i \in 0..3
    BY DEF AccessSizes
  <2> QED BY <1>3, <1>4, <2>1 DEF ByteOf
<1>6. \A g \in [S -> Byte], b \in Byte : \A k : [g EXCEPT ![k] = b] \in [S -> Byte]
  OBVIOUS
<1>7. Overwrite(f, a, size, v) \in [S -> Byte]
  <2>1. CASE size = 1
    <3>1. ByteOf(v, 1, 0) \in Byte
      BY <1>5, <2>1
    <3>2. Overwrite(f, a, size, v) = [f EXCEPT ![a] = ByteOf(v, 1, 0)]
      BY <2>1 DEF Overwrite
    <3> QED BY <1>6, <3>1, <3>2
  <2>2. CASE size = 2
    <3> DEFINE g == [f EXCEPT ![a] = ByteOf(v, 2, 0)]
    <3>1. ByteOf(v, 2, 0) \in Byte /\ ByteOf(v, 2, 1) \in Byte
      BY <1>5, <2>2
    <3>2. g \in [S -> Byte]
      BY <1>6, <3>1
    <3>3. Overwrite(f, a, size, v) = [g EXCEPT ![a + 1] = ByteOf(v, 2, 1)]
      BY <2>2 DEF Overwrite
    <3> HIDE DEF g
    <3> QED BY <1>6, <3>1, <3>2, <3>3
  <2>3. CASE size = 4
    <3> DEFINE g0 == [f EXCEPT ![a] = ByteOf(v, 4, 0)]
               g1 == [g0 EXCEPT ![a + 1] = ByteOf(v, 4, 1)]
               g2 == [g1 EXCEPT ![a + 2] = ByteOf(v, 4, 2)]
    <3>1. /\ ByteOf(v, 4, 0) \in Byte /\ ByteOf(v, 4, 1) \in Byte
          /\ ByteOf(v, 4, 2) \in Byte /\ ByteOf(v, 4, 3) \in Byte
      BY <1>5, <2>3
    <3>2. Overwrite(f, a, size, v) = [g2 EXCEPT ![a + 3] = ByteOf(v, 4, 3)]
      BY <2>3 DEF Overwrite
    <3>3. g0 \in [S -> Byte]
      BY <1>6, <3>1
    <3>4. g1 \in [S -> Byte]
      <4> HIDE DEF g0
      <4> QED BY <1>6, <3>1, <3>3
    <3>5. g2 \in [S -> Byte]
      <4> HIDE DEF g1
      <4> QED BY <1>6, <3>1, <3>4
    <3> HIDE DEF g2
    <3> QED BY <1>6, <3>1, <3>2, <3>5
  <2> QED BY <2>1, <2>2, <2>3 DEF AccessSizes
<1> QED
  BY <1>7 DEF write

\* An operation that validate_bus_op accepts has an access size, or is a barrier.
LEMMA ValidSize ==
    ASSUME NEW op, ~Rejected(op), op.kind # "Barrier"
    PROVE  op.size \in AccessSizes
BY DEF Rejected, ValidBusOp, valid_bus_size

-----------------------------------------------------------------------------
(* The operators of the arbiter *)

\* Every latency that base_latency can return is a natural number.
LEMMA BaseLatencyType ==
    ASSUME NEW op \in BusOp
    PROVE  base_latency(op) \in Nat
<1>1. \A f \in LatencyFields : Latency[f] \in Nat
  BY LatencyAssumption
<1>2. op.kind \in Kinds
  BY DEF BusOp
<1> QED
  BY <1>1, <1>2 DEF base_latency, LatencyFields, Kinds

\* producer_slot indexes the three-element arrays of the arbiter.
LEMMA SlotType ==
    ASSUME NEW op \in BusOp
    PROVE  producer_slot(op) \in Slots
BY DEF producer_slot, Slots

\* An operation starts neither before its request nor while the bus is busy.
LEMMA StartBounds ==
    ASSUME TypeOK, NEW op \in BusOp
    PROVE  /\ Start(op) \in Nat
           /\ op.req <= Start(op)
           /\ bus_free_time <= Start(op)
<1>1. bus_free_time \in Nat /\ op.req \in Nat
  BY DEF TypeOK, BusOp
<1> QED
  BY <1>1 DEF Start

\* The contention penalties are natural numbers.
LEMMA ContentionType ==
    ASSUME NEW op \in BusOp, NEW had_tie \in BOOLEAN
    PROVE  contention_extra(op, had_tie) \in Nat
<1>1. \A f \in LatencyFields : Latency[f] \in Nat
  BY LatencyAssumption
<1> QED
  BY <1>1 DEF contention_extra, LatencyFields

\* An operation finishes no earlier than it starts.
LEMMA FinishBounds ==
    ASSUME TypeOK, NEW op \in BusOp, NEW had_tie \in BOOLEAN
    PROVE  /\ Finish(op, had_tie) \in Nat
           /\ Start(op) <= Finish(op, had_tie)
BY StartBounds, BaseLatencyType, ContentionType DEF Finish

\* What an executed operation returns is a data value.
LEMMA ValueOfType ==
    ASSUME TypeOK, NEW op \in HostOp, ~Rejected(op)
    PROVE  ValueOf(op) \in Value
<1>1. /\ op \in BusOp /\ op.addr \in Nat /\ op.data \in Value /\ op.kind \in Kinds
      /\ op.kind \in {"MmioRead", "MmioWrite"} => op.addr \in MmioAddr
  BY DEF HostOp, BusOp
<1>2. devices \in DevState /\ memory \in [RamAddr -> Byte]
  BY DEF TypeOK
<1>3. CASE op.kind = "Barrier" \/ IsWrite(op)
  BY <1>1, <1>3 DEF ValueOf
<1>4. CASE op.kind # "Barrier" /\ ~IsWrite(op)
  <2>1. op.size \in AccessSizes
    BY <1>4, ValidSize
  <2>2. read(memory, op.addr, op.size) \in Value
    BY <1>1, <1>2, <2>1, ReadType, AddrAssumption
  <2>3. ASSUME ToDevice(op) PROVE DevRead(devices, op.addr, op.size) \in Value
    BY <1>1, <1>2, <2>1, <2>3, DeviceAssumption DEF ToDevice, is_mmio
  <2> QED BY <1>4, <2>2, <2>3 DEF ValueOf
<1> QED
  BY <1>3, <1>4

\* The caller's operation, relabelled by commit_dma, is again an operation.
LEMMA DmaOpType ==
    ASSUME NEW op \in HostOp
    PROVE  [op EXCEPT !.cpu = DmaId, !.producer = "Dma"] \in HostOp
BY DEF HostOp, BusOp, DmaId, Producers

\* The operations made from the templates are operations.
LEMMA MakeOpType ==
    ASSUME TypeOK, NEW t \in Templates, NEW r \in ReqTimes
    PROVE  MakeOp(t, r, Len(emitted) + direct) \in HostOp
<1>1. /\ t \in Template /\ r \in Nat
      /\ t.kind \in {"MmioRead", "MmioWrite"} => t.addr \in MmioAddr
  BY HostAssumption
<1>2. Len(emitted) + direct \in Nat
  BY DEF TypeOK
<1> QED
  BY <1>1, <1>2 DEF MakeOp, Template, HostOp, BusOp

-----------------------------------------------------------------------------
(* Type correctness *)

\* A line that fault_response writes is a trace line, and the halt latch
\* stays a Boolean.
LEMMA FaultResponseType ==
    ASSUME TypeOK, NEW op \in BusOp, NEW reason \in Faults,
           fault_response(op, Start(op), reason)
    PROVE  /\ trace' \in Seq(Line)
           /\ halt_on_fault' \in BOOLEAN /\ should_halt' \in BOOLEAN
<1> DEFINE line == [start |-> Start(op), finish |-> Start(op), op |-> op, stall |-> 0,
                    value |-> kInvalidBusOpValue, fault |-> reason]
<1>1. line \in Line
  BY StartBounds DEF Line
<1>2. trace \in Seq(Line) /\ halt_on_fault \in BOOLEAN /\ should_halt \in BOOLEAN
  BY DEF TypeOK
<1>3. trace' = Append(trace, line)
  BY DEF fault_response
<1>4. trace' \in Seq(Line)
  BY <1>1, <1>2, <1>3
<1> QED
  BY <1>2, <1>4 DEF fault_response

\* The line that Grant writes is a trace line: in particular its stall, the
\* difference of two ticks in the code, is not negative.
LEMMA GrantLineType ==
    ASSUME TypeOK, NEW op \in HostOp, NEW had_tie \in BOOLEAN, ~Rejected(op), Grant(op, had_tie)
    PROVE  trace' \in Seq(Line)
<1> DEFINE line == [start |-> Start(op), finish |-> Finish(op, had_tie), op |-> op,
                    stall |-> Finish(op, had_tie) - op.req, value |-> ValueOf(op),
                    fault |-> "none"]
<1>1. op \in BusOp /\ op.req \in Nat
  BY DEF HostOp, BusOp
<1>2. Start(op) \in Nat /\ Finish(op, had_tie) \in Nat /\ Finish(op, had_tie) - op.req \in Nat
  BY <1>1, StartBounds, FinishBounds
<1>3. ValueOf(op) \in Value
  BY ValueOfType
<1>4. line \in Line
  BY <1>1, <1>2, <1>3 DEF Line
<1>5. trace' = Append(trace, line)
  BY DEF Grant, add_commit
<1>6. trace \in Seq(Line)
  BY DEF TypeOK
<1> QED
  BY <1>4, <1>5, <1>6

\* What an executed operation does to memory and the devices keeps their types.
LEMMA EffectType ==
    ASSUME TypeOK, NEW op \in HostOp, ~Rejected(op), Effect(op)
    PROVE  memory' \in [RamAddr -> Byte] /\ devices' \in DevState
<1>1. /\ op.data \in Value
      /\ op.kind \in {"MmioRead", "MmioWrite"} => op.addr \in MmioAddr
  BY DEF HostOp, BusOp
<1>2. memory \in [RamAddr -> Byte] /\ devices \in DevState
  BY DEF TypeOK
<1>3. ASSUME IsWrite(op) PROVE op.size \in AccessSizes
  BY <1>3, ValidSize DEF IsWrite
<1>4. memory' \in [RamAddr -> Byte]
  <2>1. op.data \in Nat
    BY <1>1 DEF Value
  <2>2. ASSUME IsWrite(op) PROVE write(memory, op.addr, op.size, op.data) \in [RamAddr -> Byte]
    BY <1>2, <1>3, <2>1, <2>2, WriteType
  <2> QED BY <1>2, <2>2 DEF Effect
<1>5. devices' \in DevState
  <2>1. ASSUME IsWrite(op), ToDevice(op)
        PROVE  DevWrite(devices, op.addr, op.size, op.data) \in DevState
    BY <1>1, <1>2, <1>3, <2>1, DeviceAssumption DEF ToDevice, is_mmio
  <2> QED BY <1>2, <2>1 DEF Effect
<1> QED
  BY <1>4, <1>5

\* execute_commit keeps the types of everything it writes.
LEMMA ExecuteType ==
    ASSUME TypeOK, NEW op \in HostOp, NEW had_tie \in BOOLEAN, execute_commit(op, had_tie)
    PROVE  /\ bus_free_time' \in Nat
           /\ last_grant_cpu' \in CpuIds
           /\ last_addr' \in Nat \cup {None}
           /\ producer_last_req_time' \in [Slots -> Nat \cup {None}]
           /\ memory' \in [RamAddr -> Byte]
           /\ devices' \in DevState
           /\ trace' \in Seq(Line)
           /\ halt_on_fault' \in BOOLEAN
           /\ should_halt' \in BOOLEAN
<1>1. op \in BusOp /\ op.req \in Nat /\ op.addr \in Nat
  BY DEF HostOp, BusOp
<1>2. CASE Rejected(op) /\ Reject(op)
  <2>1. RejectReason(op) \in Faults
    BY DEF RejectReason, Faults
  <2>2. trace' \in Seq(Line) /\ halt_on_fault' \in BOOLEAN /\ should_halt' \in BOOLEAN
    BY <1>1, <1>2, <2>1, FaultResponseType DEF Reject
  <2>3. UNCHANGED <<timingVars, storeVars>>
    BY <1>2 DEF Reject
  <2> QED
    BY <2>2, <2>3 DEF TypeOK, timingVars, storeVars
<1>3. CASE ~Rejected(op) /\ Grant(op, had_tie)
  <2>1. trace' \in Seq(Line)
    BY <1>3, GrantLineType
  <2>2. memory' \in [RamAddr -> Byte] /\ devices' \in DevState
    BY <1>3, EffectType DEF Grant
  <2>3. bus_free_time' \in Nat
    BY <1>1, <1>3, FinishBounds DEF Grant
  <2>4. last_grant_cpu' \in CpuIds /\ last_addr' \in Nat \cup {None}
    BY <1>1, <1>3 DEF Grant, TypeOK, is_cpu
  <2>5. producer_last_req_time' \in [Slots -> Nat \cup {None}]
    BY <1>1, <1>3 DEF Grant, TypeOK
  <2>6. halt_on_fault' \in BOOLEAN /\ should_halt' \in BOOLEAN
    BY <1>3 DEF Grant, add_commit, TypeOK
  <2> QED
    BY <2>1, <2>2, <2>3, <2>4, <2>5, <2>6
<1> QED
  BY <1>2, <1>3 DEF execute_commit

\* commit and, on the relabelled operation, commit_dma keep TypeOK's
\* conjuncts on the arbiter's state.
LEMMA CommitType ==
    ASSUME TypeOK, NEW op \in HostOp, commit(op), UNCHANGED hostVars \/
           (direct' = direct + 1 /\ UNCHANGED <<pending_ops, emitted, ties, keepVars>>)
    PROVE  TypeOK'
<1>1. op \in BusOp /\ op.req \in Nat
  BY DEF HostOp, BusOp
<1>2. /\ progress_tracking_enabled' \in BOOLEAN /\ progress_up_to' \in [CpuIds -> Nat]
      /\ call' = call
  BY DEF commit, progressVars, TypeOK
<1>3. /\ pending_ops' = pending_ops /\ emitted' = emitted /\ ties' = ties
      /\ scan' = scan /\ remaining' = remaining /\ direct' \in Nat
  BY DEF hostVars, keepVars, TypeOK
<1>4. CASE EnqueueOk(op)
  <2>1. producer_last_enqueued_req_time' \in [Slots -> Nat \cup {None}]
    BY <1>1, <1>4 DEF commit, TypeOK
  <2>2. execute_commit(op, FALSE)
    BY <1>4 DEF commit
  <2> QED
    BY <1>2, <1>3, <2>1, <2>2, ExecuteType DEF TypeOK
<1>5. CASE ~EnqueueOk(op)
  <2>1. /\ fault_response(op, Start(op), "ENQUEUE_NON_MONOTONIC_REQ_TIME")
        /\ UNCHANGED <<timingVars, storeVars, producer_last_enqueued_req_time>>
    BY <1>5 DEF commit
  <2>2. trace' \in Seq(Line) /\ halt_on_fault' \in BOOLEAN /\ should_halt' \in BOOLEAN
    BY <1>1, <2>1, FaultResponseType DEF Faults
  <2> QED
    BY <1>2, <1>3, <2>1, <2>2 DEF TypeOK, timingVars, storeVars
<1> QED
  BY <1>4, <1>5

\* One iteration of commit_batch's first loop keeps TypeOK.
LEMMA BatchEnqueueType ==
    ASSUME TypeOK, BatchEnqueue, UNCHANGED hostVars
    PROVE  TypeOK'
<1> DEFINE op == call.ops[call.next]
<1>1. op \in HostOp /\ op \in BusOp /\ op.req \in Nat /\ call.next \in Nat \ {0}
  BY DEF BatchEnqueue, TypeOK, HostOp, BusOp
<1>2. UNCHANGED <<timingVars, storeVars, progressVars, pending_ops, emitted, direct, ties, scan, remaining>>
  BY DEF BatchEnqueue, hostVars, keepVars
<1>3. CASE EnqueueOk(op)
  <2>1. /\ producer_last_enqueued_req_time' =
              [producer_last_enqueued_req_time EXCEPT ![producer_slot(op)] = op.req]
        /\ call' = [call EXCEPT !.next = @ + 1,
                                !.pending = Append(@, [index |-> call.next, op |-> op])]
        /\ UNCHANGED traceVars
    BY <1>3 DEF BatchEnqueue
  <2>2. producer_last_enqueued_req_time' \in [Slots -> Nat \cup {None}]
    BY <1>1, <2>1 DEF TypeOK
  <2>3. [index |-> call.next, op |-> op] \in [index : Nat, op : HostOp]
    BY <1>1
  <2>4. /\ DOMAIN call' = DOMAIN call
        /\ call'.phase = call.phase /\ call'.ops = call.ops
        /\ call'.next = call.next + 1
        /\ call'.pending = Append(call.pending, [index |-> call.next, op |-> op])
    BY <2>1 DEF TypeOK
  <2>5. call'.pending \in Seq([index : Nat, op : HostOp])
    BY <2>3, <2>4 DEF TypeOK
  <2>6. call'.next \in Nat \ {0}
    BY <1>1, <2>4
  <2> QED
    BY <1>2, <2>1, <2>2, <2>4, <2>5, <2>6
    DEF TypeOK, timingVars, storeVars, progressVars, traceVars
<1>4. CASE ~EnqueueOk(op)
  <2>1. /\ fault_response(op, Start(op), "ENQUEUE_NON_MONOTONIC_REQ_TIME")
        /\ call' = [call EXCEPT !.next = @ + 1]
        /\ UNCHANGED producer_last_enqueued_req_time
    BY <1>4 DEF BatchEnqueue
  <2>2. trace' \in Seq(Line) /\ halt_on_fault' \in BOOLEAN /\ should_halt' \in BOOLEAN
    BY <1>1, <2>1, FaultResponseType DEF Faults
  <2>3. /\ DOMAIN call' = DOMAIN call
        /\ call'.phase = call.phase /\ call'.ops = call.ops
        /\ call'.next = call.next + 1 /\ call'.pending = call.pending
    BY <2>1 DEF TypeOK
  <2>4. call'.next \in Nat \ {0}
    BY <1>1, <2>3
  <2> QED
    BY <1>2, <2>1, <2>2, <2>3, <2>4 DEF TypeOK, timingVars, storeVars, progressVars
<1> QED
  BY <1>3, <1>4

\* The elements of a sequence over S are members of S.
LEMMA SeqElement ==
    ASSUME NEW S, NEW s \in Seq(S), NEW i \in 1..Len(s)
    PROVE  s[i] \in S
OBVIOUS

\* Erasing an element of a sequence leaves a sequence over the same set.
LEMMA RemoveIndexType ==
    ASSUME NEW S, NEW s \in Seq(S), NEW i \in 1..Len(s)
    PROVE  RemoveIndex(s, i) \in Seq(S)
<1>1. Len(s) - 1 \in Nat
  OBVIOUS
<1>2. RemoveIndex(s, i) \in [1..(Len(s) - 1) -> S]
  BY DEF RemoveIndex
<1> QED
  BY <1>1, <1>2

\* One iteration of commit_batch's second loop keeps TypeOK.
LEMMA DrainCommitType ==
    ASSUME TypeOK, DrainCommit
    PROVE  TypeOK'
<1>1. PICK w \in Committable :
      /\ w = pick_next(PendingOps, Committable)
      /\ execute_commit(call.pending[w].op, HadTie(w))
      /\ call' = [call EXCEPT
            !.pending = RemoveIndex(@, w),
            !.committed = Append(@, [index |-> call.pending[w].index, op |-> call.pending[w].op,
                                     response |-> Response(call.pending[w].op, HadTie(w))])]
  BY DEF DrainCommit, BatchCommit
<1> DEFINE op == call.pending[w].op
<1>2. w \in 1..Len(call.pending)
  BY <1>1 DEF Committable
<1>3. op \in HostOp
  <2>1. call.pending \in Seq([index : Nat, op : HostOp])
    BY DEF TypeOK
  <2>2. call.pending[w] \in [index : Nat, op : HostOp]
    BY <1>2, <2>1, SeqElement
  <2> QED
    BY <2>2
<1>4. HadTie(w) \in BOOLEAN
  BY DEF HadTie
<1>5. /\ DOMAIN call' = DOMAIN call
      /\ call'.phase = call.phase /\ call'.ops = call.ops /\ call'.next = call.next
      /\ call'.pending = RemoveIndex(call.pending, w)
  BY <1>1 DEF TypeOK
<1>6. call'.pending \in Seq([index : Nat, op : HostOp])
  BY <1>2, <1>5, RemoveIndexType DEF TypeOK
<1>7. ties' \in Seq(CpuIds)
  <2>1. ASSUME CrossTie(w) PROVE op.cpu \in CpuIds
    BY <2>1 DEF CrossTie, is_cpu
  <2>2. ties' = IF CrossTie(w) /\ ~Rejected(op) THEN Append(ties, op.cpu) ELSE ties
    BY <1>1 DEF DrainCommit
  <2> QED
    BY <2>1, <2>2 DEF TypeOK
<1>8. UNCHANGED <<pending_ops, emitted, direct, scan, remaining,
                  progressVars, producer_last_enqueued_req_time>>
  BY DEF DrainCommit, BatchCommit, keepVars
<1>9. execute_commit(op, HadTie(w))
  BY <1>1
<1> HIDE DEF op
<1> QED
  BY <1>3, <1>4, <1>9, <1>5, <1>6, <1>7, <1>8, ExecuteType DEF TypeOK, progressVars

\* No step of the arbiter or of its callers leaves TypeOK.
LEMMA TypeStep ==
    ASSUME TypeOK, [Next]_vars
    PROVE  TypeOK'
<1>1. ASSUME NEW t \in Templates, NEW r \in ReqTimes, Emit(t, r)
      PROVE  TypeOK'
  <2> DEFINE op == MakeOp(t, r, Len(emitted) + direct)
  <2>1. op \in HostOp
    BY MakeOpType
  <2>2. /\ pending_ops' = Append(pending_ops, op) /\ emitted' = Append(emitted, op)
        /\ UNCHANGED <<arbVars, direct, ties, keepVars>>
    BY <1>1 DEF Emit
  <2> HIDE DEF op
  <2>3. pending_ops' \in Seq(HostOp) /\ emitted' \in Seq(HostOp)
    BY <2>1, <2>2 DEF TypeOK
  <2> QED
    BY <2>2, <2>3
    DEF TypeOK, arbVars, timingVars, storeVars, progressVars, traceVars, keepVars
<1>2. ASSUME NEW t \in Templates, NEW r \in ReqTimes, DirectCommit(t, r)
      PROVE  TypeOK'
  <2> DEFINE op == MakeOp(t, r, Len(emitted) + direct)
             dma == [op EXCEPT !.cpu = DmaId, !.producer = "Dma"]
  <2>1. op \in HostOp
    BY MakeOpType
  <2>2. dma \in HostOp
    BY <2>1, DmaOpType
  <2>3. /\ commit(op) \/ commit(dma)
        /\ direct' = direct + 1 /\ UNCHANGED <<pending_ops, emitted, ties, keepVars>>
    BY <1>2 DEF DirectCommit, commit_dma
  <2> HIDE DEF op, dma
  <2> QED
    BY <2>1, <2>2, <2>3, CommitType
<1>3. ASSUME NEW c \in CpuIds, NEW t \in Watermarks, Publish(c, t)
      PROVE  TypeOK'
  <2>1. t \in Nat
    BY HostAssumption
  <2>2. progress_up_to' = Advance(progress_up_to, c, t) /\ progress_tracking_enabled' = TRUE
    BY <1>3 DEF Publish, update_progress
  <2>3. progress_up_to' \in [CpuIds -> Nat]
    BY <2>1, <2>2 DEF Advance, TypeOK
  <2>4. UNCHANGED <<timingVars, storeVars, traceVars, producer_last_enqueued_req_time, call,
                    hostVars>>
    BY <1>3 DEF Publish, update_progress
  <2> QED
    BY <2>2, <2>3, <2>4 DEF TypeOK, timingVars, storeVars, traceVars, hostVars, keepVars
<1>4. CASE Drain
  <2>1. /\ call' = [IdleCall EXCEPT !.phase = "enqueue", !.ops = pending_ops]
        /\ producer_last_enqueued_req_time' = [s \in Slots |-> None]
        /\ UNCHANGED <<timingVars, storeVars, progressVars, traceVars, hostVars>>
    BY <1>4 DEF Drain, BatchCall
  <2>2. call' = [phase |-> "enqueue", ops |-> pending_ops, next |-> 1,
                 pending |-> <<>>, committed |-> <<>>]
    BY <2>1 DEF IdleCall
  <2>3. /\ DOMAIN call' = {"phase", "ops", "next", "pending", "committed"}
        /\ call'.phase = "enqueue" /\ call'.ops = pending_ops /\ call'.next = 1
        /\ call'.pending = <<>>
    BY <2>2
  <2>4. <<>> \in Seq([index : Nat, op : HostOp])
    OBVIOUS
  <2>5. producer_last_enqueued_req_time' \in [Slots -> Nat \cup {None}]
    BY <2>1
  <2>6. call'.phase \in {"idle", "enqueue", "commit", "return"}
    BY <2>3
  <2>7. call'.ops \in Seq(HostOp) /\ call'.next \in Nat \ {0}
    BY <2>3 DEF TypeOK
  <2>8. call'.pending \in Seq([index : Nat, op : HostOp])
    BY <2>3, <2>4
  <2> QED
    BY <2>1, <2>3, <2>5, <2>6, <2>7, <2>8
    DEF TypeOK, timingVars, storeVars, progressVars, traceVars, hostVars, keepVars
<1>5. CASE DrainEnqueue
  <2>1. CASE BatchEnqueue
    BY <1>5, <2>1, BatchEnqueueType DEF DrainEnqueue
  <2>2. CASE BatchEnqueued
    <3>1. /\ call' = [call EXCEPT !.phase = "commit"]
          /\ UNCHANGED <<timingVars, storeVars, progressVars, traceVars,
                         producer_last_enqueued_req_time, hostVars>>
      BY <1>5, <2>2 DEF DrainEnqueue, BatchEnqueued
    <3> QED
      BY <3>1 DEF TypeOK, timingVars, storeVars, progressVars, traceVars, hostVars, keepVars
  <2> QED
    BY <1>5, <2>1, <2>2 DEF DrainEnqueue
<1>6. CASE DrainCommit
  BY <1>6, DrainCommitType
<1>7. CASE DrainStop
  <2>1. /\ call' = [call EXCEPT !.phase = "return"]
        /\ UNCHANGED <<timingVars, storeVars, progressVars, traceVars,
                       producer_last_enqueued_req_time, hostVars>>
    BY <1>7 DEF DrainStop, BatchReturn
  <2> QED
    BY <2>1 DEF TypeOK, timingVars, storeVars, progressVars, traceVars, hostVars, keepVars
<1>8. CASE DrainKeep
  <2>1. pending_ops[scan] \in HostOp
    BY <1>8 DEF DrainKeep, TypeOK
  <2>2. scan' \in Nat \ {0} /\ remaining' \in Seq(HostOp)
    BY <1>8, <2>1 DEF DrainKeep, TypeOK
  <2>3. UNCHANGED <<arbVars, pending_ops, emitted, direct, ties>>
    BY <1>8 DEF DrainKeep
  <2> QED
    BY <2>2, <2>3 DEF TypeOK, arbVars, timingVars, storeVars, progressVars, traceVars
<1>9. CASE DrainFinish
  <2>1. /\ call' = IdleCall /\ pending_ops' = remaining /\ scan' = 1 /\ remaining' = <<>>
        /\ UNCHANGED <<timingVars, storeVars, progressVars, traceVars,
                       producer_last_enqueued_req_time, emitted, direct, ties>>
    BY <1>9 DEF DrainFinish, BatchFinish
  <2>2. <<>> \in Seq([index : Nat, op : HostOp])
    OBVIOUS
  <2> QED
    BY <2>1, <2>2 DEF TypeOK, IdleCall, timingVars, storeVars, progressVars, traceVars
<1>10. ASSUME NEW enabled \in BOOLEAN, SetHaltOnFault(enabled)
       PROVE  TypeOK'
  <2>1. /\ halt_on_fault' = enabled /\ should_halt' \in BOOLEAN
        /\ UNCHANGED <<timingVars, storeVars, progressVars, trace,
                       producer_last_enqueued_req_time, call, hostVars>>
    BY <1>10 DEF SetHaltOnFault, set_halt_on_fault, TypeOK
  <2> QED
    BY <2>1 DEF TypeOK, timingVars, storeVars, progressVars, hostVars, keepVars
<1>11. CASE UNCHANGED vars
  BY <1>11
  DEF vars, TypeOK, arbVars, timingVars, storeVars, progressVars, traceVars, hostVars, keepVars
<1> QED
  BY <1>1, <1>2, <1>3, <1>4, <1>5, <1>6, <1>7, <1>8, <1>9, <1>10, <1>11 DEF Next

\* The state of the arbiter and its callers keeps its types for ever,
\* whatever the callers pass; every stall the arbiter reports is non-negative.
THEOREM TypeCorrect == Spec => []TypeOK
<1>1. Init => TypeOK
  <2> SUFFICES ASSUME Init PROVE TypeOK
    OBVIOUS
  <2>1. <<>> \in Seq(Line) /\ <<>> \in Seq(HostOp) /\ <<>> \in Seq(CpuIds)
    OBVIOUS
  <2>2. <<>> \in Seq([index : Nat, op : HostOp])
    OBVIOUS
  <2>3. /\ DOMAIN call = {"phase", "ops", "next", "pending", "committed"}
        /\ call.phase = "idle" /\ call.ops = <<>> /\ call.next = 1 /\ call.pending = <<>>
    BY DEF Init, ArbInit, ArbInitWith, IdleCall
  <2>4. /\ call.phase \in {"idle", "enqueue", "commit", "return"}
        /\ call.ops \in Seq(HostOp) /\ call.next \in Nat \ {0}
        /\ call.pending \in Seq([index : Nat, op : HostOp])
    BY <2>1, <2>2, <2>3
  <2>5. /\ producer_last_req_time \in [Slots -> Nat \cup {None}]
        /\ producer_last_enqueued_req_time \in [Slots -> Nat \cup {None}]
    BY DEF Init, ArbInit, ArbInitWith
  <2>6. progress_up_to \in [CpuIds -> Nat]
    BY TickMaxAssumption DEF Init, ArbInit, ArbInitWith
  <2>7. memory \in [RamAddr -> Byte] /\ devices \in DevState
    BY ByteModAssumption, DeviceAssumption DEF Init, ArbInit, ArbInitWith, Byte
  <2>8. /\ bus_free_time \in Nat /\ last_grant_cpu \in CpuIds /\ last_addr \in Nat \cup {None}
        /\ progress_tracking_enabled \in BOOLEAN /\ halt_on_fault \in BOOLEAN
        /\ should_halt \in BOOLEAN
    BY DEF Init, ArbInit, ArbInitWith, CpuIds
  <2>9. /\ trace \in Seq(Line) /\ pending_ops \in Seq(HostOp) /\ emitted \in Seq(HostOp)
        /\ direct \in Nat /\ ties \in Seq(CpuIds) /\ scan \in Nat \ {0}
        /\ remaining \in Seq(HostOp)
    BY <2>1 DEF Init, ArbInit, ArbInitWith
  <2> QED
    BY <2>3, <2>4, <2>5, <2>6, <2>7, <2>8, <2>9 DEF TypeOK
<1>2. TypeOK /\ [Next]_vars => TypeOK'
  BY TypeStep
<1> QED
  BY <1>1, <1>2, PTL DEF Spec

-----------------------------------------------------------------------------
(* What a step can do to the bus.  Every step either leaves the bus,       *)
(* memory, the devices and the trace alone, or records a fault, or executes *)
(* one operation; the last two only while no halt is requested.            *)

NoBusStep == UNCHANGED <<timingVars, storeVars, trace>>

FaultStep ==
    /\ ~should_halt
    /\ \E op \in BusOp, reason \in Faults : fault_response(op, Start(op), reason)
    /\ UNCHANGED <<timingVars, storeVars>>

GrantStep ==
    /\ ~should_halt
    /\ \E op \in HostOp, had_tie \in BOOLEAN : ~Rejected(op) /\ Grant(op, had_tie)

\* execute_commit either faults or executes.
LEMMA ExecuteCases ==
    ASSUME NEW op \in HostOp, NEW had_tie \in BOOLEAN, ~should_halt, execute_commit(op, had_tie)
    PROVE  FaultStep \/ GrantStep
<1>1. op \in BusOp /\ RejectReason(op) \in Faults
  BY DEF HostOp, RejectReason, Faults
<1>2. CASE Rejected(op) /\ Reject(op)
  BY <1>1, <1>2 DEF Reject, FaultStep
<1>3. CASE ~Rejected(op) /\ Grant(op, had_tie)
  BY <1>3 DEF GrantStep
<1> QED
  BY <1>2, <1>3 DEF execute_commit

\* commit and commit_dma either fault or execute.
LEMMA CommitCases ==
    ASSUME NEW op \in HostOp, commit(op)
    PROVE  FaultStep \/ GrantStep
<1>1. ~should_halt /\ op \in BusOp
  BY DEF commit, HostOp
<1>2. CASE EnqueueOk(op)
  <2>1. execute_commit(op, FALSE)
    BY <1>2 DEF commit
  <2> QED
    BY <1>1, <2>1, ExecuteCases
<1>3. CASE ~EnqueueOk(op)
  <2>1. /\ fault_response(op, Start(op), "ENQUEUE_NON_MONOTONIC_REQ_TIME")
        /\ UNCHANGED <<timingVars, storeVars>>
    BY <1>3 DEF commit
  <2> QED
    BY <1>1, <2>1 DEF FaultStep, Faults
<1> QED
  BY <1>2, <1>3

\* The three kinds of step are exhaustive.
LEMMA StepCases ==
    ASSUME TypeOK, [Next]_vars
    PROVE  NoBusStep \/ FaultStep \/ GrantStep
<1>1. ASSUME NEW t \in Templates, NEW r \in ReqTimes, Emit(t, r)
      PROVE  NoBusStep
  BY <1>1 DEF Emit, arbVars, traceVars, NoBusStep
<1>2. ASSUME NEW t \in Templates, NEW r \in ReqTimes, DirectCommit(t, r)
      PROVE  FaultStep \/ GrantStep
  <2> DEFINE op == MakeOp(t, r, Len(emitted) + direct)
             dma == [op EXCEPT !.cpu = DmaId, !.producer = "Dma"]
  <2>1. op \in HostOp
    BY MakeOpType
  <2>2. dma \in HostOp
    BY <2>1, DmaOpType
  <2>3. commit(op) \/ commit(dma)
    BY <1>2 DEF DirectCommit, commit_dma
  <2> HIDE DEF op, dma
  <2> QED
    BY <2>1, <2>2, <2>3, CommitCases
<1>3. ASSUME NEW c \in CpuIds, NEW t \in Watermarks, Publish(c, t)
      PROVE  NoBusStep
  BY <1>3 DEF Publish, update_progress, traceVars, NoBusStep
<1>4. CASE Drain
  BY <1>4 DEF Drain, BatchCall, traceVars, NoBusStep
<1>5. CASE DrainEnqueue
  <2>1. CASE BatchEnqueue
    <3> DEFINE op == call.ops[call.next]
    <3>1. op \in BusOp
      BY <2>1 DEF BatchEnqueue, TypeOK, HostOp
    <3>2. /\ ~should_halt
          /\ UNCHANGED <<timingVars, storeVars>>
          /\ \/ UNCHANGED traceVars
             \/ fault_response(op, Start(op), "ENQUEUE_NON_MONOTONIC_REQ_TIME")
      BY <2>1 DEF BatchEnqueue
    <3> HIDE DEF op
    <3> QED
      BY <3>1, <3>2 DEF FaultStep, NoBusStep, Faults, traceVars
  <2>2. CASE BatchEnqueued
    BY <2>2 DEF BatchEnqueued, traceVars, NoBusStep
  <2> QED
    BY <1>5, <2>1, <2>2 DEF DrainEnqueue
<1>6. CASE DrainCommit
  <2>1. PICK w \in Committable : execute_commit(call.pending[w].op, HadTie(w))
    BY <1>6 DEF DrainCommit, BatchCommit
  <2>2. w \in 1..Len(call.pending) /\ call.pending \in Seq([index : Nat, op : HostOp])
    BY DEF Committable, TypeOK
  <2>3. call.pending[w] \in [index : Nat, op : HostOp]
    BY <2>2, SeqElement
  <2>4. call.pending[w].op \in HostOp /\ HadTie(w) \in BOOLEAN /\ ~should_halt
    BY <1>6, <2>3 DEF HadTie, DrainCommit, BatchCommit
  <2> QED
    BY <2>1, <2>4, ExecuteCases
<1>7. CASE DrainStop
  BY <1>7 DEF DrainStop, BatchReturn, traceVars, NoBusStep
<1>8. CASE DrainKeep
  BY <1>8 DEF DrainKeep, arbVars, traceVars, NoBusStep
<1>9. CASE DrainFinish
  BY <1>9 DEF DrainFinish, BatchFinish, traceVars, NoBusStep
<1>10. ASSUME NEW enabled \in BOOLEAN, SetHaltOnFault(enabled)
       PROVE  NoBusStep
  BY <1>10 DEF SetHaltOnFault, set_halt_on_fault, NoBusStep
<1>11. CASE UNCHANGED vars
  BY <1>11 DEF vars, arbVars, traceVars, NoBusStep
<1> QED
  BY <1>1, <1>2, <1>3, <1>4, <1>5, <1>6, <1>7, <1>8, <1>9, <1>10, <1>11 DEF Next

\* What Append does to a sequence.
LEMMA AppendFacts ==
    ASSUME NEW S, NEW s \in Seq(S), NEW e \in S
    PROVE  /\ Append(s, e) \in Seq(S)
           /\ Len(Append(s, e)) = Len(s) + 1
           /\ \A i \in 1..Len(s) : Append(s, e)[i] = s[i]
           /\ Append(s, e)[Len(s) + 1] = e
OBVIOUS

\* A fault adds one line that was not executed.
LEMMA FaultAppends ==
    ASSUME TypeOK, FaultStep
    PROVE  /\ Len(trace) \in Nat
           /\ Len(trace') = Len(trace) + 1
           /\ \A i \in 1..Len(trace) : trace'[i] = trace[i]
           /\ trace'[Len(trace) + 1].fault # "none"
<1>1. PICK op \in BusOp, reason \in Faults : fault_response(op, Start(op), reason)
  BY DEF FaultStep
<1> DEFINE line == [start |-> Start(op), finish |-> Start(op), op |-> op, stall |-> 0,
                    value |-> kInvalidBusOpValue, fault |-> reason]
<1>2. line \in Line /\ line.fault # "none"
  BY StartBounds DEF Line, Faults
<1>3. trace' = Append(trace, line) /\ trace \in Seq(Line)
  BY <1>1 DEF fault_response, TypeOK
<1> HIDE DEF line
<1>4. Len(trace) \in Nat
  BY <1>3
<1> QED
  BY <1>2, <1>3, <1>4, AppendFacts

\* An execution adds one line, with the times that Grant computed.
LEMMA GrantAppends ==
    ASSUME TypeOK, NEW op \in HostOp, NEW had_tie \in BOOLEAN, ~Rejected(op), Grant(op, had_tie)
    PROVE  /\ Len(trace) \in Nat
           /\ Len(trace') = Len(trace) + 1
           /\ \A i \in 1..Len(trace) : trace'[i] = trace[i]
           /\ trace'[Len(trace) + 1].op = op
           /\ trace'[Len(trace) + 1].start = Start(op)
           /\ trace'[Len(trace) + 1].finish = Finish(op, had_tie)
           /\ trace'[Len(trace) + 1].fault = "none"
<1> DEFINE line == [start |-> Start(op), finish |-> Finish(op, had_tie), op |-> op,
                    stall |-> Finish(op, had_tie) - op.req, value |-> ValueOf(op),
                    fault |-> "none"]
<1>1. op \in BusOp /\ op.req \in Nat
  BY DEF HostOp, BusOp
<1>2. Start(op) \in Nat /\ Finish(op, had_tie) \in Nat /\ Finish(op, had_tie) - op.req \in Nat
  BY <1>1, StartBounds, FinishBounds
<1>3. line \in Line
  BY <1>1, <1>2, ValueOfType DEF Line
<1>4. trace' = Append(trace, line) /\ trace \in Seq(Line)
  BY DEF Grant, add_commit, TypeOK
<1>5. /\ line.op = op /\ line.start = Start(op) /\ line.finish = Finish(op, had_tie)
      /\ line.fault = "none"
  OBVIOUS
<1> HIDE DEF line
<1>6. Len(trace) \in Nat
  BY <1>4
<1>7. trace'[Len(trace) + 1] = line
  BY <1>3, <1>4, AppendFacts
<1> QED
  BY <1>3, <1>4, <1>5, <1>6, <1>7, AppendFacts

-----------------------------------------------------------------------------
(* Safety *)

\* The line i of a typed trace carries times and an operation.
LEMMA LineFacts ==
    ASSUME TypeOK, NEW i \in 1..Len(trace)
    PROVE  /\ trace[i].start \in Nat /\ trace[i].finish \in Nat
           /\ trace[i].op \in BusOp /\ trace[i].op.req \in Nat
<1>1. trace[i] \in Line
  BY SeqElement DEF TypeOK
<1> QED
  BY <1>1 DEF Line, BusOp

\* The bus serves one operation at a time: the intervals of the operations
\* that execute_commit executes are disjoint and in trace order, for every
\* latency model and whatever the callers pass.
THEOREM BusIsSerial == Spec => []BusSerial
<1>1. Init => BusSerial
  BY DEF Init, ArbInit, ArbInitWith, BusSerial
<1>2. ASSUME TypeOK, BusSerial, [Next]_vars
      PROVE  BusSerial'
  <2>1. CASE NoBusStep
    BY <1>2, <2>1 DEF NoBusStep, BusSerial, Executed, timingVars
  <2>2. CASE FaultStep
    <3>1. bus_free_time' = bus_free_time
      BY <2>2 DEF FaultStep, timingVars
    <3> QED
      BY <1>2, <2>2, <3>1, FaultAppends DEF BusSerial, Executed
  <2>3. CASE GrantStep
    <3>1. PICK op \in HostOp, had_tie \in BOOLEAN : ~Rejected(op) /\ Grant(op, had_tie)
      BY <2>3 DEF GrantStep
    <3>2. op \in BusOp
      BY DEF HostOp
    <3>3. /\ bus_free_time' = Finish(op, had_tie) /\ Finish(op, had_tie) \in Nat
          /\ Start(op) \in Nat /\ bus_free_time \in Nat
          /\ bus_free_time <= Start(op) /\ Start(op) <= Finish(op, had_tie)
      BY <1>2, <3>1, <3>2, StartBounds, FinishBounds DEF Grant, TypeOK
    <3>4. \A i \in 1..Len(trace) : trace[i].finish \in Nat
      BY <1>2, LineFacts
    <3>5. \A i \in 1..Len(trace') : i \in 1..Len(trace) \/ i = Len(trace) + 1
      BY <1>2, <3>1, GrantAppends
    <3>6. ASSUME NEW i \in 1..Len(trace'), trace'[i].fault = "none"
          PROVE  /\ trace'[i].finish <= bus_free_time'
                 /\ \A j \in 1..Len(trace') :
                       i < j /\ trace'[j].fault = "none" => trace'[i].finish <= trace'[j].start
      <4>1. CASE i = Len(trace) + 1
        BY <1>2, <3>1, <3>3, <4>1, GrantAppends
      <4>2. CASE i \in 1..Len(trace)
        <5>1. trace'[i] = trace[i] /\ trace[i].finish <= bus_free_time
          BY <1>2, <3>1, <3>6, <4>2, GrantAppends DEF BusSerial, Executed
        <5>2. trace[i].finish <= Start(op) /\ trace[i].finish <= bus_free_time'
          BY <3>3, <3>4, <4>2, <5>1
        <5>3. ASSUME NEW j \in 1..Len(trace), i < j, trace'[j].fault = "none"
              PROVE  trace'[i].finish <= trace'[j].start
          BY <1>2, <3>1, <3>6, <4>2, <5>1, <5>3, GrantAppends DEF BusSerial, Executed
        <5>4. trace'[i].finish <= trace'[Len(trace) + 1].start
          BY <1>2, <3>1, <5>1, <5>2, GrantAppends
        <5> QED
          BY <3>5, <5>1, <5>2, <5>3, <5>4
      <4> QED
        BY <3>5, <4>1, <4>2
    <3> QED
      BY <3>6 DEF BusSerial, Executed
  <2> QED
    BY <1>2, <2>1, <2>2, <2>3, StepCases
<1> QED
  BY <1>1, <1>2, TypeCorrect, PTL DEF Spec

\* The inductive strengthening of ProducerTimeMonotone: the slot's entry of
\* producer_last_req_time_ has been set and covers every executed operation.
LastRequestCovers ==
    \A i \in 1..Len(trace) : Executed(i) =>
        LET last == producer_last_req_time[producer_slot(trace[i].op)]
        IN  last # None /\ trace[i].op.req <= last

ProducerInv == LastRequestCovers /\ ProducerTimeMonotone

\* An execution keeps ProducerInv: the check in execute_commit compares the
\* request with an entry that bounds all earlier ones of the slot.
LEMMA GrantKeepsProducerInv ==
    ASSUME TypeOK, ProducerInv, NEW op \in HostOp, NEW had_tie \in BOOLEAN,
           ~Rejected(op), Grant(op, had_tie)
    PROVE  ProducerInv'
<1> DEFINE slot == producer_slot(op)
           n == Len(trace) + 1
<1>1. op \in BusOp /\ op.req \in Nat /\ slot \in Slots
  BY SlotType DEF HostOp, BusOp
<1>2. producer_last_req_time \in [Slots -> Nat \cup {None}]
  BY DEF TypeOK
<1>3. producer_last_req_time' = [producer_last_req_time EXCEPT ![slot] = op.req]
  BY DEF Grant
<1>4. producer_last_req_time[slot] # None => producer_last_req_time[slot] <= op.req
  BY <1>1, <1>2 DEF Rejected, NonMonotonic, None
<1>5. op.req # None
  BY <1>1 DEF None
<1>6. /\ Len(trace) \in Nat /\ Len(trace') = n
      /\ \A i \in 1..Len(trace) : trace'[i] = trace[i]
      /\ trace'[n].op = op
  BY GrantAppends
<1>7. \A i \in 1..n : i \in 1..Len(trace) \/ i = n
  BY <1>6
<1>8. \A i \in 1..Len(trace) :
         /\ trace[i].op.req \in Nat
         /\ producer_slot(trace[i].op) \in Slots
  BY LineFacts, SlotType
<1> HIDE DEF slot
<1>9. ASSUME NEW i \in 1..Len(trace), trace[i].fault = "none"
      PROVE  /\ producer_last_req_time'[producer_slot(trace[i].op)] # None
             /\ trace[i].op.req <= producer_last_req_time'[producer_slot(trace[i].op)]
             /\ producer_slot(trace[i].op) = slot => trace[i].op.req <= op.req
  <2>1. /\ producer_last_req_time[producer_slot(trace[i].op)] # None
        /\ trace[i].op.req <= producer_last_req_time[producer_slot(trace[i].op)]
    BY <1>9 DEF ProducerInv, LastRequestCovers, Executed
  <2>2. CASE producer_slot(trace[i].op) = slot
    <3>1. producer_last_req_time[slot] \in Nat
      BY <1>1, <1>2, <2>1, <2>2
    <3>2. trace[i].op.req <= op.req
      BY <1>1, <1>4, <1>8, <2>1, <2>2, <3>1
    <3> QED
      BY <1>1, <1>2, <1>3, <1>5, <2>2, <3>2
  <2>3. CASE producer_slot(trace[i].op) # slot
    BY <1>1, <1>2, <1>3, <1>8, <2>1, <2>3
  <2> QED
    BY <2>2, <2>3
<1>10. /\ producer_last_req_time'[slot] = op.req
       /\ producer_slot(trace'[n].op) = slot
  BY <1>1, <1>2, <1>3, <1>6 DEF slot
<1> HIDE DEF n
<1>11. LastRequestCovers'
  <2>1. ASSUME NEW i \in 1..n, trace'[i].fault = "none"
        PROVE  /\ producer_last_req_time'[producer_slot(trace'[i].op)] # None
               /\ trace'[i].op.req <= producer_last_req_time'[producer_slot(trace'[i].op)]
    <3>1. CASE i \in 1..Len(trace)
      BY <1>6, <1>9, <2>1, <3>1
    <3>2. CASE i = n
      BY <1>1, <1>5, <1>6, <1>10, <3>2
    <3> QED
      BY <1>7, <3>1, <3>2
  <2> QED
    BY <1>6, <2>1 DEF LastRequestCovers, Executed
<1>12. ProducerTimeMonotone'
  <2>1. ASSUME NEW i \in 1..n, NEW j \in 1..n, i < j,
               trace'[i].fault = "none", trace'[j].fault = "none",
               producer_slot(trace'[i].op) = producer_slot(trace'[j].op)
        PROVE  trace'[i].op.req <= trace'[j].op.req
    <3>1. i \in 1..Len(trace)
      BY <1>6, <2>1 DEF n
    <3>2. CASE j \in 1..Len(trace)
      BY <1>6, <2>1, <3>1, <3>2 DEF ProducerInv, ProducerTimeMonotone, Executed
    <3>3. CASE j = n
      BY <1>6, <1>9, <1>10, <2>1, <3>1, <3>3
    <3> QED
      BY <1>7, <3>2, <3>3
  <2> QED
    BY <1>6, <2>1 DEF ProducerTimeMonotone, Executed
<1> QED
  BY <1>11, <1>12 DEF ProducerInv

\* Whatever the callers pass and whichever entry points they mix, the
\* request times executed for one producer slot never decrease.
THEOREM ProducersAreMonotone == Spec => []ProducerTimeMonotone
<1>1. Init => ProducerInv
  BY DEF Init, ArbInit, ArbInitWith, ProducerInv, LastRequestCovers, ProducerTimeMonotone
<1>2. ASSUME TypeOK, ProducerInv, [Next]_vars
      PROVE  ProducerInv'
  <2>1. CASE NoBusStep
    BY <1>2, <2>1
    DEF NoBusStep, timingVars, ProducerInv, LastRequestCovers, ProducerTimeMonotone, Executed
  <2>2. CASE FaultStep
    <3>1. producer_last_req_time' = producer_last_req_time
      BY <2>2 DEF FaultStep, timingVars
    <3>2. LastRequestCovers'
      BY <1>2, <2>2, <3>1, FaultAppends DEF ProducerInv, LastRequestCovers, Executed
    <3>3. ProducerTimeMonotone'
      BY <1>2, <2>2, FaultAppends DEF ProducerInv, ProducerTimeMonotone, Executed
    <3> QED
      BY <3>2, <3>3 DEF ProducerInv
  <2>3. CASE GrantStep
    BY <1>2, <2>3, GrantKeepsProducerInv DEF GrantStep
  <2> QED
    BY <1>2, <2>1, <2>2, <2>3, StepCases
<1>3. ProducerInv => ProducerTimeMonotone
  BY DEF ProducerInv
<1> QED
  BY <1>1, <1>2, <1>3, TypeCorrect, PTL DEF Spec

\* A rejected operation changes neither the bus timing, nor the arbitration
\* state, nor memory, nor a device.
THEOREM RejectedOpsAreInert == Spec => FaultsAreInert
<1>1. ASSUME TypeOK, [Next]_vars
      PROVE  Len(trace') > Len(trace) /\ trace'[Len(trace')].fault # "none"
                => UNCHANGED <<timingVars, storeVars>>
  <2>1. CASE NoBusStep
    BY <2>1 DEF NoBusStep
  <2>2. CASE FaultStep
    BY <2>2 DEF FaultStep
  <2>3. CASE GrantStep
    <3>1. PICK op \in HostOp, had_tie \in BOOLEAN : ~Rejected(op) /\ Grant(op, had_tie)
      BY <2>3 DEF GrantStep
    <3> QED
      BY <1>1, <3>1, GrantAppends
  <2> QED
    BY <1>1, <2>1, <2>2, <2>3, StepCases
<1> QED
  BY <1>1, TypeCorrect, PTL DEF Spec, FaultsAreInert

\* While the halt latch stays set nothing reaches the bus, memory, a device
\* or the trace, through any entry point.
THEOREM HaltIsFinal == Spec => HaltFreezes
<1>1. ASSUME TypeOK, [Next]_vars
      PROVE  should_halt /\ should_halt' => UNCHANGED <<timingVars, storeVars, trace>>
  BY <1>1, StepCases DEF NoBusStep, FaultStep, GrantStep
<1> QED
  BY <1>1, TypeCorrect, PTL DEF Spec, HaltFreezes

-----------------------------------------------------------------------------
(* The horizon *)

\* A drain runs with progress tracking on, both CPUs have published, and
\* every executed CPU operation lies below both watermarks.
HorizonInv ==
    /\ call.phase \in {"enqueue", "commit"} => progress_tracking_enabled
    /\ \A i \in 1..Len(trace), c \in CpuIds :
          Executed(i) /\ is_cpu(trace[i].op.cpu)
             => progress_up_to[c] # TickMax /\ trace[i].op.req < progress_up_to[c]

\* A step that keeps the trace, the watermarks and the drain keeps HorizonInv.
LEMMA HorizonFrame ==
    ASSUME HorizonInv, trace' = trace, progress_up_to' = progress_up_to,
           call'.phase \in {"enqueue", "commit"} => progress_tracking_enabled'
    PROVE  HorizonInv'
BY DEF HorizonInv, Executed

\* A watermark only rises, and a published one is never unset.
LEMMA AdvanceFacts ==
    ASSUME TypeOK, NEW c \in CpuIds, NEW t \in Watermarks, NEW d \in CpuIds
    PROVE  progress_up_to[d] # TickMax =>
              /\ Advance(progress_up_to, c, t)[d] # TickMax
              /\ progress_up_to[d] <= Advance(progress_up_to, c, t)[d]
<1>1. t \in Nat /\ t # TickMax /\ progress_up_to \in [CpuIds -> Nat]
  BY HostAssumption DEF TypeOK
<1> QED
  BY <1>1 DEF Advance

\* The second loop of a drain executes only operations below the horizon.
LEMMA DrainCommitHorizon ==
    ASSUME TypeOK, HorizonInv, DrainCommit
    PROVE  HorizonInv'
<1>1. PICK w \in Committable : execute_commit(call.pending[w].op, HadTie(w))
  BY DEF DrainCommit, BatchCommit
<1>2. w \in 1..Len(call.pending) /\ call.pending \in Seq([index : Nat, op : HostOp])
  BY DEF Committable, TypeOK
<1>3. call.pending[w] \in [index : Nat, op : HostOp]
  BY <1>2, SeqElement
<1> DEFINE op == call.pending[w].op
<1>4. op \in HostOp /\ op \in BusOp /\ op.req \in Nat /\ HadTie(w) \in BOOLEAN
  BY <1>3 DEF HadTie, HostOp, BusOp
<1>5. ~should_halt /\ call.phase = "commit" /\ UNCHANGED progressVars
  BY DEF DrainCommit, BatchCommit
<1>6. progress_tracking_enabled /\ progress_tracking_enabled' /\ progress_up_to' = progress_up_to
  BY <1>5 DEF HorizonInv, progressVars
<1>7. \A c \in CpuIds : progress_up_to[c] # TickMax /\ op.req < progress_up_to[c]
  <2>1. CommitSafe(op)
    BY DEF Committable
  <2>2. has_safe_horizon /\ op.req < commit_horizon
    BY <1>6, <2>1 DEF CommitSafe
  <2>3. progress_up_to[0] \in Nat /\ progress_up_to[1] \in Nat
    BY DEF TypeOK, CpuIds
  <2> QED
    BY <1>4, <2>2, <2>3 DEF has_safe_horizon, commit_horizon, CpuIds
<1>8. execute_commit(op, HadTie(w))
  BY <1>1
<1> HIDE DEF op
<1>9. CASE Rejected(op)
  <2>1. FaultStep
    BY <1>4, <1>5, <1>8, <1>9 DEF execute_commit, Reject, FaultStep, RejectReason, Faults
  <2> QED
    BY <1>6, <2>1, FaultAppends DEF HorizonInv, Executed
<1>10. CASE ~Rejected(op)
  <2>1. Grant(op, HadTie(w))
    BY <1>8, <1>10 DEF execute_commit
  <2>2. /\ Len(trace) \in Nat /\ Len(trace') = Len(trace) + 1
        /\ \A i \in 1..Len(trace) : trace'[i] = trace[i]
        /\ trace'[Len(trace) + 1].op = op
    BY <1>4, <1>10, <2>1, GrantAppends
  <2> QED
    BY <1>6, <1>7, <2>2 DEF HorizonInv, Executed
<1> QED
  BY <1>9, <1>10

\* With honest producers every step keeps HorizonInv.
LEMMA HorizonStep ==
    ASSUME Honest, TypeOK, HorizonInv, [Next]_vars
    PROVE  HorizonInv'
<1>1. ASSUME NEW t \in Templates, NEW r \in ReqTimes, Emit(t, r) \/ DirectCommit(t, r)
      PROVE  HorizonInv'
  BY <1>1, HorizonFrame
  DEF Emit, DirectCommit, arbVars, traceVars, progressVars, HorizonInv
<1>2. ASSUME NEW c \in CpuIds, NEW t \in Watermarks, Publish(c, t)
      PROVE  HorizonInv'
  <2>1. /\ trace' = trace /\ call' = call /\ progress_tracking_enabled'
        /\ progress_up_to' = Advance(progress_up_to, c, t)
    BY <1>2 DEF Publish, update_progress, traceVars
  <2>2. progress_up_to' \in [CpuIds -> Nat] /\ progress_up_to \in [CpuIds -> Nat]
    BY TypeStep DEF TypeOK
  <2>3. ASSUME NEW i \in 1..Len(trace), NEW d \in CpuIds,
               Executed(i), is_cpu(trace[i].op.cpu)
        PROVE  progress_up_to'[d] # TickMax /\ trace[i].op.req < progress_up_to'[d]
    <3>1. progress_up_to[d] # TickMax /\ trace[i].op.req < progress_up_to[d]
      BY <2>3 DEF HorizonInv
    <3>2. progress_up_to'[d] # TickMax /\ progress_up_to[d] <= progress_up_to'[d]
      BY <2>1, <3>1, AdvanceFacts
    <3>3. trace[i].op.req \in Nat /\ progress_up_to[d] \in Nat /\ progress_up_to'[d] \in Nat
      BY <2>2, LineFacts
    <3> QED
      BY <3>1, <3>2, <3>3
  <2> QED
    BY <2>1, <2>3 DEF HorizonInv, Executed
<1>3. CASE Drain
  BY <1>3, HorizonFrame DEF Drain, BatchCall, progressVars, traceVars
<1>4. CASE DrainEnqueue
  <2>1. CASE BatchEnqueue
    <3>1. call.phase = "enqueue" /\ progress_tracking_enabled /\ UNCHANGED progressVars
      BY <2>1 DEF BatchEnqueue, HorizonInv
    <3> DEFINE op == call.ops[call.next]
    <3>2. op \in BusOp
      BY <2>1 DEF BatchEnqueue, TypeOK, HostOp
    <3>3. /\ ~should_halt
          /\ UNCHANGED <<timingVars, storeVars>>
          /\ \/ UNCHANGED traceVars
             \/ fault_response(op, Start(op), "ENQUEUE_NON_MONOTONIC_REQ_TIME")
      BY <2>1 DEF BatchEnqueue
    <3> HIDE DEF op
    <3>4. trace' = trace \/ FaultStep
      BY <3>2, <3>3 DEF FaultStep, Faults, traceVars
    <3>5. CASE trace' = trace
      BY <3>1, <3>5, HorizonFrame DEF progressVars
    <3>6. CASE FaultStep
      BY <3>1, <3>6, FaultAppends DEF HorizonInv, Executed, progressVars
    <3> QED
      BY <3>4, <3>5, <3>6
  <2>2. CASE BatchEnqueued
    BY <2>2, HorizonFrame DEF BatchEnqueued, traceVars, progressVars, HorizonInv
  <2> QED
    BY <1>4, <2>1, <2>2 DEF DrainEnqueue
<1>5. CASE DrainCommit
  BY <1>5, DrainCommitHorizon
<1>6. CASE DrainStop
  BY <1>6, HorizonFrame DEF DrainStop, BatchReturn, traceVars, progressVars, HorizonInv
<1>7. CASE DrainKeep
  BY <1>7, HorizonFrame DEF DrainKeep, arbVars, traceVars, progressVars, HorizonInv
<1>8. CASE DrainFinish
  BY <1>8, HorizonFrame DEF DrainFinish, BatchFinish, IdleCall, traceVars, progressVars
<1>9. ASSUME NEW enabled \in BOOLEAN, SetHaltOnFault(enabled)
      PROVE  HorizonInv'
  BY <1>9 DEF SetHaltOnFault
<1>10. CASE UNCHANGED vars
  BY <1>10, HorizonFrame DEF vars, arbVars, traceVars, progressVars, HorizonInv
<1> QED
  BY <1>1, <1>2, <1>3, <1>4, <1>5, <1>6, <1>7, <1>8, <1>9, <1>10 DEF Next

\* The commit horizon is safe: when producers keep the watermark contract no
\* CPU operation can be emitted at or before the request time of one that the
\* arbiter has already executed, so no tie is decided in a party's absence.
THEOREM HorizonIsSafe ==
    ASSUME Honest
    PROVE  Spec => NoLateArrival
<1>1. Init => HorizonInv
  BY DEF Init, ArbInit, ArbInitWith, IdleCall, HorizonInv
<1>2. TypeOK /\ HorizonInv /\ [Next]_vars => HorizonInv'
  BY HorizonStep
<1>3. ASSUME TypeOK, HorizonInv, [Next]_vars
      PROVE  \A q \in {emitted'[i] : i \in (Len(emitted) + 1)..Len(emitted')},
                i \in 1..Len(trace) :
                is_cpu(q.cpu) /\ is_cpu(trace[i].op.cpu) /\ Executed(i)
                   => trace[i].op.req < q.req
  <2>1. CASE emitted' = emitted
    <3>1. Len(emitted) \in Nat
      BY <1>3 DEF TypeOK
    <3> QED
      BY <2>1, <3>1
  <2>2. ASSUME NEW t \in Templates, NEW r \in ReqTimes, Emit(t, r),
               NEW k \in (Len(emitted) + 1)..Len(emitted'), NEW i \in 1..Len(trace),
               is_cpu(emitted'[k].cpu), is_cpu(trace[i].op.cpu), Executed(i)
        PROVE  trace[i].op.req < emitted'[k].req
    <3> DEFINE op == MakeOp(t, r, Len(emitted) + direct)
    <3>1. op \in HostOp
      BY <1>3, MakeOpType
    <3>2. emitted' = Append(emitted, op) /\ KeepsContract(op)
      BY <2>2 DEF Emit
    <3> HIDE DEF op
    <3>3. emitted \in Seq(HostOp) /\ Len(emitted) \in Nat
      BY <1>3 DEF TypeOK
    <3>4. emitted'[k] = op
      BY <2>2, <3>1, <3>2, <3>3, AppendFacts
    <3>5. is_cpu(op.cpu) /\ op.cpu \in CpuIds /\ op.req \in Nat
      BY <2>2, <3>1, <3>4 DEF is_cpu, HostOp, BusOp
    <3>6. progress_up_to[op.cpu] # TickMax /\ trace[i].op.req < progress_up_to[op.cpu]
      BY <1>3, <2>2, <3>5 DEF HorizonInv
    <3>7. progress_up_to[op.cpu] <= op.req
      BY <3>2, <3>5, <3>6 DEF KeepsContract
    <3>8. trace[i].op.req \in Nat /\ progress_up_to[op.cpu] \in Nat
      BY <1>3, <3>5, LineFacts DEF TypeOK
    <3> QED
      BY <3>4, <3>5, <3>6, <3>7, <3>8
  <2>3. emitted' = emitted \/ \E t \in Templates, r \in ReqTimes : Emit(t, r)
    BY <1>3 DEF Next, vars, hostVars, DirectCommit, Publish, Drain, DrainEnqueue, DrainCommit,
                DrainStop, DrainKeep, DrainFinish, SetHaltOnFault
  <2> QED
    BY <2>1, <2>2, <2>3
<1> QED
  BY <1>1, <1>2, <1>3, TypeCorrect, PTL DEF Spec, NoLateArrival

-----------------------------------------------------------------------------
(* commit_pending *)

\* Operations handed to the arbiter so far; the next one gets this number
Issued == Len(emitted) + direct

\* Line i is the answer to an operation: a fault in the first loop of
\* commit_batch leaves the operation with the caller
Answers(i) == trace[i].fault # "ENQUEUE_NON_MONOTONIC_REQ_TIME"

\* Sequence numbers tell the operations in the vector apart, and the answers
NumbersInv ==
    /\ \A i \in 1..Len(pending_ops) : pending_ops[i].seq < Issued
    /\ \A i, j \in 1..Len(pending_ops) : pending_ops[i].seq = pending_ops[j].seq => i = j
    /\ \A i \in 1..Len(trace) : trace[i].op.seq < Issued
    /\ \A i, j \in 1..Len(trace) :
          Answers(i) /\ Answers(j) /\ trace[i].op.seq = trace[j].op.seq => i = j

\* An operation of the vector has an answer if and only if the batch in
\* progress has committed it
AnswersInv ==
    \A i \in 1..Len(pending_ops) :
        /\ \A j \in 1..Len(trace) :
              Answers(j) /\ trace[j].op.seq = pending_ops[i].seq => WasCommitted(i)
        /\ WasCommitted(i) => \E j \in 1..Len(trace) : Answers(j) /\ trace[j].op = pending_ops[i]

\* Every operation is in the vector or has an answer
CoverInv ==
    \A e \in 1..Len(emitted) :
        \/ \E i \in 1..Len(pending_ops) : pending_ops[i] = emitted[e]
        \/ \E j \in 1..Len(trace) : Answers(j) /\ trace[j].op = emitted[e]

\* The batch has accepted some operations of the vector, each once, and has not
\* committed those that are pending
DrainInv ==
    /\ \E S : call.committed \in Seq(S)
    /\ call.phase = "idle" => call = IdleCall
    /\ call.phase # "idle" => call.ops = pending_ops
    /\ call.phase = "enqueue" => call.committed = <<>>
    /\ \A k \in 1..Len(call.pending) :
          /\ call.pending[k].index \in 1..Len(pending_ops)
          /\ call.phase = "enqueue" => call.pending[k].index < call.next
          /\ call.pending[k].op = pending_ops[call.pending[k].index]
          /\ ~WasCommitted(call.pending[k].index)
    /\ \A k, l \in 1..Len(call.pending) : call.pending[k].index = call.pending[l].index => k = l

\* The compaction has kept the operations before scan that were not committed
KeepInv ==
    /\ call.phase # "return" => scan = 1 /\ remaining = <<>>
    /\ scan <= Len(pending_ops) + 1
    /\ \A k \in 1..Len(remaining) : \E i \in 1..(scan - 1) :
          remaining[k] = pending_ops[i] /\ ~WasCommitted(i)
    /\ \A i \in 1..(scan - 1) :
          ~WasCommitted(i) => \E k \in 1..Len(remaining) : remaining[k] = pending_ops[i]
    /\ \A k, l \in 1..Len(remaining) : remaining[k].seq = remaining[l].seq => k = l

LostInv == NumbersInv /\ AnswersInv /\ CoverInv /\ DrainInv /\ KeepInv

\* Appending to a sequence, whatever the element.
LEMMA AppendMore ==
    ASSUME NEW S, NEW s \in Seq(S), NEW e
    PROVE  /\ Append(s, e) \in Seq(S \cup {e})
           /\ Len(s) \in Nat /\ Len(Append(s, e)) = Len(s) + 1
           /\ \A i \in 1..Len(s) : Append(s, e)[i] = s[i]
           /\ Append(s, e)[Len(s) + 1] = e
<1>1. s \in Seq(S \cup {e}) /\ e \in S \cup {e}
  OBVIOUS
<1> QED
  BY <1>1, AppendFacts

\* The new log has one line more.
Adds(line) ==
    /\ Len(trace) \in Nat /\ Len(trace') = Len(trace) + 1
    /\ \A i \in 1..Len(trace) : trace'[i] = trace[i]
    /\ trace'[Len(trace) + 1] = line

LEMMA AddsLine ==
    ASSUME TypeOK, NEW line, trace' = Append(trace, line)
    PROVE  Adds(line)
<1>1. trace \in Seq(Line)
  BY DEF TypeOK
<1> QED
  BY <1>1, AppendMore DEF Adds

\* A rejection adds a line with its reason.
LEMMA FaultAdds ==
    ASSUME TypeOK, NEW op, NEW t, NEW reason, fault_response(op, t, reason)
    PROVE  \E line : line.op = op /\ line.fault = reason /\ Adds(line)
<1> DEFINE line == [start |-> t, finish |-> t, op |-> op, stall |-> 0,
                    value |-> kInvalidBusOpValue, fault |-> reason]
<1>1. trace' = Append(trace, line) /\ line.op = op /\ line.fault = reason
  BY DEF fault_response
<1> HIDE DEF line
<1> QED
  BY <1>1, AddsLine

\* An execution adds an answer.
LEMMA ExecuteAdds ==
    ASSUME TypeOK, NEW op, NEW tie, execute_commit(op, tie)
    PROVE  \E line : line.op = op /\ line.fault # "ENQUEUE_NON_MONOTONIC_REQ_TIME" /\ Adds(line)
<1>1. CASE Reject(op)
  <2>1. fault_response(op, Start(op), RejectReason(op))
    BY <1>1 DEF Reject
  <2>2. RejectReason(op) # "ENQUEUE_NON_MONOTONIC_REQ_TIME"
    BY DEF RejectReason
  <2> QED
    BY <2>1, <2>2, FaultAdds
<1>2. CASE Grant(op, tie)
  <2> DEFINE line == [start |-> Start(op), finish |-> Finish(op, tie), op |-> op,
                      stall |-> Finish(op, tie) - op.req, value |-> ValueOf(op), fault |-> "none"]
  <2>1. /\ trace' = Append(trace, line) /\ line.op = op
        /\ line.fault # "ENQUEUE_NON_MONOTONIC_REQ_TIME"
    BY <1>2 DEF Grant, add_commit
  <2> HIDE DEF line
  <2> QED
    BY <2>1, AddsLine
<1> QED
  BY <1>1, <1>2 DEF execute_commit

\* Sequence numbers are numbers.
LEMMA NumberTypes ==
    ASSUME TypeOK
    PROVE  /\ Issued \in Nat /\ Len(pending_ops) \in Nat /\ Len(trace) \in Nat
           /\ Len(emitted) \in Nat
           /\ \A i \in 1..Len(pending_ops) : pending_ops[i].seq \in Nat
           /\ \A i \in 1..Len(trace) : trace[i].op.seq \in Nat
<1>1. /\ pending_ops \in Seq(HostOp) /\ emitted \in Seq(HostOp) /\ trace \in Seq(Line)
      /\ direct \in Nat
  BY DEF TypeOK
<1>2. Issued \in Nat /\ Len(pending_ops) \in Nat /\ Len(trace) \in Nat /\ Len(emitted) \in Nat
  BY <1>1 DEF Issued
<1>3. ASSUME NEW i \in 1..Len(pending_ops) PROVE pending_ops[i].seq \in Nat
  <2>1. pending_ops[i] \in HostOp
    BY <1>1, SeqElement
  <2> QED
    BY <2>1 DEF HostOp, BusOp
<1>4. ASSUME NEW i \in 1..Len(trace) PROVE trace[i].op.seq \in Nat
  <2>1. trace[i].op \in BusOp
    BY LineFacts
  <2> QED
    BY <2>1 DEF BusOp
<1> QED
  BY <1>2, <1>3, <1>4

\* Steps that leave the vector, the log and the batch alone.
LEMMA QuietLoses ==
    ASSUME LostInv, UNCHANGED <<pending_ops, emitted, direct, trace, call, scan, remaining>>
    PROVE  LostInv'
<1>1. Issued' = Issued /\ \A i : (Answers(i)' <=> Answers(i)) /\ (WasCommitted(i)' <=> WasCommitted(i))
  BY DEF Issued, Answers, WasCommitted
<1>2. NumbersInv'
  BY <1>1 DEF LostInv, NumbersInv
<1>3. AnswersInv'
  BY <1>1 DEF LostInv, AnswersInv
<1>4. CoverInv'
  BY <1>1 DEF LostInv, CoverInv
<1>5. DrainInv'
  BY <1>1 DEF LostInv, DrainInv, WasCommitted
<1>6. KeepInv'
  BY <1>1 DEF LostInv, KeepInv, WasCommitted
<1> QED
  BY <1>2, <1>3, <1>4, <1>5, <1>6 DEF LostInv

\* Outside of commit_pending nothing is committed.
LEMMA IdleCommitted ==
    ASSUME DrainInv, call.phase = "idle"
    PROVE  /\ call = IdleCall /\ call.committed = <<>> /\ call.pending = <<>>
           /\ \A i : ~WasCommitted(i)
BY DEF DrainInv, IdleCall, WasCommitted

\* A producer hands over an operation with a new number.
LEMMA EmitLoses ==
    ASSUME TypeOK, LostInv, NEW t, NEW r, Emit(t, r)
    PROVE  LostInv'
<1> DEFINE op == MakeOp(t, r, Len(emitted) + direct)
           n == Len(pending_ops) + 1
<1>1. NumbersInv /\ AnswersInv /\ CoverInv /\ DrainInv /\ KeepInv
  BY DEF LostInv
<1>2. /\ call.phase = "idle" /\ pending_ops' = Append(pending_ops, op)
      /\ emitted' = Append(emitted, op)
      /\ UNCHANGED <<direct, trace, call, scan, remaining>>
  BY DEF Emit, arbVars, traceVars, keepVars
<1>3. op.seq = Issued
  BY DEF MakeOp, Issued
<1> HIDE DEF op
<1>4. /\ Len(pending_ops') = n /\ Len(pending_ops) \in Nat /\ pending_ops'[n] = op
      /\ \A i \in 1..Len(pending_ops) : pending_ops'[i] = pending_ops[i]
      /\ Len(emitted') = Len(emitted) + 1 /\ Len(emitted) \in Nat
      /\ emitted'[Len(emitted) + 1] = op
      /\ \A i \in 1..Len(emitted) : emitted'[i] = emitted[i]
  <2>1. pending_ops \in Seq(HostOp) /\ emitted \in Seq(HostOp)
    BY DEF TypeOK
  <2> QED
    BY <1>2, <2>1, AppendMore
<1>5. Issued' = Issued + 1 /\ Issued \in Nat
  BY <1>2, <1>4, NumberTypes DEF Issued, TypeOK
<1>6. n \in 1..n /\ \A i \in 1..n : i = n \/ i \in 1..Len(pending_ops)
  BY <1>4
<1> HIDE DEF n
<1>7. NumbersInv'
  <2>1. \A i \in 1..Len(pending_ops') : pending_ops'[i].seq < Issued'
    <3> SUFFICES ASSUME NEW i \in 1..Len(pending_ops')
                 PROVE  pending_ops'[i].seq < Issued'
      OBVIOUS
    <3>1. CASE i = n
      BY <1>3, <1>4, <1>5, <3>1
    <3>2. CASE i \in 1..Len(pending_ops)
      <4>1. pending_ops[i].seq < Issued /\ pending_ops[i].seq \in Nat
        BY <1>1, <3>2, NumberTypes DEF NumbersInv
      <4> QED
        BY <1>4, <1>5, <3>2, <4>1
    <3> QED
      BY <1>4, <1>6, <3>1, <3>2
  <2>2. ASSUME NEW i \in 1..Len(pending_ops'), NEW j \in 1..Len(pending_ops'),
               pending_ops'[i].seq = pending_ops'[j].seq
        PROVE  i = j
    BY <1>1, <1>3, <1>4, <1>5, <1>6, <2>2, NumberTypes, SMTT(40) DEF NumbersInv
  <2>3. /\ \A i \in 1..Len(trace') : trace'[i].op.seq < Issued'
        /\ \A i, j \in 1..Len(trace') :
             Answers(i)' /\ Answers(j)' /\ trace'[i].op.seq = trace'[j].op.seq => i = j
    <3>1. \A i : Answers(i)' <=> Answers(i)
      BY <1>2 DEF Answers
    <3>2. \A i \in 1..Len(trace) : trace[i].op.seq < Issued + 1
      BY <1>1, <1>5, NumberTypes DEF NumbersInv
    <3> QED
      BY <1>1, <1>2, <1>5, <3>1, <3>2 DEF NumbersInv
  <2> QED
    BY <2>1, <2>2, <2>3 DEF NumbersInv
<1>8. \A i : ~WasCommitted(i) /\ ~WasCommitted(i)'
  BY <1>1, <1>2, IdleCommitted DEF WasCommitted
<1>9. AnswersInv'
  <2>1. \A i \in 1..Len(pending_ops), j \in 1..Len(trace) :
            ~(Answers(j) /\ trace[j].op.seq = pending_ops[i].seq)
    BY <1>1, <1>8 DEF AnswersInv
  <2>2. \A j \in 1..Len(trace) : trace[j].op.seq # op.seq
    BY <1>1, <1>3, <1>5, NumberTypes DEF NumbersInv
  <2> QED
    BY <1>2, <1>4, <1>6, <1>8, <2>1, <2>2 DEF AnswersInv, Answers
<1>10. CoverInv'
  <2>1. ASSUME NEW e \in 1..Len(emitted')
        PROVE  \/ \E i \in 1..Len(pending_ops') : pending_ops'[i] = emitted'[e]
               \/ \E j \in 1..Len(trace') : Answers(j)' /\ trace'[j].op = emitted'[e]
    <3>1. CASE e = Len(emitted) + 1
      BY <1>4, <1>6, <3>1
    <3>2. CASE e \in 1..Len(emitted)
      <4>1. \A i \in 1..Len(pending_ops) : i \in 1..Len(pending_ops')
        BY <1>4 DEF n
      <4> QED
        BY <1>1, <1>2, <1>4, <3>2, <4>1 DEF CoverInv, Answers
    <3> QED
      BY <1>4, <3>1, <3>2
  <2> QED
    BY <2>1 DEF CoverInv
<1>11. DrainInv'
  <2>1. call.pending = <<>> /\ call' = IdleCall /\ call'.pending = <<>>
    BY <1>1, <1>2, IdleCommitted
  <2>2. 1..Len(call'.pending) = {}
    BY <2>1
  <2>3. call'.phase = "idle"
    BY <1>2
  <2> QED
    BY <1>1, <1>2, <2>1, <2>2, <2>3 DEF DrainInv
<1>12. KeepInv'
  <2>1. scan' = 1 /\ remaining' = <<>> /\ Len(<<>>) = 0
    BY <1>1, <1>2 DEF KeepInv
  <2> QED
    BY <1>4, <2>1 DEF KeepInv, n
<1> QED
  BY <1>7, <1>9, <1>10, <1>11, <1>12 DEF LostInv

\* A line is added that answers nothing of the vector, while the vector, the
\* batch and the compaction stay as they are.
LEMMA LineLoses ==
    ASSUME TypeOK, LostInv, NEW line, Adds(line), NEW d \in Nat, Issued' = Issued + d,
           line.op.seq \in Nat, line.op.seq < Issued + d,
           \/ line.fault = "ENQUEUE_NON_MONOTONIC_REQ_TIME"
           \/ line.op.seq = Issued,
           UNCHANGED <<pending_ops, emitted>>
    PROVE  NumbersInv' /\ CoverInv' /\ (call'.committed = call.committed => AnswersInv')
<1>1. NumbersInv /\ AnswersInv /\ CoverInv
  BY DEF LostInv
<1>2. PICK n : n = Len(trace) + 1
  OBVIOUS
<1>3. /\ \A i \in 1..Len(trace') : i = n \/ i \in 1..Len(trace)
      /\ \A i \in 1..Len(trace) : trace'[i] = trace[i]
      /\ trace'[n] = line
  BY <1>2 DEF Adds
<1>4. \A i \in 1..Len(trace) : i \in 1..Len(trace') /\ (Answers(i)' <=> Answers(i))
  BY <1>2, <1>3 DEF Answers, Adds
<1>5. ~Answers(n)' \/ line.op.seq = Issued
  BY <1>3 DEF Answers
<1>6. NumbersInv'
  <2>1. \A i \in 1..Len(pending_ops') : pending_ops'[i].seq < Issued'
    BY <1>1, NumberTypes DEF NumbersInv
  <2>2. \A i \in 1..Len(trace') : trace'[i].op.seq < Issued'
    <3>1. \A i \in 1..Len(trace) : trace[i].op.seq < Issued + d
      BY <1>1, NumberTypes DEF NumbersInv
    <3> QED
      BY <1>3, <3>1
  <2>3. ASSUME NEW i \in 1..Len(trace'), NEW j \in 1..Len(trace'),
               Answers(i)', Answers(j)', trace'[i].op.seq = trace'[j].op.seq
        PROVE  i = j
    <3>1. \A k \in 1..Len(trace) : trace[k].op.seq # Issued
      BY <1>1, NumberTypes, SMTT(40) DEF NumbersInv
    <3> QED
      BY <1>1, <1>3, <1>4, <1>5, <2>3, <3>1 DEF NumbersInv
  <2> QED
    BY <1>1, <2>1, <2>2, <2>3 DEF NumbersInv
<1>7. CoverInv'
  BY <1>1, <1>3, <1>4, ZenonT(40) DEF CoverInv
<1>8. ASSUME call'.committed = call.committed PROVE AnswersInv'
  <2>1. \A i : WasCommitted(i)' <=> WasCommitted(i)
    BY <1>8 DEF WasCommitted
  <2>2. \A i \in 1..Len(pending_ops) : pending_ops[i].seq # Issued
    BY <1>1, NumberTypes DEF NumbersInv
  <2> QED
    BY <1>1, <1>3, <1>4, <1>5, <2>1, <2>2 DEF AnswersInv
<1> QED
  BY <1>6, <1>7, <1>8

\* A direct commit, whose operation was never in the vector.
LEMMA DirectLoses ==
    ASSUME TypeOK, LostInv, NEW t, NEW r, DirectCommit(t, r)
    PROVE  LostInv'
<1>1. PICK op : op.seq = Issued /\ commit(op)
  <2> DEFINE o == MakeOp(t, r, Len(emitted) + direct)
             a == [o EXCEPT !.cpu = DmaId, !.producer = "Dma"]
  <2>1. o.seq = Issued /\ a.seq = Issued
    BY DEF MakeOp, Issued
  <2>2. commit(o) \/ commit(a)
    BY DEF DirectCommit, commit_dma
  <2> HIDE DEF o, a
  <2> QED
    BY <2>1, <2>2
<1>2. /\ call' = call /\ direct' = direct + 1
      /\ UNCHANGED <<pending_ops, emitted, scan, remaining>>
  BY <1>1 DEF DirectCommit, commit, keepVars
<1>3. PICK line : line.op = op /\ Adds(line)
  <2>1. CASE execute_commit(op, FALSE)
    BY <2>1, ExecuteAdds
  <2>2. CASE fault_response(op, Start(op), "ENQUEUE_NON_MONOTONIC_REQ_TIME")
    BY <2>2, FaultAdds
  <2> QED
    BY <1>1, <2>1, <2>2 DEF commit
<1>4. Issued \in Nat /\ Issued' = Issued + 1
  BY <1>2, NumberTypes DEF Issued, TypeOK
<1>5. NumbersInv' /\ CoverInv' /\ AnswersInv'
  <2>1. 1 \in Nat /\ line.op.seq = Issued /\ line.op.seq \in Nat /\ line.op.seq < Issued + 1
    BY <1>1, <1>3, <1>4
  <2> QED
    BY <1>2, <1>3, <1>4, <2>1, LineLoses
<1>6. \A i : WasCommitted(i)' <=> WasCommitted(i)
  BY <1>2 DEF WasCommitted
<1>7. DrainInv'
  BY <1>2, <1>6 DEF LostInv, DrainInv, WasCommitted
<1>8. KeepInv'
  BY <1>2, <1>6 DEF LostInv, KeepInv, WasCommitted
<1> QED
  BY <1>5, <1>7, <1>8 DEF LostInv

\* A step of the batch that leaves the vector, the log and the results alone.
LEMMA BatchLoses ==
    ASSUME TypeOK, LostInv, UNCHANGED <<pending_ops, emitted, direct, trace, scan, remaining>>,
           call'.committed = call.committed
    PROVE  NumbersInv' /\ AnswersInv' /\ CoverInv'
           /\ ((call.phase # "return" /\ scan = 1) => KeepInv')
<1>1. Issued' = Issued /\ \A i : (Answers(i)' <=> Answers(i)) /\ (WasCommitted(i)' <=> WasCommitted(i))
  BY DEF Issued, Answers, WasCommitted
<1>2. NumbersInv'
  BY <1>1 DEF LostInv, NumbersInv
<1>3. AnswersInv'
  BY <1>1 DEF LostInv, AnswersInv
<1>4. CoverInv'
  BY <1>1 DEF LostInv, CoverInv
<1>5. ASSUME call.phase # "return", scan = 1 PROVE KeepInv'
  BY <1>1, <1>5 DEF LostInv, KeepInv
<1> QED
  BY <1>2, <1>3, <1>4, <1>5

\* commit_pending passes its vector to commit_batch.
LEMMA DrainLoses ==
    ASSUME TypeOK, LostInv, Drain
    PROVE  LostInv'
<1>1. DrainInv /\ KeepInv
  BY DEF LostInv
<1>2. /\ call.phase = "idle"
      /\ UNCHANGED <<pending_ops, emitted, direct, trace, scan, remaining>>
      /\ call' = [IdleCall EXCEPT !.phase = "enqueue", !.ops = pending_ops]
  BY DEF Drain, BatchCall, hostVars, keepVars, traceVars
<1>3. /\ call'.phase = "enqueue" /\ call'.ops = pending_ops
      /\ call'.pending = <<>> /\ call'.committed = <<>>
  BY <1>2 DEF IdleCall
<1>4. call.committed = <<>> /\ scan = 1
  BY <1>1, <1>2, IdleCommitted DEF KeepInv
<1>5. NumbersInv' /\ AnswersInv' /\ CoverInv' /\ KeepInv'
  BY <1>2, <1>3, <1>4, BatchLoses
<1>6. DrainInv'
  <2>1. 1..Len(call'.pending) = {} /\ <<>> \in Seq({})
    BY <1>3
  <2> QED
    BY <1>2, <1>3, <2>1 DEF DrainInv
<1> QED
  BY <1>5, <1>6 DEF LostInv

\* The first loop accepts the next operation or leaves it with the caller.
LEMMA EnqueueLoses ==
    ASSUME TypeOK, LostInv, BatchEnqueue, UNCHANGED hostVars
    PROVE  LostInv'
<1> DEFINE op == call.ops[call.next]
           e == [index |-> call.next, op |-> op]
<1>1. NumbersInv /\ AnswersInv /\ CoverInv /\ DrainInv /\ KeepInv
  BY DEF LostInv
<1>2. /\ call.phase = "enqueue" /\ call.next <= Len(call.ops) /\ call.next \in Nat \ {0}
      /\ UNCHANGED <<pending_ops, emitted, direct, scan, remaining>>
      /\ DOMAIN call = {"phase", "ops", "next", "pending", "committed"}
      /\ call.pending \in Seq([index : Nat, op : HostOp])
  BY DEF BatchEnqueue, hostVars, keepVars, TypeOK
<1>3. /\ call.ops = pending_ops /\ call.committed = <<>> /\ scan = 1
      /\ call.next \in 1..Len(pending_ops) /\ op = pending_ops[call.next]
  BY <1>1, <1>2, NumberTypes DEF DrainInv, KeepInv
<1>4. e.index = call.next /\ e.op = op
  OBVIOUS
<1>5. CASE /\ call' = [call EXCEPT !.next = @ + 1, !.pending = Append(@, e)]
           /\ UNCHANGED traceVars
  <2> HIDE DEF e
  <2>1. /\ call'.phase = "enqueue" /\ call'.ops = pending_ops /\ call'.next = call.next + 1
        /\ call'.pending = Append(call.pending, e) /\ call'.committed = <<>>
    BY <1>2, <1>3, <1>5
  <2>2. NumbersInv' /\ AnswersInv' /\ CoverInv' /\ KeepInv'
    BY <1>2, <1>3, <1>5, <2>1, BatchLoses DEF traceVars
  <2>3. PICK n : n = Len(call.pending) + 1
    OBVIOUS
  <2>4. /\ \A k \in 1..Len(call'.pending) : k = n \/ k \in 1..Len(call.pending)
        /\ \A k \in 1..Len(call.pending) : call'.pending[k] = call.pending[k]
        /\ call'.pending[n] = e
    BY <1>2, <2>1, <2>3, AppendMore
  <2>5. \A i : ~WasCommitted(i)'
    BY <2>1 DEF WasCommitted
  <2>6. \A k \in 1..Len(call.pending) :
          /\ call.pending[k].index \in 1..Len(pending_ops)
          /\ call.pending[k].index < call.next
          /\ call.pending[k].op = pending_ops[call.pending[k].index]
    BY <1>1, <1>2 DEF DrainInv
  <2>7. ASSUME NEW k \in 1..Len(call'.pending)
        PROVE  /\ call'.pending[k].index \in 1..Len(pending_ops')
               /\ call'.pending[k].index < call'.next
               /\ call'.pending[k].op = pending_ops'[call'.pending[k].index]
    <3>1. CASE k = n
      BY <1>2, <1>3, <1>4, <2>1, <2>4, <3>1
    <3>2. CASE k \in 1..Len(call.pending)
      BY <1>2, <2>1, <2>4, <2>6, <3>2
    <3> QED
      BY <2>4, <3>1, <3>2
  <2>8. ASSUME NEW k \in 1..Len(call'.pending), NEW l \in 1..Len(call'.pending),
               call'.pending[k].index = call'.pending[l].index
        PROVE  k = l
    <3>1. \A m \in 1..Len(call.pending) : call.pending[m].index # call.next
      BY <1>2, <2>6
    <3>2. \A m, o \in 1..Len(call.pending) :
              call.pending[m].index = call.pending[o].index => m = o
      BY <1>1 DEF DrainInv
    <3>3. e.index = call.next
      BY <1>4
    <3> QED
      BY <2>4, <2>8, <3>1, <3>2, <3>3
  <2>9. <<>> \in Seq({})
    OBVIOUS
  <2>10. DrainInv'
    BY <1>2, <2>1, <2>5, <2>7, <2>8, <2>9 DEF DrainInv
  <2> QED
    BY <2>2, <2>10 DEF LostInv
<1>6. CASE /\ fault_response(op, Start(op), "ENQUEUE_NON_MONOTONIC_REQ_TIME")
           /\ call' = [call EXCEPT !.next = @ + 1]
  <2> HIDE DEF op, e
  <2>1. /\ call'.phase = "enqueue" /\ call'.ops = pending_ops /\ call'.next = call.next + 1
        /\ call'.pending = call.pending /\ call'.committed = call.committed
    BY <1>2, <1>3, <1>6
  <2>2. PICK line : line.op = op /\ line.fault = "ENQUEUE_NON_MONOTONIC_REQ_TIME" /\ Adds(line)
    BY <1>6, FaultAdds
  <2>3. op.seq \in Nat /\ op.seq < Issued /\ Issued' = Issued /\ Issued \in Nat
    BY <1>1, <1>2, <1>3, NumberTypes DEF NumbersInv, Issued
  <2>4. NumbersInv' /\ CoverInv' /\ AnswersInv'
    <3>1. 0 \in Nat /\ Issued' = Issued + 0 /\ line.op.seq \in Nat /\ line.op.seq < Issued + 0
      BY <2>2, <2>3
    <3> QED
      BY <1>2, <2>1, <2>2, <3>1, LineLoses
  <2>5. \A i : WasCommitted(i)' <=> WasCommitted(i)
    BY <2>1 DEF WasCommitted
  <2>6. KeepInv'
    BY <1>1, <1>2, <1>3, <2>1, <2>5 DEF KeepInv
  <2>7. \A k \in 1..Len(call.pending) :
          /\ call.pending[k].index \in 1..Len(pending_ops)
          /\ call.pending[k].index < call.next + 1
          /\ call.pending[k].op = pending_ops[call.pending[k].index]
          /\ ~WasCommitted(call.pending[k].index)
    BY <1>1, <1>2 DEF DrainInv
  <2>8. DrainInv'
    BY <1>1, <1>2, <1>3, <2>1, <2>5, <2>7 DEF DrainInv, WasCommitted
  <2> QED
    BY <2>4, <2>6, <2>8 DEF LostInv
<1> QED
  BY <1>5, <1>6 DEF BatchEnqueue

\* The ends of the two loops.
LEMMA PhaseLoses ==
    ASSUME TypeOK, LostInv, BatchEnqueued \/ BatchReturn, UNCHANGED hostVars
    PROVE  LostInv'
<1>1. DrainInv /\ KeepInv
  BY DEF LostInv
<1>2. PICK phase \in {"commit", "return"} : call' = [call EXCEPT !.phase = phase]
  BY DEF BatchEnqueued, BatchReturn
<1>3. /\ call.phase \in {"enqueue", "commit"}
      /\ UNCHANGED <<pending_ops, emitted, direct, trace, scan, remaining>>
      /\ DOMAIN call = {"phase", "ops", "next", "pending", "committed"}
  BY DEF BatchEnqueued, BatchReturn, hostVars, keepVars, traceVars, TypeOK
<1>4. /\ call'.phase = phase /\ call'.ops = call.ops /\ call'.pending = call.pending
      /\ call'.committed = call.committed
  BY <1>2, <1>3
<1>5. NumbersInv' /\ AnswersInv' /\ CoverInv' /\ KeepInv'
  <2>1. scan = 1
    BY <1>1, <1>3 DEF KeepInv
  <2> QED
    BY <1>3, <1>4, <2>1, BatchLoses
<1>6. \A i : WasCommitted(i)' <=> WasCommitted(i)
  BY <1>4 DEF WasCommitted
<1>7. DrainInv'
  BY <1>1, <1>3, <1>4, <1>6 DEF DrainInv, WasCommitted
<1> QED
  BY <1>5, <1>7 DEF LostInv

\* Sequence r has the elements of s but number w, each once: element k of r is
\* element f[k] of s.
TakenFrom(r, s, w, f) ==
    \A k, l \in 1..Len(r) :
        /\ f[k] \in 1..Len(s) /\ f[k] # w
        /\ r[k] = s[f[k]]
        /\ f[k] = f[l] => k = l

\* Erasing an element keeps the others, each once.
LEMMA ErasedFrom ==
    ASSUME NEW S, NEW s \in Seq(S), NEW w \in 1..Len(s)
    PROVE  \E f : TakenFrom(RemoveIndex(s, w), s, w, f)
<1> DEFINE f == [k \in 1..(Len(s) - 1) |-> IF k < w THEN k ELSE k + 1]
<1>1. Len(s) - 1 \in Nat /\ Len(s) \in Nat /\ w \in Nat
  OBVIOUS
<1>2. Len(RemoveIndex(s, w)) = Len(s) - 1
  BY <1>1 DEF RemoveIndex
<1>3. \A k \in 1..(Len(s) - 1) : f[k] = IF k < w THEN k ELSE k + 1
  OBVIOUS
<1>4. \A k \in 1..(Len(s) - 1) : RemoveIndex(s, w)[k] = IF k < w THEN s[k] ELSE s[k + 1]
  BY DEF RemoveIndex
<1> HIDE DEF f
<1>5. ASSUME NEW k \in 1..(Len(s) - 1), NEW l \in 1..(Len(s) - 1)
      PROVE  f[k] \in 1..Len(s) /\ f[k] # w /\ RemoveIndex(s, w)[k] = s[f[k]]
             /\ (f[k] = f[l] => k = l)
  <2>1. /\ k < w => f[k] = k /\ RemoveIndex(s, w)[k] = s[k]
        /\ ~(k < w) => f[k] = k + 1 /\ RemoveIndex(s, w)[k] = s[k + 1]
        /\ l < w => f[l] = l
        /\ ~(l < w) => f[l] = l + 1
    BY <1>3, <1>4
  <2>2. k \in Nat /\ l \in Nat /\ 1 <= k /\ k <= Len(s) - 1 /\ 1 <= w /\ w <= Len(s)
    BY <1>1
  <2>3. f[k] \in 1..Len(s) /\ f[k] # w /\ (f[k] = f[l] => k = l)
    BY <1>1, <2>1, <2>2
  <2> QED
    BY <2>1, <2>3
<1>6. TakenFrom(RemoveIndex(s, w), s, w, f)
  BY <1>2, <1>5 DEF TakenFrom
<1> QED
  BY <1>6

\* What one iteration of the second loop does to the batch: element w of the
\* operations it has accepted moves to the results.
Moves(w, idx, f) ==
    /\ call'.phase = "commit" /\ call'.ops = call.ops
    /\ TakenFrom(call'.pending, call.pending, w, f)
    /\ \E S : call'.committed \in Seq(S)
    /\ \A i : WasCommitted(i)' <=> WasCommitted(i) \/ i = idx

LEMMA CommitMoves ==
    ASSUME TypeOK, DrainInv, DrainCommit
    PROVE  \E w, idx, f, line :
              /\ w \in 1..Len(call.pending) /\ idx = call.pending[w].index /\ Moves(w, idx, f)
              /\ line.op = call.pending[w].op
              /\ line.fault # "ENQUEUE_NON_MONOTONIC_REQ_TIME" /\ Adds(line)
<1>1. PICK w, tie, response :
      /\ w \in Committable /\ execute_commit(call.pending[w].op, tie)
      /\ call' = [call EXCEPT
            !.pending = RemoveIndex(@, w),
            !.committed = Append(@, [index |-> call.pending[w].index, op |-> call.pending[w].op,
                                     response |-> response])]
  BY DEF DrainCommit, BatchCommit
<1>2. w \in 1..Len(call.pending)
  BY <1>1 DEF Committable
<1>3. PICK idx : idx = call.pending[w].index
  OBVIOUS
<1>4. PICK entry : entry.index = idx /\ entry =
          [index |-> call.pending[w].index, op |-> call.pending[w].op, response |-> response]
  BY <1>3
<1>5. call.phase = "commit" /\ DOMAIN call = {"phase", "ops", "next", "pending", "committed"}
  BY DEF DrainCommit, BatchCommit, TypeOK
<1>6. /\ call'.phase = "commit" /\ call'.ops = call.ops
      /\ call'.pending = RemoveIndex(call.pending, w)
      /\ call'.committed = Append(call.committed, entry)
  BY <1>1, <1>4, <1>5
<1>7. PICK f : TakenFrom(call'.pending, call.pending, w, f)
  <2>1. call.pending \in Seq([index : Nat, op : HostOp])
    BY DEF TypeOK
  <2> QED
    BY <1>2, <1>6, <2>1, ErasedFrom
<1>8. PICK S : call.committed \in Seq(S)
  BY DEF DrainInv
<1>9. PICK n : n = Len(call.committed) + 1
  OBVIOUS
<1>10. /\ call'.committed \in Seq(S \cup {entry}) /\ Len(call'.committed) = n
       /\ n \in 1..n /\ \A k \in 1..n : k = n \/ k \in 1..Len(call.committed)
       /\ \A k \in 1..Len(call.committed) : k \in 1..n /\ call'.committed[k] = call.committed[k]
       /\ call'.committed[n] = entry
  <2>1. /\ Append(call.committed, entry) \in Seq(S \cup {entry})
        /\ Len(call.committed) \in Nat /\ Len(Append(call.committed, entry)) = n
        /\ \A k \in 1..Len(call.committed) : Append(call.committed, entry)[k] = call.committed[k]
        /\ Append(call.committed, entry)[n] = entry
    BY <1>8, <1>9, AppendMore
  <2> QED
    BY <1>6, <1>9, <2>1
<1>11. \A i : WasCommitted(i)' <=> WasCommitted(i) \/ i = idx
  BY <1>4, <1>10 DEF WasCommitted
<1>12. PICK line : /\ line.op = call.pending[w].op
                   /\ line.fault # "ENQUEUE_NON_MONOTONIC_REQ_TIME" /\ Adds(line)
  BY <1>1, ExecuteAdds
<1>13. Moves(w, idx, f)
  BY <1>6, <1>7, <1>10, <1>11 DEF Moves
<1> QED
  BY <1>2, <1>3, <1>12, <1>13

\* The second loop executes an operation.
LEMMA CommitLoses ==
    ASSUME TypeOK, LostInv, DrainCommit
    PROVE  LostInv'
<1>1. NumbersInv /\ AnswersInv /\ CoverInv /\ DrainInv /\ KeepInv
  BY DEF LostInv
<1>2. PICK w, idx, f, line :
              /\ w \in 1..Len(call.pending) /\ idx = call.pending[w].index /\ Moves(w, idx, f)
              /\ line.op = call.pending[w].op
              /\ line.fault # "ENQUEUE_NON_MONOTONIC_REQ_TIME" /\ Adds(line)
  BY <1>1, CommitMoves
<1>3. call.phase = "commit" /\ UNCHANGED <<pending_ops, emitted, direct, scan, remaining>>
  BY DEF DrainCommit, BatchCommit, keepVars
<1>4. /\ idx \in 1..Len(pending_ops) /\ ~WasCommitted(idx) /\ line.op = pending_ops[idx]
      /\ call.ops = pending_ops /\ scan = 1 /\ remaining = <<>>
  BY <1>1, <1>2, <1>3 DEF DrainInv, KeepInv
<1>5. \A i : WasCommitted(i)' <=> WasCommitted(i) \/ i = idx
  BY <1>2 DEF Moves
<1>6. PICK n : n = Len(trace) + 1
  OBVIOUS
<1>7. /\ \A i \in 1..Len(trace') : i = n \/ i \in 1..Len(trace)
      /\ \A i \in 1..Len(trace) : trace'[i] = trace[i]
      /\ trace'[n] = line /\ n \in 1..Len(trace')
  BY <1>2, <1>6 DEF Adds
<1>8. \A i \in 1..Len(trace) : i \in 1..Len(trace') /\ (Answers(i)' <=> Answers(i))
  BY <1>2, <1>6, <1>7 DEF Answers, Adds
<1>9. Answers(n)' /\ trace'[n].op = pending_ops[idx]
  BY <1>2, <1>4, <1>7 DEF Answers
<1>10. Issued' = Issued
  BY <1>3 DEF Issued
<1>11. \A j \in 1..Len(trace) : Answers(j) => trace[j].op.seq # pending_ops[idx].seq
  BY <1>1, <1>4 DEF AnswersInv
<1>12. NumbersInv'
  <2>1. \A i \in 1..Len(trace') : trace'[i].op.seq < Issued'
    BY <1>1, <1>4, <1>7, <1>9, <1>10 DEF NumbersInv
  <2>2. ASSUME NEW i \in 1..Len(trace'), NEW j \in 1..Len(trace'),
               Answers(i)', Answers(j)', trace'[i].op.seq = trace'[j].op.seq
        PROVE  i = j
    BY <1>1, <1>7, <1>8, <1>9, <1>11, <2>2 DEF NumbersInv
  <2> QED
    BY <1>1, <1>3, <1>10, <2>1, <2>2 DEF NumbersInv
<1>13. AnswersInv'
  <2>1. \A i \in 1..Len(pending_ops) : pending_ops[i].seq = pending_ops[idx].seq => i = idx
    BY <1>1, <1>4 DEF NumbersInv
  <2>2. ASSUME NEW i \in 1..Len(pending_ops), NEW j \in 1..Len(trace'),
               Answers(j)', trace'[j].op.seq = pending_ops[i].seq
        PROVE  WasCommitted(i)'
    BY <1>1, <1>5, <1>7, <1>8, <1>9, <2>1, <2>2 DEF AnswersInv
  <2>3. ASSUME NEW i \in 1..Len(pending_ops), WasCommitted(i)'
        PROVE  \E j \in 1..Len(trace') : Answers(j)' /\ trace'[j].op = pending_ops[i]
    BY <1>1, <1>5, <1>7, <1>8, <1>9, <2>3 DEF AnswersInv
  <2> QED
    BY <1>3, <2>2, <2>3 DEF AnswersInv
<1>14. CoverInv'
  BY <1>1, <1>3, <1>7, <1>8 DEF CoverInv
<1>15. DrainInv'
  <2>1. /\ call'.phase = "commit" /\ call'.ops = pending_ops'
        /\ \E S : call'.committed \in Seq(S)
    BY <1>2, <1>3, <1>4 DEF Moves
  <2>2. ASSUME NEW k \in 1..Len(call'.pending)
        PROVE  /\ call'.pending[k].index \in 1..Len(pending_ops')
               /\ call'.pending[k].op = pending_ops'[call'.pending[k].index]
               /\ \E i : i = call'.pending[k].index /\ ~WasCommitted(i) /\ i # idx
    <3>1. /\ f[k] \in 1..Len(call.pending) /\ f[k] # w
          /\ call'.pending[k] = call.pending[f[k]]
      BY <1>2 DEF Moves, TakenFrom
    <3>2. /\ call.pending[f[k]].index \in 1..Len(pending_ops)
          /\ call.pending[f[k]].op = pending_ops[call.pending[f[k]].index]
          /\ ~WasCommitted(call.pending[f[k]].index)
          /\ call.pending[f[k]].index = call.pending[w].index => f[k] = w
      BY <1>1, <1>2, <3>1 DEF DrainInv
    <3>3. PICK i : i = call.pending[f[k]].index
      OBVIOUS
    <3>4. call'.pending[k].index = i
      BY <3>1, <3>3
    <3> QED
      BY <1>2, <1>3, <3>1, <3>2, <3>3, <3>4
  <2>3. ASSUME NEW k \in 1..Len(call'.pending), NEW l \in 1..Len(call'.pending),
               call'.pending[k].index = call'.pending[l].index
        PROVE  k = l
    <3>1. /\ f[k] \in 1..Len(call.pending) /\ f[l] \in 1..Len(call.pending)
          /\ call'.pending[k] = call.pending[f[k]] /\ call'.pending[l] = call.pending[f[l]]
          /\ f[k] = f[l] => k = l
      BY <1>2 DEF Moves, TakenFrom
    <3>2. call.pending[f[k]].index = call.pending[f[l]].index
      BY <2>3, <3>1
    <3>3. f[k] = f[l]
      BY <1>1, <3>1, <3>2 DEF DrainInv
    <3> QED
      BY <3>1, <3>3
  <2>4. \A k \in 1..Len(call'.pending) : ~WasCommitted(call.pending[k].index)'
    <3>1. ASSUME NEW k \in 1..Len(call'.pending) PROVE ~WasCommitted(call.pending[k].index)'
      <4>1. PICK i : i = call'.pending[k].index /\ ~WasCommitted(i) /\ i # idx
        BY <2>2
      <4>2. ~WasCommitted(i)'
        BY <1>5, <4>1
      <4> QED
        BY <4>1, <4>2 DEF WasCommitted
    <3> QED
      BY <3>1
  <2> QED
    BY <2>1, <2>2, <2>3, <2>4 DEF DrainInv
<1>16. KeepInv'
  <2>1. call'.phase = "commit" /\ scan' = 1 /\ remaining' = <<>> /\ Len(<<>>) = 0
    BY <1>2, <1>3, <1>4 DEF Moves
  <2> QED
    BY <1>3, <2>1, NumberTypes DEF KeepInv
<1> QED
  BY <1>12, <1>13, <1>14, <1>15, <1>16 DEF LostInv

\* One iteration of commit_pending's compaction.
LEMMA KeepLoses ==
    ASSUME TypeOK, LostInv, DrainKeep
    PROVE  LostInv'
<1>1. NumbersInv /\ AnswersInv /\ CoverInv /\ DrainInv /\ KeepInv
  BY DEF LostInv
<1>2. /\ call.phase = "return" /\ scan <= Len(pending_ops) /\ scan' = scan + 1
      /\ remaining' = IF WasCommitted(scan) THEN remaining ELSE Append(remaining, pending_ops[scan])
      /\ UNCHANGED <<pending_ops, emitted, direct, trace, call>>
      /\ scan \in Nat \ {0} /\ remaining \in Seq(HostOp) /\ Len(remaining) \in Nat
  BY DEF DrainKeep, arbVars, traceVars, TypeOK
<1>3. Issued' = Issued /\ \A i : (Answers(i)' <=> Answers(i)) /\ (WasCommitted(i)' <=> WasCommitted(i))
  BY <1>2 DEF Issued, Answers, WasCommitted
<1>4. NumbersInv'
  BY <1>1, <1>2, <1>3 DEF NumbersInv
<1>5. AnswersInv'
  BY <1>1, <1>2, <1>3 DEF AnswersInv
<1>6. CoverInv'
  BY <1>1, <1>2, <1>3 DEF CoverInv
<1>7. DrainInv'
  BY <1>1, <1>2, <1>3 DEF DrainInv, WasCommitted
<1>8. PICK m : m = scan
  OBVIOUS
<1>9. /\ m \in 1..Len(pending_ops) /\ scan' - 1 = m /\ scan' <= Len(pending_ops) + 1
      /\ \A i \in 1..m : i = m \/ (i \in 1..(m - 1) /\ i # m)
      /\ \A i \in 1..(m - 1) : i \in 1..m /\ i \in 1..Len(pending_ops)
  BY <1>2, <1>8, NumberTypes
<1>10. call'.phase = "return" /\ pending_ops' = pending_ops /\ 1..(scan' - 1) = 1..m
  BY <1>2, <1>9
<1>11. CASE WasCommitted(scan)
  <2>1. remaining' = remaining /\ WasCommitted(m)
    BY <1>2, <1>8, <1>11
  <2>2. ASSUME NEW k \in 1..Len(remaining)
        PROVE  \E i \in 1..m : remaining[k] = pending_ops[i] /\ ~WasCommitted(i)
    BY <1>1, <1>8, <1>9 DEF KeepInv
  <2>3. ASSUME NEW i \in 1..m, ~WasCommitted(i)
        PROVE  \E k \in 1..Len(remaining) : remaining[k] = pending_ops[i]
    BY <1>1, <1>8, <1>9, <2>1, <2>3 DEF KeepInv
  <2>4. \A k, l \in 1..Len(remaining) : remaining[k].seq = remaining[l].seq => k = l
    BY <1>1 DEF KeepInv
  <2>5. KeepInv'
    BY <1>2, <1>3, <1>9, <1>10, <2>1, <2>2, <2>3, <2>4 DEF KeepInv
  <2> QED
    BY <1>4, <1>5, <1>6, <1>7, <2>5 DEF LostInv
<1>12. CASE ~WasCommitted(scan)
  <2>1. PICK n : n = Len(remaining) + 1
    OBVIOUS
  <2>2. ~WasCommitted(m)
    BY <1>8, <1>12
  <2>3. /\ \A k \in 1..Len(remaining') : k = n \/ k \in 1..Len(remaining)
        /\ \A k \in 1..Len(remaining) : k \in 1..Len(remaining') /\ remaining'[k] = remaining[k]
        /\ n \in 1..Len(remaining') /\ remaining'[n] = pending_ops[m]
    BY <1>2, <1>8, <1>12, <2>1, AppendMore
  <2>4. ASSUME NEW k \in 1..Len(remaining')
        PROVE  \E i \in 1..m : remaining'[k] = pending_ops[i] /\ ~WasCommitted(i)
    <3>1. CASE k = n
      BY <1>9, <2>2, <2>3, <3>1
    <3>2. CASE k \in 1..Len(remaining)
      BY <1>1, <1>8, <1>9, <2>3, <3>2 DEF KeepInv
    <3> QED
      BY <2>3, <3>1, <3>2
  <2>5. ASSUME NEW i \in 1..m, ~WasCommitted(i)
        PROVE  \E k \in 1..Len(remaining') : remaining'[k] = pending_ops[i]
    BY <1>1, <1>8, <1>9, <2>3, <2>5 DEF KeepInv
  <2>6. \A k \in 1..Len(remaining) : remaining[k].seq # pending_ops[m].seq
    <3>1. ASSUME NEW k \in 1..Len(remaining), remaining[k].seq = pending_ops[m].seq PROVE FALSE
      <4>1. PICK i \in 1..(m - 1) : remaining[k] = pending_ops[i]
        BY <1>1, <1>8 DEF KeepInv
      <4>2. i = m
        BY <1>1, <1>9, <3>1, <4>1 DEF NumbersInv
      <4> QED
        BY <1>9, <4>1, <4>2
    <3> QED
      BY <3>1
  <2>7. ASSUME NEW k \in 1..Len(remaining'), NEW l \in 1..Len(remaining'),
               remaining'[k].seq = remaining'[l].seq
        PROVE  k = l
    BY <1>1, <2>3, <2>6, <2>7 DEF KeepInv
  <2>8. /\ \A k \in 1..Len(remaining') : \E i \in 1..(scan' - 1) :
             remaining'[k] = pending_ops'[i] /\ ~WasCommitted(i)'
        /\ \A i \in 1..(scan' - 1) :
             ~WasCommitted(i)' => \E k \in 1..Len(remaining') : remaining'[k] = pending_ops'[i]
        /\ \A k, l \in 1..Len(remaining') : remaining'[k].seq = remaining'[l].seq => k = l
    BY <1>3, <1>10, <2>4, <2>5, <2>7
  <2>9. KeepInv'
    BY <1>9, <1>10, <2>8 DEF KeepInv
  <2> QED
    BY <1>4, <1>5, <1>6, <1>7, <2>9 DEF LostInv
<1> QED
  BY <1>11, <1>12

\* commit_pending replaces the caller's vector by what it kept.
LEMMA FinishLoses ==
    ASSUME TypeOK, LostInv, DrainFinish
    PROVE  LostInv'
<1>1. NumbersInv /\ AnswersInv /\ CoverInv /\ DrainInv /\ KeepInv
  BY DEF LostInv
<1>2. /\ scan > Len(pending_ops) /\ call' = IdleCall /\ pending_ops' = remaining
      /\ scan' = 1 /\ remaining' = <<>> /\ UNCHANGED <<emitted, direct, trace>>
      /\ scan \in Nat \ {0} /\ Len(remaining) \in Nat
  BY DEF DrainFinish, BatchFinish, traceVars, TypeOK
<1>3. 1..(scan - 1) = 1..Len(pending_ops)
  BY <1>1, <1>2, NumberTypes DEF KeepInv
<1>4. \A k \in 1..Len(remaining) : \E i \in 1..Len(pending_ops) :
          remaining[k] = pending_ops[i] /\ ~WasCommitted(i)
  BY <1>1, <1>3 DEF KeepInv
<1>5. \A i \in 1..Len(pending_ops) :
          ~WasCommitted(i) => \E k \in 1..Len(remaining) : remaining[k] = pending_ops[i]
  BY <1>1, <1>3 DEF KeepInv
<1>6. Issued' = Issued /\ \A i : (Answers(i)' <=> Answers(i))
  BY <1>2 DEF Issued, Answers
<1>7. /\ call'.phase = "idle" /\ call'.committed = <<>> /\ call'.pending = <<>>
      /\ Len(<<>>) = 0 /\ <<>> \in Seq({})
  BY <1>2 DEF IdleCall
<1>8. \A i : ~WasCommitted(i)'
  BY <1>7 DEF WasCommitted
<1>9. NumbersInv'
  <2>1. \A k \in 1..Len(remaining) : remaining[k].seq < Issued
    BY <1>1, <1>4 DEF NumbersInv
  <2>2. \A k, l \in 1..Len(remaining) : remaining[k].seq = remaining[l].seq => k = l
    BY <1>1 DEF KeepInv
  <2> QED
    BY <1>1, <1>2, <1>6, <2>1, <2>2 DEF NumbersInv
<1>10. AnswersInv'
  <2>1. ASSUME NEW k \in 1..Len(remaining), NEW j \in 1..Len(trace),
               Answers(j), trace[j].op.seq = remaining[k].seq
        PROVE  FALSE
    BY <1>1, <1>4, <2>1 DEF AnswersInv
  <2> QED
    BY <1>2, <1>6, <1>8, <2>1 DEF AnswersInv
<1>11. CoverInv'
  <2>1. ASSUME NEW e \in 1..Len(emitted)
        PROVE  \/ \E k \in 1..Len(remaining) : remaining[k] = emitted[e]
               \/ \E j \in 1..Len(trace) : Answers(j) /\ trace[j].op = emitted[e]
    <3>1. CASE \E i \in 1..Len(pending_ops) : pending_ops[i] = emitted[e]
      BY <1>1, <1>5, <3>1 DEF AnswersInv
    <3> QED
      BY <1>1, <3>1 DEF CoverInv
  <2> QED
    BY <1>2, <1>6, <2>1 DEF CoverInv
<1>12. DrainInv'
  BY <1>2, <1>7 DEF DrainInv
<1>13. KeepInv'
  BY <1>2, <1>7 DEF KeepInv
<1> QED
  BY <1>9, <1>10, <1>11, <1>12, <1>13 DEF LostInv

\* No step of the arbiter or of its callers leaves LostInv.
LEMMA LostStep ==
    ASSUME TypeOK, LostInv, [Next]_vars
    PROVE  LostInv'
<1>1. ASSUME NEW t \in Templates, NEW r \in ReqTimes, Emit(t, r) \/ DirectCommit(t, r)
      PROVE  LostInv'
  BY <1>1, EmitLoses, DirectLoses
<1>2. ASSUME NEW c \in CpuIds, NEW t \in Watermarks, Publish(c, t)
      PROVE  LostInv'
  BY <1>2, QuietLoses DEF Publish, update_progress, traceVars, hostVars, keepVars
<1>3. CASE Drain
  BY <1>3, DrainLoses
<1>4. CASE DrainEnqueue
  BY <1>4, EnqueueLoses, PhaseLoses DEF DrainEnqueue
<1>5. CASE DrainCommit
  BY <1>5, CommitLoses
<1>6. CASE DrainStop
  BY <1>6, PhaseLoses DEF DrainStop
<1>7. CASE DrainKeep
  BY <1>7, KeepLoses
<1>8. CASE DrainFinish
  BY <1>8, FinishLoses
<1>9. ASSUME NEW enabled \in BOOLEAN, SetHaltOnFault(enabled)
      PROVE  LostInv'
  BY <1>9, QuietLoses DEF SetHaltOnFault, set_halt_on_fault, hostVars, keepVars
<1>10. CASE UNCHANGED vars
  BY <1>10, QuietLoses DEF vars, arbVars, traceVars, hostVars, keepVars
<1> QED
  BY <1>1, <1>2, <1>3, <1>4, <1>5, <1>6, <1>7, <1>8, <1>9, <1>10 DEF Next

\* Between calls the vector and the answers share no operation.
LEMMA NothingLostFromInv ==
    ASSUME LostInv
    PROVE  NothingLost
<1> SUFFICES ASSUME call.phase = "idle", NEW e \in 1..Len(emitted)
             PROVE  Cardinality({i \in 1..Len(pending_ops) : pending_ops[i] = emitted[e]})
                    + Cardinality({i \in 1..Len(trace) :
                            /\ trace[i].op = emitted[e]
                            /\ trace[i].fault # "ENQUEUE_NON_MONOTONIC_REQ_TIME"}) = 1
  BY DEF NothingLost
<1> DEFINE waiting == {i \in 1..Len(pending_ops) : pending_ops[i] = emitted[e]}
           answered == {i \in 1..Len(trace) :
                            /\ trace[i].op = emitted[e]
                            /\ trace[i].fault # "ENQUEUE_NON_MONOTONIC_REQ_TIME"}
<1>1. NumbersInv /\ AnswersInv /\ CoverInv /\ DrainInv
  BY DEF LostInv
<1>2. \A i : ~WasCommitted(i)
  BY <1>1, IdleCommitted
<1>3. waiting = {} \/ answered = {}
  BY <1>1, <1>2 DEF AnswersInv, Answers
<1>4. (\E i : waiting = {i}) \/ (\E i : answered = {i})
  <2>1. ASSUME NEW i \in 1..Len(pending_ops), pending_ops[i] = emitted[e]
        PROVE  waiting = {i}
    BY <1>1, <2>1 DEF NumbersInv
  <2>2. ASSUME NEW j \in 1..Len(trace), Answers(j), trace[j].op = emitted[e]
        PROVE  answered = {j}
    BY <1>1, <2>2 DEF NumbersInv, Answers
  <2> QED
    BY <1>1, <2>1, <2>2 DEF CoverInv
<1> HIDE DEF waiting, answered
<1>5. (\A i : Cardinality({i}) = 1) /\ Cardinality({}) = 0
  BY FS_EmptySet, FS_Singleton
<1>6. Cardinality(waiting) + Cardinality(answered) = 1
  <2>1. CASE waiting = {}
    <3>1. PICK i : answered = {i}
      BY <1>4, <2>1
    <3>2. Cardinality(answered) = 1 /\ Cardinality(waiting) = 0
      BY <1>5, <2>1, <3>1
    <3> QED
      BY <3>2
  <2>2. CASE answered = {}
    <3>1. PICK i : waiting = {i}
      BY <1>4, <2>2
    <3>2. Cardinality(waiting) = 1 /\ Cardinality(answered) = 0
      BY <1>5, <2>2, <3>1
    <3> QED
      BY <3>2
  <2> QED
    BY <1>3, <2>1, <2>2
<1> QED
  BY <1>6 DEF waiting, answered

\* LostInv holds throughout.
LEMMA LostAlways == Spec => [](TypeOK /\ LostInv)
<1>1. Init => LostInv
  <2> SUFFICES ASSUME Init PROVE LostInv
    OBVIOUS
  <2>1. /\ pending_ops = <<>> /\ emitted = <<>> /\ trace = <<>> /\ call = IdleCall
        /\ scan = 1 /\ remaining = <<>>
    BY DEF Init, ArbInit, ArbInitWith
  <2>2. /\ call.phase = "idle" /\ call.pending = <<>> /\ call.committed = <<>>
        /\ Len(<<>>) = 0 /\ <<>> \in Seq({})
    BY <2>1 DEF IdleCall
  <2>3. NumbersInv /\ AnswersInv /\ CoverInv
    BY <2>1, <2>2 DEF NumbersInv, AnswersInv, CoverInv
  <2>4. DrainInv
    BY <2>1, <2>2 DEF DrainInv
  <2>5. KeepInv
    BY <2>1, <2>2 DEF KeepInv
  <2> QED
    BY <2>3, <2>4, <2>5 DEF LostInv
<1>2. TypeOK /\ LostInv /\ [Next]_vars => LostInv'
  BY LostStep
<1> QED
  BY <1>1, <1>2, TypeCorrect, PTL DEF Spec

\* Whatever the callers put into the pending vector, and however a batch ends
\* (rejections in either loop, operations beyond the horizon, a halt), every
\* operation given to commit_pending is either still in the vector or has been
\* executed or rejected by execute_commit exactly once.
THEOREM NothingIsLost == Spec => []NothingLost
<1>1. LostInv => NothingLost
  BY NothingLostFromInv
<1> QED
  BY <1>1, LostAlways, PTL

-----------------------------------------------------------------------------
(* The round robin *)

\* An operation goes by the slot of the CPU or the DMA that it names
OwnSlot(op) == producer_slot(op) = IF op.cpu < 0 THEN 2 ELSE op.cpu

\* Every producer has at most one operation in the vector, under its own name:
\* the callers of src/core/emulator.cpp
OnePerProducer == MaxOutstanding = 1 /\ \A t \in Templates : OwnSlot(t)

SlotsInv ==
    /\ \A i \in 1..Len(pending_ops) : OwnSlot(pending_ops[i])
    /\ \A i, j \in 1..Len(pending_ops) :
          producer_slot(pending_ops[i]) = producer_slot(pending_ops[j]) => i = j

\* The arbiter remembers the winner of the last tie
TiesInv ==
    /\ TiesAlternate
    /\ ties # <<>> => last_grant_cpu = ties[Len(ties)]

\* How pick_next ranks operations that could start at the same tick
Urgency(op) == 2 * priority_of(op) + (IF op.cpu = Preferred THEN 1 ELSE 0)

\* x could start earlier, or at the same tick with more urgency
Outranks(x, y) == Start(x) < Start(y) \/ (Start(x) = Start(y) /\ Urgency(x) > Urgency(y))

\* Between producers the comparison of pick_next is that of a rank.
LEMMA BeatsByRank ==
    ASSUME bus_free_time \in Nat, last_grant_cpu \in CpuIds,
           NEW x \in HostOp, NEW y \in HostOp, OwnSlot(x), OwnSlot(y),
           producer_slot(x) # producer_slot(y)
    PROVE  /\ Beats(x, y) <=> Outranks(x, y)
           /\ Start(x) \in Nat /\ Start(y) \in Nat
           /\ Urgency(x) \in Nat /\ Urgency(y) \in Nat /\ Urgency(x) # Urgency(y)
<1>1. /\ x.cpu \in {-1, 0, 1} /\ y.cpu \in {-1, 0, 1} /\ x.cpu # y.cpu
      /\ x.req \in Nat /\ y.req \in Nat
  BY DEF OwnSlot, HostOp, BusOp, DmaId, CpuIds
<1>2. Start(x) \in Nat /\ Start(y) \in Nat
  BY <1>1 DEF Start
<1>3. /\ priority_of(x) \in {0, 1, 2} /\ priority_of(y) \in {0, 1, 2}
      /\ x.cpu < 0 <=> priority_of(x) = 2
      /\ y.cpu < 0 <=> priority_of(y) = 2
  BY <1>1 DEF priority_of
<1>4. Preferred \in {0, 1}
  BY DEF Preferred
<1>5. Urgency(x) \in Nat /\ Urgency(y) \in Nat /\ Urgency(x) # Urgency(y)
  BY <1>1, <1>3, <1>4 DEF Urgency
<1>6. /\ priority_of(x) > priority_of(y) => Urgency(x) > Urgency(y)
      /\ priority_of(x) < priority_of(y) => ~(Urgency(x) > Urgency(y))
      /\ priority_of(x) = priority_of(y) =>
           /\ is_cpu(x.cpu) /\ is_cpu(y.cpu)
           /\ Urgency(x) > Urgency(y) <=> x.cpu = Preferred
  BY <1>1, <1>3, <1>4 DEF Urgency, is_cpu, CpuIds
<1>7. Beats(x, y) <=> Outranks(x, y)
  BY <1>1, <1>2, <1>3, <1>6 DEF Beats, Outranks
<1> QED
  BY <1>2, <1>5, <1>7

\* Operations of different producers, each under its own name
Apart(ops, C) ==
    /\ \A i \in C : ops[i] \in HostOp /\ OwnSlot(ops[i])
    /\ \A i, j \in C : producer_slot(ops[i]) = producer_slot(ops[j]) => i = j

\* Of operations of different producers pick_next finds the one that beats all
\* the others, wherever it stands.
LEMMA PickIsBest ==
    ASSUME bus_free_time \in Nat, last_grant_cpu \in CpuIds,
           NEW ops, NEW n \in Nat, Len(ops) = n, NEW C \in SUBSET (1..n), C # {}, Apart(ops, C),
           NEW w, w = pick_next(ops, C)
    PROVE  w \in C /\ \A i \in C \ {w} : Outranks(ops[w], ops[i])
<1> DEFINE V(i, j) == Outranks(ops[i], ops[j])
           s(i) == Start(ops[i])
           u(i) == Urgency(ops[i])
<1>1. PICK best : PickRun(best, ops, n, C) /\ w = best[n]
  BY PickRuns
<1>2. ASSUME NEW i \in C, NEW j \in C, i # j
      PROVE  /\ Beats(ops[i], ops[j]) <=> V(i, j)
             /\ s(i) \in Nat /\ s(j) \in Nat /\ u(i) \in Nat /\ u(j) \in Nat /\ u(i) # u(j)
  BY <1>2, BeatsByRank DEF Apart
<1>3. \A i, j \in C : V(i, j) <=> s(i) < s(j) \/ (s(i) = s(j) /\ u(i) > u(j))
  BY DEF Outranks
<1>4. \A k \in 1..n : best[k] = IF k \in C /\ Beats(ops[k], ops[best[k - 1]]) THEN k ELSE best[k - 1]
  BY <1>1, Zenon DEF PickRun
<1>5. best \in [0..n -> C]
  BY <1>1, Zenon DEF PickRun
<1>6. ASSUME NEW i \in C, NEW j \in C, NEW k \in C, i # j, j # k, V(i, j), V(j, k)
      PROVE  V(i, k)
  <2>1. s(i) \in Nat /\ s(j) \in Nat /\ s(k) \in Nat /\ u(i) \in Nat /\ u(j) \in Nat /\ u(k) \in Nat
    BY <1>2, <1>6
  <2> HIDE DEF s, u, V
  <2> QED
    BY <1>3, <1>6, <2>1
<1>7. ASSUME NEW i \in C, NEW j \in C, i # j PROVE V(i, j) \/ V(j, i)
  <2>1. s(i) \in Nat /\ s(j) \in Nat /\ u(i) \in Nat /\ u(j) \in Nat /\ u(i) # u(j)
    BY <1>2, <1>7
  <2> HIDE DEF s, u, V
  <2> QED
    BY <1>3, <2>1
<1>8. \A k \in 1..n : /\ k \in C /\ k # best[k - 1] /\ V(k, best[k - 1]) => best[k] = k
                      /\ ~(k \in C /\ k # best[k - 1] /\ V(k, best[k - 1])) => best[k] = best[k - 1]
  <2> TAKE k \in 1..n
  <2>1. best[k - 1] \in C
    BY <1>5
  <2> HIDE DEF V
  <2> QED
    BY <1>2, <1>4, <2>1
<1> HIDE DEF V, s, u
<1> DEFINE Best(k) == \A i \in C : i <= k => i = best[k] \/ V(best[k], i)
           B == {k \in 0..n : ~Best(k)}
<1>9. Best(0)
  OBVIOUS
<1>10. ASSUME NEW k \in 1..n, Best(k - 1) PROVE Best(k)
  <2>1. SUFFICES ASSUME NEW i \in C, i <= k PROVE i = best[k] \/ V(best[k], i)
    OBVIOUS
  <2> k - 1 \in 0..n
    OBVIOUS
  <2>2. PICK b \in C : b = best[k - 1]
    BY <1>5
  <2>3. i = k \/ i <= k - 1
    BY <2>1
  <2>4. i <= k - 1 => i = b \/ V(b, i)
    BY <1>10, <2>2
  <2>5. CASE k \in C /\ k # b /\ V(k, b)
    <3>1. best[k] = k
      BY <1>8, <2>2, <2>5
    <3> QED
      BY <1>6, <2>3, <2>4, <2>5, <3>1
  <2>6. CASE ~(k \in C /\ k # b /\ V(k, b))
    <3>1. best[k] = b
      BY <1>8, <2>2, <2>6
    <3>2. k \in C /\ k # b => V(b, k)
      BY <1>7, <2>6
    <3> QED
      BY <2>3, <2>4, <3>1, <3>2
  <2> QED
    BY <2>5, <2>6
<1>11. Best(n)
  <2> HIDE DEF Best
  <2>1. n \in 0..n
    OBVIOUS
  <2> SUFFICES ASSUME B # {} PROVE FALSE
    BY <2>1, Zenon
  <2> HIDE DEF B
  <2>2. B \subseteq Nat
    BY DEF B
  <2>3. PICK k \in B : \A y \in B : k <= y
    BY <2>2, LeastElement, Zenon
  <2>4. k \in 0..n /\ ~Best(k)
    BY <2>3, Zenon DEF B
  <2>5. k # 0
    BY <1>9, <2>4, Zenon
  <2>6. k \in 1..n /\ k - 1 \in 0..n /\ ~(k <= k - 1)
    BY <2>4, <2>5
  <2>7. Best(k - 1)
    BY <2>3, <2>6, Zenon DEF B
  <2> QED
    BY <1>10, <2>4, <2>6, <2>7, Zenon
<1>12. w \in C /\ \A i \in C \ {w} : V(w, i)
  BY <1>1, <1>5, <1>11
<1> QED
  BY <1>12 DEF V

\* An operation made from a template of OnePerProducer keeps its slot.
LEMMA MadeOwnSlot ==
    ASSUME OnePerProducer, NEW t \in Templates, NEW r, NEW n
    PROVE  OwnSlot(MakeOp(t, r, n))
  BY DEF OnePerProducer, OwnSlot, MakeOp, producer_slot

\* A producer emits only while none of its operations is in the vector.
LEMMA EmitSlots ==
    ASSUME OnePerProducer, TypeOK, SlotsInv,
           NEW t \in Templates, NEW r \in ReqTimes, Emit(t, r)
    PROVE  SlotsInv'
<1>1. PICK op : op = MakeOp(t, r, Len(emitted) + direct)
  OBVIOUS
<1>2. Outstanding(producer_slot(op)) < 1 /\ pending_ops' = Append(pending_ops, op)
  BY <1>1 DEF Emit, OnePerProducer
<1>3. OwnSlot(op)
  BY <1>1, MadeOwnSlot
<1>4. pending_ops \in Seq(HostOp) /\ Len(pending_ops) \in Nat
  BY DEF TypeOK
<1>5. PICK n \in Nat : n = Len(pending_ops)
  BY <1>4
<1> DEFINE mine == {i \in 1..n : producer_slot(pending_ops[i]) = producer_slot(op)}
<1>6. \A i \in 1..n : producer_slot(pending_ops[i]) # producer_slot(op)
  <2>1. IsFiniteSet(1..n)
    BY FS_Interval
  <2>2. mine \subseteq 1..n
    OBVIOUS
  <2>3. Cardinality(mine) < 1
    BY <1>2, <1>5 DEF Outstanding
  <2> HIDE DEF mine
  <2>4. IsFiniteSet(mine)
    BY <2>1, <2>2, FS_Subset
  <2>5. Cardinality(mine) \in Nat
    BY <2>4, FS_CardinalityType
  <2>6. mine = {}
    BY <2>3, <2>4, <2>5, FS_EmptySet
  <2> QED
    BY <2>6 DEF mine
<1>7. /\ Len(pending_ops') = n + 1 /\ pending_ops'[n + 1] = op
      /\ \A i \in 1..n : pending_ops'[i] = pending_ops[i]
  BY <1>2, <1>4, <1>5, AppendMore
<1>8. \A i \in 1..(n + 1) : i \in 1..n \/ i = n + 1
  OBVIOUS
<1>9. \A i \in 1..(n + 1) : OwnSlot(pending_ops'[i])
  BY <1>3, <1>5, <1>7, <1>8 DEF SlotsInv
<1>10. \A i, j \in 1..(n + 1) :
          producer_slot(pending_ops'[i]) = producer_slot(pending_ops'[j]) => i = j
  BY <1>5, <1>6, <1>7, <1>8 DEF SlotsInv
<1> QED
  BY <1>7, <1>9, <1>10 DEF SlotsInv

\* The compaction keeps operations of the vector, each once.
LEMMA FinishSlots ==
    ASSUME TypeOK, LostInv, SlotsInv, DrainFinish
    PROVE  SlotsInv'
<1>1. KeepInv /\ pending_ops' = remaining /\ scan > Len(pending_ops)
  BY DEF DrainFinish, LostInv
<1>2. scan \in Nat /\ Len(pending_ops) \in Nat
  BY DEF TypeOK
<1>3. 1..(scan - 1) = 1..Len(pending_ops)
  BY <1>1, <1>2 DEF KeepInv
<1>4. \A k \in 1..Len(remaining) : \E i \in 1..Len(pending_ops) : remaining[k] = pending_ops[i]
  BY <1>1, <1>3, ZenonT(40) DEF KeepInv
<1>5. \A k \in 1..Len(remaining) : OwnSlot(remaining[k])
  BY <1>4 DEF SlotsInv
<1>6. ASSUME NEW k \in 1..Len(remaining), NEW l \in 1..Len(remaining),
             producer_slot(remaining[k]) = producer_slot(remaining[l])
      PROVE  k = l
  <2>1. PICK i \in 1..Len(pending_ops) : remaining[k] = pending_ops[i]
    BY <1>4
  <2>2. PICK j \in 1..Len(pending_ops) : remaining[l] = pending_ops[j]
    BY <1>4
  <2>3. i = j
    BY <1>6, <2>1, <2>2 DEF SlotsInv
  <2> QED
    BY <1>1, <2>1, <2>2, <2>3 DEF KeepInv
<1> QED
  BY <1>1, <1>5, <1>6 DEF SlotsInv

\* No step gives a producer a second operation in the vector.
LEMMA SlotsStep ==
    ASSUME OnePerProducer, TypeOK, LostInv, SlotsInv, [Next]_vars
    PROVE  SlotsInv'
<1>1. CASE UNCHANGED pending_ops
  BY <1>1 DEF SlotsInv
<1>2. ASSUME NEW t \in Templates, NEW r \in ReqTimes, Emit(t, r) \/ DirectCommit(t, r)
      PROVE  SlotsInv'
  BY <1>1, <1>2, EmitSlots DEF DirectCommit
<1>3. CASE DrainFinish
  BY <1>3, FinishSlots
<1>4. UNCHANGED pending_ops \/ DrainFinish
      \/ \E t \in Templates, r \in ReqTimes : Emit(t, r) \/ DirectCommit(t, r)
  BY DEF Next, Publish, Drain, DrainEnqueue, DrainCommit, DrainStop, DrainKeep,
         SetHaltOnFault, hostVars, vars
<1> QED
  BY <1>1, <1>2, <1>3, <1>4

-----------------------------------------------------------------------------

\* The batch in progress holds at most one operation of each producer.
LEMMA PendingApart ==
    ASSUME TypeOK, LostInv, SlotsInv
    PROVE  /\ Apart(PendingOps, Committable)
           /\ Apart(PendingOps, 1..Len(call.pending))
           /\ Len(PendingOps) = Len(call.pending) /\ Len(call.pending) \in Nat
           /\ Committable \in SUBSET (1..Len(call.pending))
           /\ DOMAIN PendingOps = 1..Len(call.pending)
<1>1. DrainInv
  BY DEF LostInv
<1>2. call.pending \in Seq([index : Nat, op : HostOp]) /\ Len(call.pending) \in Nat
  BY DEF TypeOK
<1>3. /\ Len(PendingOps) = Len(call.pending) /\ Committable \in SUBSET (1..Len(call.pending))
      /\ \A k \in 1..Len(call.pending) : PendingOps[k] = call.pending[k].op
      /\ DOMAIN PendingOps = 1..Len(call.pending)
  BY <1>2 DEF PendingOps, Committable
<1>4. \A k \in 1..Len(call.pending) : PendingOps[k] \in HostOp
  <2>1. \A k \in 1..Len(call.pending) : call.pending[k] \in [index : Nat, op : HostOp]
    BY <1>2, SeqElement
  <2> QED
    BY <1>3, <2>1
<1>5. \A k \in 1..Len(call.pending) : OwnSlot(PendingOps[k])
  BY <1>1, <1>3 DEF DrainInv, SlotsInv
<1>6. \A k, l \in 1..Len(call.pending) :
         producer_slot(PendingOps[k]) = producer_slot(PendingOps[l]) => k = l
  BY <1>1, <1>3, SMTT(40) DEF DrainInv, SlotsInv
<1>7. Apart(PendingOps, 1..Len(call.pending))
  BY <1>4, <1>5, <1>6 DEF Apart
<1>8. Apart(PendingOps, Committable)
  BY <1>3, <1>7 DEF Apart
<1> QED
  BY <1>2, <1>3, <1>7, <1>8

\* The winner of a tie between the CPUs is the one that did not win the last
\* tie, and the arbiter remembers it; without a tie it remembers nothing new.
LEMMA CommitTies ==
    ASSUME TypeOK, LostInv, SlotsInv, DrainCommit
    PROVE  \/ UNCHANGED <<ties, last_grant_cpu>>
           \/ \E c \in CpuIds : /\ c # last_grant_cpu /\ last_grant_cpu' = c
                                /\ ties' = Append(ties, c)
<1>1. PICK w \in Committable :
          /\ w = pick_next(PendingOps, Committable)
          /\ execute_commit(call.pending[w].op, HadTie(w))
          /\ ties' = IF CrossTie(w) /\ ~Rejected(call.pending[w].op)
                       THEN Append(ties, call.pending[w].op.cpu) ELSE ties
  BY DEF DrainCommit, BatchCommit
<1>2. /\ Apart(PendingOps, Committable)
      /\ Len(PendingOps) = Len(call.pending) /\ Len(call.pending) \in Nat
      /\ Committable \in SUBSET (1..Len(call.pending))
  BY PendingApart
<1>3. bus_free_time \in Nat /\ last_grant_cpu \in CpuIds
  BY DEF TypeOK
<1>4. \A i \in Committable \ {w} : Outranks(PendingOps[w], PendingOps[i])
  BY <1>1, <1>2, <1>3, PickIsBest
<1>5. \A i \in Committable : PendingOps[i] = call.pending[i].op
  BY <1>2 DEF PendingOps
<1>6. PICK op : op = call.pending[w].op
  OBVIOUS
<1>7. op \in HostOp /\ OwnSlot(op)
  BY <1>1, <1>2, <1>5, <1>6 DEF Apart
<1>8. op.cpu \in {-1, 0, 1} /\ Preferred \in CpuIds /\ Preferred # last_grant_cpu
  BY <1>3, <1>7 DEF HostOp, BusOp, DmaId, CpuIds, Preferred
<1>9. ASSUME NEW i \in Committable \ {w},
             Start(call.pending[i].op) = Start(op), priority_of(call.pending[i].op) = priority_of(op),
             is_cpu(op.cpu)
      PROVE  CrossTie(w) /\ op.cpu = Preferred
  <2>1. PICK q : q = call.pending[i].op
    OBVIOUS
  <2>2. q \in HostOp /\ OwnSlot(q) /\ producer_slot(q) # producer_slot(op)
    BY <1>2, <1>5, <1>6, <2>1 DEF Apart
  <2>3. q.cpu \in {-1, 0, 1} /\ q.cpu # op.cpu
    BY <1>7, <2>2 DEF HostOp, BusOp, DmaId, CpuIds, OwnSlot
  <2>4. is_cpu(q.cpu)
    BY <1>9, <2>1, <2>3 DEF priority_of, is_cpu, CpuIds
  <2>5. CrossTie(w)
    BY <1>6, <1>9, <2>1, <2>3, <2>4 DEF CrossTie
  <2>6. Start(op) \in Nat /\ Start(q) = Start(op) /\ priority_of(q) = priority_of(op)
        /\ priority_of(op) \in Nat
    BY <1>3, <1>7, <1>9, <2>1 DEF Start, HostOp, BusOp, priority_of
  <2>7. Outranks(op, q)
    BY <1>4, <1>5, <1>6, <2>1
  <2>8. Urgency(op) > Urgency(q)
    BY <2>6, <2>7 DEF Outranks
  <2>9. op.cpu = Preferred
    BY <2>6, <2>8 DEF Urgency
  <2> QED
    BY <2>5, <2>9
<1>10. CASE Rejected(op)
  BY <1>1, <1>6, <1>10 DEF execute_commit, Reject, timingVars
<1>11. CASE ~Rejected(op) /\ HadTie(w) /\ is_cpu(op.cpu)
  <2>1. CrossTie(w) /\ op.cpu = Preferred
    BY <1>6, <1>9, <1>11 DEF HadTie
  <2>2. last_grant_cpu' = op.cpu /\ ties' = Append(ties, op.cpu)
    BY <1>1, <1>6, <1>11, <2>1 DEF execute_commit, Grant
  <2> QED
    BY <1>8, <2>1, <2>2
<1>12. CASE ~Rejected(op) /\ ~(HadTie(w) /\ is_cpu(op.cpu))
  <2>1. ~CrossTie(w)
    BY <1>6, <1>12 DEF CrossTie, HadTie
  <2> QED
    BY <1>1, <1>6, <1>12, <2>1 DEF execute_commit, Grant
<1> QED
  BY <1>10, <1>11, <1>12

\* A winner other than the last one keeps the alternation.
LEMMA TieAppended ==
    ASSUME ties \in Seq(CpuIds), TiesInv, NEW c \in CpuIds, c # last_grant_cpu,
           last_grant_cpu' = c, ties' = Append(ties, c)
    PROVE  TiesInv'
<1>1. PICK n \in Nat : n = Len(ties)
  OBVIOUS
<1>2. /\ Len(ties') = n + 1 /\ ties'[n + 1] = c
      /\ \A i \in 1..n : ties'[i] = ties[i]
  BY <1>1, AppendMore
<1>3. n > 0 => ties # <<>> /\ ties[n] = last_grant_cpu
  BY <1>1 DEF TiesInv
<1>4. \A k \in 1..n : ties'[k] # ties'[k + 1]
  <2> TAKE k \in 1..n
  <2>1. CASE k = n
    BY <1>2, <1>3, <2>1
  <2>2. CASE k # n
    <3>1. k \in 1..(n - 1) /\ k \in 1..n /\ k + 1 \in 1..n
      BY <2>2
    <3> QED
      BY <1>1, <1>2, <3>1 DEF TiesInv, TiesAlternate
  <2> QED
    BY <2>1, <2>2
<1>5. TiesAlternate'
  BY <1>2, <1>4 DEF TiesAlternate
<1> QED
  BY <1>2, <1>5 DEF TiesInv

\* No other step touches the memory of the last tie.
LEMMA TiesStep ==
    ASSUME TypeOK, LostInv, SlotsInv, TiesInv, [Next]_vars
    PROVE  TiesInv'
<1>1. CASE UNCHANGED <<ties, last_grant_cpu>>
  BY <1>1 DEF TiesInv, TiesAlternate
<1>2. CASE DrainCommit
  <2>1. ties \in Seq(CpuIds)
    BY DEF TypeOK
  <2> QED
    BY <1>1, <1>2, <2>1, CommitTies, TieAppended
<1>3. ASSUME NEW t \in Templates, NEW r \in ReqTimes, DirectCommit(t, r)
      PROVE  UNCHANGED <<ties, last_grant_cpu>>
  BY <1>3 DEF DirectCommit, commit, commit_dma, execute_commit, Reject, Grant, timingVars
<1>4. UNCHANGED <<ties, last_grant_cpu>> \/ DrainCommit
      \/ \E t \in Templates, r \in ReqTimes : DirectCommit(t, r)
  BY DEF Next, Emit, Publish, update_progress, Drain, BatchCall, DrainEnqueue, BatchEnqueue,
         BatchEnqueued, DrainStop, BatchReturn, DrainKeep, DrainFinish, BatchFinish,
         SetHaltOnFault, set_halt_on_fault, hostVars, arbVars, timingVars, vars
<1> QED
  BY <1>1, <1>2, <1>3, <1>4

\* The initial state has no operation and no tie.
LEMMA TiesInit ==
    ASSUME Init
    PROVE  SlotsInv /\ TiesInv
<1>1. pending_ops = <<>> /\ ties = <<>> /\ Len(<<>>) = 0
  BY DEF Init
<1> QED
  BY <1>1 DEF SlotsInv, TiesInv, TiesAlternate

\* p reorders a vector of n operations
Reorders(p, n) == p \in [1..n -> 1..n] /\ \A i, j \in 1..n : i # j => p[i] # p[j]

\* A reordering is onto.
LEMMA Reordered ==
    ASSUME NEW n \in Nat, NEW p, Reorders(p, n), NEW w \in 1..n
    PROVE  \E i \in 1..n : p[i] = w
<1>1. IsFiniteSet(1..n)
  BY FS_Interval
<1>2. p \in Injection(1..n, 1..n)
  BY DEF Reorders, Injection, IsInjective
<1>3. p \in Surjection(1..n, 1..n)
  BY <1>1, <1>2, FS_Injection
<1> QED
  BY <1>3 DEF Surjection

\* However the vector is reordered, the loop of pick_next ends with the same
\* operation: it is the one that outranks all the others.
LEMMA PickReordered ==
    ASSUME bus_free_time \in Nat, last_grant_cpu \in CpuIds,
           NEW n \in Nat, NEW ops, Len(ops) = n, Apart(ops, 1..n),
           NEW C \in SUBSET (1..n), C # {}, NEW p, Reorders(p, n),
           NEW q, Len(q) = n, \A i \in 1..n : q[i] = ops[p[i]],
           NEW D \in SUBSET (1..n), \A i \in 1..n : i \in D <=> p[i] \in C
    PROVE  q[pick_next(q, D)] = ops[pick_next(ops, C)]
<1>1. PICK w : w = pick_next(ops, C)
  OBVIOUS
<1>2. PICK v : v = pick_next(q, D)
  OBVIOUS
<1>3. Apart(ops, C)
  BY DEF Apart
<1>4. w \in C /\ \A i \in C \ {w} : Outranks(ops[w], ops[i])
  BY <1>1, <1>3, PickIsBest
<1>5. PICK i0 \in 1..n : p[i0] = w
  <2>1. w \in 1..n
    BY <1>4
  <2> QED
    BY <2>1, Reordered
<1>6. i0 \in D /\ D # {}
  BY <1>4, <1>5
<1>7. Apart(q, D)
  <2>1. \A i \in D : i \in 1..n /\ p[i] \in 1..n /\ q[i] = ops[p[i]]
    BY DEF Reorders
  <2>2. \A i \in D : q[i] \in HostOp /\ OwnSlot(q[i])
    BY <2>1 DEF Apart
  <2>3. ASSUME NEW i \in D, NEW j \in D, producer_slot(q[i]) = producer_slot(q[j]) PROVE i = j
    <3>1. p[i] = p[j]
      BY <2>1, <2>3 DEF Apart
    <3> QED
      BY <3>1 DEF Reorders
  <2> QED
    BY <2>2, <2>3 DEF Apart
<1>8. v \in D /\ \A i \in D \ {v} : Outranks(q[v], q[i])
  BY <1>2, <1>6, <1>7, PickIsBest
<1>9. PICK u \in C : u = p[v]
  BY <1>8
<1>10. q[v] = ops[u] /\ q[i0] = ops[w] /\ v \in 1..n
  BY <1>5, <1>6, <1>8, <1>9
<1>11. CASE u = w
  BY <1>1, <1>2, <1>10, <1>11
<1>12. CASE u # w
  <2>1. i0 # v
    BY <1>5, <1>9, <1>12
  <2>2. Outranks(ops[w], ops[u]) /\ Outranks(ops[u], ops[w])
    BY <1>4, <1>6, <1>8, <1>9, <1>10, <1>12, <2>1
  <2>3. /\ Start(ops[w]) \in Nat /\ Start(ops[u]) \in Nat
        /\ Urgency(ops[w]) \in Nat /\ Urgency(ops[u]) \in Nat
    BY <1>3, <1>4, <1>9, <1>12, BeatsByRank DEF Apart
  <2> QED
    BY <2>2, <2>3 DEF Outranks
<1> QED
  BY <1>11, <1>12

\* The vector of the batch in progress holds operations of different producers.
LEMMA OrderBlind ==
    ASSUME TypeOK, LostInv, SlotsInv
    PROVE  PickIgnoresHostOrder
<1>1. PICK n \in Nat : n = Len(call.pending)
  BY PendingApart
<1>2. /\ Apart(PendingOps, 1..n) /\ Len(PendingOps) = n
      /\ Committable \in SUBSET (1..n) /\ DOMAIN PendingOps = 1..n
  BY <1>1, PendingApart
<1>3. bus_free_time \in Nat /\ last_grant_cpu \in CpuIds
  BY DEF TypeOK
<1> SUFFICES ASSUME Committable # {}, NEW p \in HostOrders(PendingOps)
             PROVE  LET ops == [i \in 1..n |-> PendingOps[p[i]]]
                        C == {i \in 1..n : p[i] \in Committable}
                    IN  ops[pick_next(ops, C)] = PendingOps[pick_next(PendingOps, Committable)]
  BY <1>2 DEF PickIgnoresHostOrder
<1>4. Reorders(p, n)
  BY <1>2 DEF HostOrders, Reorders
<1>5. PICK q : q = [i \in 1..n |-> PendingOps[p[i]]]
  OBVIOUS
<1>6. PICK D : D = {i \in 1..n : p[i] \in Committable}
  OBVIOUS
<1>7. /\ Len(q) = n /\ \A i \in 1..n : q[i] = PendingOps[p[i]]
      /\ D \in SUBSET (1..n) /\ \A i \in 1..n : i \in D <=> p[i] \in Committable
  BY <1>5, <1>6
<1>8. PICK ops : ops = PendingOps
  OBVIOUS
<1>9. PICK C : C = Committable
  OBVIOUS
<1>10. q[pick_next(q, D)] = ops[pick_next(ops, C)]
  <2> HIDE <1>5, <1>6
  <2> QED
    BY <1>2, <1>3, <1>4, <1>7, <1>8, <1>9, PickReordered
<1> QED
  BY <1>5, <1>6, <1>8, <1>9, <1>10

\* The slots of the vector's operations stay apart.
LEMMA SlotsAlways ==
    ASSUME OnePerProducer
    PROVE  Spec => [](TypeOK /\ LostInv /\ SlotsInv)
<1>1. Init => SlotsInv
  BY TiesInit
<1>2. TypeOK /\ LostInv /\ SlotsInv /\ [Next]_vars => SlotsInv'
  BY SlotsStep
<1> QED
  BY <1>1, <1>2, LostAlways, PTL DEF Spec

\* Round robin: when no producer has two operations in the vector at a time
\* and each goes by its own slot, as with the hosts of core/emulator.cpp, no
\* CPU wins two successive ties against the other one, whatever lies between
\* them (DMA, rejected operations, direct commits, any number of batches).
THEOREM RoundRobinAlternates ==
    ASSUME OnePerProducer
    PROVE  Spec => []TiesAlternate
<1>1. Init => TiesInv
  BY TiesInit
<1>2. TypeOK /\ LostInv /\ SlotsInv /\ TiesInv /\ [Next]_vars => TiesInv'
  BY TiesStep
<1>3. TiesInv => TiesAlternate
  BY DEF TiesInv
<1> QED
  BY <1>1, <1>2, <1>3, SlotsAlways, PTL DEF Spec

\* Under the same contract the operation that pick_next selects is a function
\* of the operations the host holds, not of the order in which their producers
\* happened to deliver them.
THEOREM PickIsOrderBlind ==
    ASSUME OnePerProducer
    PROVE  Spec => []PickIgnoresHostOrder
<1>1. TypeOK /\ LostInv /\ SlotsInv => PickIgnoresHostOrder
  BY OrderBlind
<1> QED
  BY <1>1, SlotsAlways, PTL
=============================================================================
