----------------------------- MODULE HostProofs -----------------------------
(***************************************************************************)
(* What the proofs about the three host loops share: sequences, scripted   *)
(* CPUs, and commit_batch as a loop calls it, with at most one operation   *)
(* of each CPU.                                                            *)
(***************************************************************************)
EXTENDS BusArbiter, ScriptedCpu, TLAPS, WellFoundedInduction

-----------------------------------------------------------------------------
(* Sequences and numbers *)

\* A sequence of anything
IsSeq(s) == \E S : s \in Seq(S)

\* What Append does to a sequence of anything.
LEMMA AppendAny ==
    ASSUME NEW s, IsSeq(s), NEW e
    PROVE  /\ IsSeq(Append(s, e))
           /\ Len(s) \in Nat
           /\ Len(Append(s, e)) = Len(s) + 1
           /\ \A i \in 1..Len(s) : Append(s, e)[i] = s[i]
           /\ Append(s, e)[Len(s) + 1] = e
<1>1. PICK S : s \in Seq(S)
  BY DEF IsSeq
<1> DEFINE T == S \cup {e}
<1>2. s \in Seq(T) /\ e \in T
  BY <1>1
<1> HIDE DEF T
<1>3. /\ Append(s, e) \in Seq(T)
      /\ Len(s) \in Nat
      /\ Len(Append(s, e)) = Len(s) + 1
      /\ \A i \in 1..Len(s) : Append(s, e)[i] = s[i]
      /\ Append(s, e)[Len(s) + 1] = e
  BY <1>2
<1> QED BY <1>3 DEF IsSeq

\* The empty sequence.
LEMMA EmptyIsSeq == IsSeq(<<>>) /\ Len(<<>>) = 0
<1>1. <<>> \in Seq({})
  OBVIOUS
<1> QED BY <1>1 DEF IsSeq

\* An element of a sequence.
LEMMA ElementType ==
    ASSUME NEW S, NEW s \in Seq(S), NEW i \in 1..Len(s)
    PROVE  s[i] \in S
OBVIOUS

\* Erasing an element leaves a sequence over the same set.
LEMMA EraseType ==
    ASSUME NEW S, NEW s \in Seq(S), NEW i \in 1..Len(s)
    PROVE  RemoveIndex(s, i) \in Seq(S)
<1>1. Len(s) - 1 \in Nat
  OBVIOUS
<1>2. RemoveIndex(s, i) \in [1..(Len(s) - 1) -> S]
  BY DEF RemoveIndex
<1> QED BY <1>1, <1>2

\* Taking the first element of a sequence of anything.
LEMMA TailAny ==
    ASSUME NEW s, IsSeq(s), s # <<>>
    PROVE  /\ IsSeq(Tail(s))
           /\ Len(s) \in Nat /\ Len(Tail(s)) = Len(s) - 1
           /\ Head(s) = s[1] /\ 1 \in 1..Len(s)
           /\ \A i \in 1..Len(Tail(s)) : i + 1 \in 1..Len(s) /\ Tail(s)[i] = s[i + 1]
<1>1. PICK S : s \in Seq(S)
  BY DEF IsSeq
<1>2. Tail(s) \in Seq(S)
  BY <1>1
<1> QED BY <1>1, <1>2 DEF IsSeq

\* The length of a sequence.
LEMMA LenNat ==
    ASSUME NEW s, IsSeq(s)
    PROVE  Len(s) \in Nat
BY DEF IsSeq

\* Every set of natural numbers that is not empty has a least element.
LEMMA LeastElement ==
    ASSUME NEW T, T \subseteq Nat, T # {}
    PROVE  \E x \in T : \A y \in T : x <= y
<1> DEFINE R == {ss \in Nat \X Nat : ss[1] < ss[2]}
<1>1. R = OpToRel(<, Nat)
  BY Zenon DEF OpToRel
<1>2. \A x, y \in Nat : <<y, x>> \in R <=> y < x
  OBVIOUS
<1> HIDE DEF R
<1>3. IsWellFoundedOn(R, Nat)
  BY <1>1, NatLessThanWellFounded, Zenon
<1>4. PICK x \in T : \A y \in T : ~(<<y, x>> \in R)
  BY <1>3, WFMin, Zenon
<1>5. ASSUME NEW y \in T PROVE x <= y
  <2>1. x \in Nat /\ y \in Nat
    OBVIOUS
  <2>2. ~(y < x)
    BY <1>2, <1>4, <2>1, Zenon
  <2> QED BY <2>1, <2>2
<1> QED BY <1>5

-----------------------------------------------------------------------------
(* ScriptedCPU: the loop of produce *)

\* An instruction of a script.
LEMMA InsType ==
    ASSUME NEW script \in Seq(ScriptOp), NEW i \in 1..Len(script)
    PROVE  /\ script[i] \in ScriptOp
           /\ script[i].kind \in {"Compute", "Barrier", "Read", "Write"}
           /\ script[i].addr \in Nat /\ script[i].alias \in BOOLEAN /\ script[i].size \in Nat
           /\ script[i].value \in Value /\ script[i].cycles \in Nat
<1>1. script[i] \in ScriptOp
  BY ElementType
<1>2. \A s \in ScriptOp :
         /\ s.kind \in {"Compute", "Barrier", "Read", "Write"}
         /\ s.addr \in Nat /\ s.alias \in BOOLEAN /\ s.size \in Nat
         /\ s.value \in Value /\ s.cycles \in Nat
  BY DEF ScriptOp
<1> QED BY <1>1, <1>2

\* The recursion of ComputeTicks, for the function g of the cycles that count
Counts(t, first, last, g) ==
    t = [i \in 0..last |-> IF i < first THEN 0 ELSE t[i - 1] + g[i]]

\* There is a function that satisfies it, by induction on the last index.
LEMMA CountsExist ==
    ASSUME NEW n \in Nat, NEW first \in Nat \ {0}, NEW g \in [1..n -> Nat], NEW last \in 0..n
    PROVE  \E t : t \in [0..last -> Nat] /\ Counts(t, first, last, g)
<1> DEFINE Good(t, m) == t \in [0..m -> Nat] /\ Counts(t, first, m, g)
           B == {m \in 0..n : ~\E t : Good(t, m)}
<1>1. Good([i \in 0..0 |-> 0], 0)
  BY DEF Counts
<1>2. ASSUME NEW m \in 1..n, NEW t, Good(t, m - 1) PROVE \E e : Good(e, m)
  <2> DEFINE e == [i \in 0..m |-> IF i = m THEN (IF m < first THEN 0 ELSE t[m - 1] + g[m]) ELSE t[i]]
  <2>1. /\ m \in Nat /\ m - 1 \in 0..(m - 1) /\ g[m] \in Nat
        /\ t \in [0..(m - 1) -> Nat] /\ Counts(t, first, m - 1, g)
    BY <1>2
  <2>2. e \in [0..m -> Nat]
    BY <2>1
  <2>3. ASSUME NEW i \in 0..m PROVE e[i] = (IF i < first THEN 0 ELSE e[i - 1] + g[i])
    <3>1. CASE i = m
      BY <2>1, <3>1
    <3>2. CASE i # m
      <4>1. i \in 0..(m - 1)
        BY <2>1, <3>2
      <4>2. t[i] = IF i < first THEN 0 ELSE t[i - 1] + g[i]
        BY <2>1, <4>1 DEF Counts
      <4>3. e[i] = t[i] /\ (i >= first => e[i - 1] = t[i - 1])
        BY <2>1, <3>2, <4>1
      <4> QED BY <4>2, <4>3
    <3> QED BY <3>1, <3>2
  <2> HIDE DEF e
  <2>4. Counts(e, first, m, g)
    BY <2>2, <2>3 DEF Counts
  <2> QED BY <2>2, <2>4
<1> HIDE DEF Good
<1>3. \E t : Good(t, last)
  <2> SUFFICES ASSUME B # {} PROVE FALSE
    BY Zenon
  <2> HIDE DEF B
  <2>1. B \subseteq Nat
    BY DEF B
  <2>2. PICK k \in B : \A y \in B : k <= y
    BY <2>1, LeastElement, Zenon
  <2>3. k \in 0..n /\ ~\E t : Good(t, k)
    BY <2>2, Zenon DEF B
  <2>4. k # 0
    BY <1>1, <2>3, Zenon
  <2>5. k \in 1..n /\ k - 1 \in 0..n /\ ~(k <= k - 1)
    BY <2>3, <2>4
  <2>6. PICK t : Good(t, k - 1)
    BY <2>2, <2>5, Zenon DEF B
  <2> QED BY <1>2, <2>3, <2>5, <2>6, Zenon
<1> QED BY <1>3 DEF Good

\* Its value is a number of ticks, and none for an empty range.
LEMMA TicksType ==
    ASSUME NEW script \in Seq(ScriptOp), NEW first \in Nat \ {0}, NEW last \in 0..Len(script)
    PROVE  /\ ComputeTicks(script, first, last) \in Nat
           /\ last < first => ComputeTicks(script, first, last) = 0
<1> DEFINE n == Len(script)
           g == [i \in 1..n |-> IF script[i].kind = "Compute" THEN script[i].cycles ELSE 0]
           C(t) == t = [i \in 0..last |-> IF i < first THEN 0 ELSE t[i - 1]
                          + (IF script[i].kind = "Compute" THEN script[i].cycles ELSE 0)]
           ticks == CHOOSE t : C(t)
<1>1. n \in Nat /\ g \in [1..n -> Nat]
  <2>1. \A i \in 1..n : script[i].cycles \in Nat
    BY InsType
  <2> QED BY <2>1
<1>2. \A t : Counts(t, first, last, g) <=> C(t)
  <2>1. ASSUME NEW t, NEW i \in 0..last
        PROVE  (IF i < first THEN 0 ELSE t[i - 1] + g[i]) =
               (IF i < first THEN 0 ELSE t[i - 1]
                  + (IF script[i].kind = "Compute" THEN script[i].cycles ELSE 0))
    BY <1>1
  <2>2. ASSUME NEW t
        PROVE  [i \in 0..last |-> IF i < first THEN 0 ELSE t[i - 1] + g[i]] =
               [i \in 0..last |-> IF i < first THEN 0 ELSE t[i - 1]
                  + (IF script[i].kind = "Compute" THEN script[i].cycles ELSE 0)]
    BY <2>1
  <2> HIDE DEF g
  <2> QED BY <2>2, Zenon DEF Counts
<1>3. ComputeTicks(script, first, last) = ticks[last]
  BY DEF ComputeTicks
<1> HIDE DEF g, C, n
<1>4. PICK f : f \in [0..last -> Nat] /\ Counts(f, first, last, g)
  BY <1>1, CountsExist DEF n
<1>5. Counts(ticks, first, last, g)
  <2>1. C(f)
    BY <1>2, <1>4, Zenon
  <2>2. C(ticks)
    BY <2>1, Zenon
  <2> QED BY <1>2, <2>2, Zenon
<1> HIDE DEF ticks
<1>6. ASSUME NEW m \in 0..last PROVE ticks[m] = f[m]
  <2> DEFINE B == {i \in 0..last : ticks[i] # f[i]}
  <2> SUFFICES ASSUME B # {} PROVE FALSE
    OBVIOUS
  <2> HIDE DEF B
  <2>1. B \subseteq Nat
    BY DEF B
  <2>2. PICK k \in B : \A y \in B : k <= y
    BY <2>1, LeastElement, Zenon
  <2>3. k \in 0..last /\ ticks[k] # f[k]
    BY <2>2, Zenon DEF B
  <2>4. /\ ticks[k] = (IF k < first THEN 0 ELSE ticks[k - 1] + g[k])
        /\ f[k] = (IF k < first THEN 0 ELSE f[k - 1] + g[k])
    BY <1>4, <1>5, <2>3 DEF Counts
  <2>5. k - 1 \in 0..last /\ ~(k <= k - 1)
    BY <2>3, <2>4
  <2>6. ticks[k - 1] = f[k - 1]
    BY <2>2, <2>5, Zenon DEF B
  <2> QED BY <2>3, <2>4, <2>6
<1>7. last \in 0..last /\ last \in Nat
  BY DEF n
<1>8. ticks[last] = f[last] /\ f[last] \in Nat
  BY <1>4, <1>6, <1>7
<1>9. last < first => ticks[last] = 0
  BY <1>5, <1>7 DEF Counts
<1> QED BY <1>3, <1>8, <1>9

CpuFields ==
    {"id", "script", "pc", "sequence", "local_time", "store_buffer", "cache", "last_read",
     "next_store_id"}

\* CPU c somewhere in its script
IsCpu(k, c, script) ==
    /\ k = [f \in CpuFields |-> k[f]]
    /\ k.id = c /\ k.script = script
    /\ k.pc \in 1..(Len(script) + 1)

BusKinds == {"Barrier", "Read", "Write"}

\* The BusOp of CPU c for a script's instruction ins, requested at tick t
IsOpFor(op, c, ins, t) ==
    /\ op.cpu = c /\ op.req = t /\ op.producer = "Auto"
    /\ ins.kind \in BusKinds
    /\ op.kind = (CASE ins.kind = "Barrier" -> "Barrier"
                    [] ins.kind = "Write" -> IF is_mmio(ins.addr) THEN "MmioWrite" ELSE "Write"
                    [] ins.kind = "Read" -> IF is_mmio(ins.addr) THEN "MmioRead" ELSE "Read")
    /\ ins.kind # "Barrier" => op.addr = ins.addr /\ op.size = ins.size
    /\ ins.kind = "Write" => op.data = ins.value
    /\ op.fill = (IF ins.kind = "Read" /\ ~Uncached(ins) THEN LineSize ELSE 0)

\* A new CPU.
LEMMA NewCpuFacts ==
    ASSUME NEW c, NEW script \in Seq(ScriptOp)
    PROVE  /\ IsCpu(NewCpu(c, script), c, script)
           /\ NewCpu(c, script).local_time = 0
           /\ NewCpu(c, script).store_buffer = <<>>
           /\ NewCpu(c, script).cache = NewCache
           /\ NewCpu(c, script).next_store_id = 1
<1> DEFINE cache == NewCache
<1>1. NewCpu(c, script) =
        [id |-> c, script |-> script, pc |-> 1, sequence |-> 0, local_time |-> 0,
         store_buffer |-> <<>>, cache |-> cache, last_read |-> None, next_store_id |-> 1]
  BY DEF NewCpu
<1> HIDE DEF cache
<1>2. Len(script) \in Nat
  OBVIOUS
<1> QED BY <1>1, <1>2 DEF IsCpu, CpuFields, cache

\* The loop of produce stops at a bus operation or at the end of the script.
LEMMA StopsAtBusOp ==
    ASSUME NEW c, NEW script \in Seq(ScriptOp), NEW k, IsCpu(k, c, script)
    PROVE  /\ Stop(k) \in k.pc..(Len(script) + 1)
           /\ Stop(k) <= Len(script) => script[Stop(k)].kind \in BusKinds
<1> DEFINE n == Len(script)
           Stops(i) == i > n \/ ~IsLocal(k, i)
           T == {i \in k.pc..(n + 1) : Stops(i)}
<1>1. n \in Nat /\ k.pc \in 1..(n + 1) /\ k.script = script
  BY DEF IsCpu
<1>2. PICK x \in T : \A y \in T : x <= y
  <2>1. n + 1 \in T
    BY <1>1
  <2>2. T \subseteq Nat
    BY <1>1
  <2> QED BY <2>1, <2>2, LeastElement
<1>3. x \in k.pc..(n + 1) /\ Stops(x) /\ \A j \in k.pc..(x - 1) : IsLocal(k, j)
  <2>1. x \in k.pc..(n + 1) /\ Stops(x)
    BY <1>2
  <2>2. ASSUME NEW j \in k.pc..(x - 1) PROVE IsLocal(k, j)
    BY <1>1, <1>2, <2>1
  <2> QED BY <2>1, <2>2
<1>4. Stop(k) \in k.pc..(n + 1) /\ Stops(Stop(k))
  BY <1>1, <1>3 DEF Stop
<1>5. ASSUME Stop(k) <= n PROVE script[Stop(k)].kind \in BusKinds
  <2>1. Stop(k) \in 1..n
    BY <1>1, <1>4, <1>5
  <2>2. script[Stop(k)].kind \in {"Compute", "Barrier", "Read", "Write"}
    BY <2>1, InsType
  <2>3. ~IsLocal(k, Stop(k))
    BY <1>1, <1>4, <1>5, <2>1
  <2>4. script[Stop(k)].kind # "Compute"
    BY <1>1, <2>3 DEF IsLocal
  <2> QED BY <2>2, <2>4 DEF BusKinds
<1> QED BY <1>1, <1>4, <1>5

\* The local instructions take time, and no store is among them.
LEMMA RunAheadFacts ==
    ASSUME NEW c, NEW script \in Seq(ScriptOp), NEW k, IsCpu(k, c, script)
    PROVE  /\ IsCpu(RunAhead(k), c, script)
           /\ RunAhead(k).pc = Stop(k)
           /\ RunAhead(k).store_buffer = k.store_buffer
           /\ RunAhead(k).cache = k.cache
           /\ RunAhead(k).next_store_id = k.next_store_id
           /\ RunAhead(k).sequence = k.sequence
           /\ k.local_time \in Nat =>
                /\ RunAhead(k).local_time \in Nat /\ k.local_time <= RunAhead(k).local_time
                /\ k.pc = Len(script) + 1 => RunAhead(k) = k
<1> DEFINE n == Len(script)
           t == ComputeTicks(script, k.pc, Stop(k) - 1)
           loads == {i \in k.pc..(Stop(k) - 1) : script[i].kind = "Read"}
           v == IF loads = {} THEN k.last_read ELSE LocalValue(k, script[Max(loads)])
<1>1. n \in Nat /\ k.pc \in 1..(n + 1) /\ k.script = script /\ Stop(k) \in k.pc..(n + 1)
  <2>1. n \in Nat /\ k.pc \in 1..(n + 1) /\ k.script = script
    BY DEF IsCpu
  <2> QED BY <2>1, StopsAtBusOp
<1>2. t \in Nat /\ (k.pc = n + 1 => t = 0 /\ loads = {})
  <2>1. k.pc \in Nat \ {0} /\ Stop(k) - 1 \in 0..n
    BY <1>1
  <2>2. t \in Nat /\ (Stop(k) - 1 < k.pc => t = 0)
    BY <2>1, TicksType
  <2>3. k.pc = n + 1 => Stop(k) - 1 < k.pc
    BY <1>1
  <2> QED BY <1>1, <2>2, <2>3
<1>3. RunAhead(k) = [k EXCEPT !.pc = Stop(k), !.local_time = @ + t, !.last_read = v]
  BY <1>1, Zenon DEF RunAhead
<1> HIDE DEF t, v, loads
<1>4. /\ RunAhead(k) = [f \in CpuFields |-> RunAhead(k)[f]]
      /\ RunAhead(k).id = c /\ RunAhead(k).script = script /\ RunAhead(k).pc = Stop(k)
      /\ RunAhead(k).local_time = k.local_time + t
      /\ RunAhead(k).store_buffer = k.store_buffer
      /\ RunAhead(k).cache = k.cache
      /\ RunAhead(k).next_store_id = k.next_store_id
      /\ RunAhead(k).sequence = k.sequence
  BY <1>3 DEF IsCpu, CpuFields
<1>5. IsCpu(RunAhead(k), c, script)
  BY <1>1, <1>4 DEF IsCpu
<1>6. k.pc = n + 1 /\ k.local_time \in Nat => RunAhead(k) = k
  <2> SUFFICES ASSUME k.pc = n + 1, k.local_time \in Nat PROVE RunAhead(k) = k
    OBVIOUS
  <2>1. Stop(k) = k.pc /\ t = 0 /\ v = k.last_read
    BY <1>1, <1>2 DEF v
  <2>2. k.local_time + t = k.local_time
    BY <2>1
  <2>3. RunAhead(k) = [k EXCEPT !.pc = k.pc, !.local_time = k.local_time, !.last_read = k.last_read]
    BY <1>3, <2>1, <2>2
  <2> QED BY <2>3 DEF IsCpu, CpuFields
<1> QED BY <1>2, <1>4, <1>5, <1>6

\* The CPU after it issued the operation at s.pc.
LEMMA IssueFacts ==
    ASSUME NEW c, NEW script \in Seq(ScriptOp), NEW s, IsCpu(s, c, script), s.pc <= Len(script)
    PROVE  /\ IsCpu(Issue(s), c, script)
           /\ Issue(s).pc = s.pc + 1
           /\ Issue(s).local_time = s.local_time
           /\ script[s.pc].kind # "Write" =>
                /\ Issue(s).store_buffer = s.store_buffer
                /\ Issue(s).cache = s.cache
                /\ Issue(s).next_store_id = s.next_store_id
           /\ script[s.pc].kind = "Write" =>
                /\ Issue(s).store_buffer =
                     Append(s.store_buffer,
                            [store_id |-> s.next_store_id, addr |-> script[s.pc].addr,
                             size |-> script[s.pc].size, value |-> script[s.pc].value])
                /\ Issue(s).cache =
                     (IF Uncached(script[s.pc]) THEN s.cache
                      ELSE CacheWrite(s.cache, script[s.pc].addr, script[s.pc].size,
                                      script[s.pc].value))
                /\ Issue(s).next_store_id = s.next_store_id + 1
<1> DEFINE ins == script[s.pc]
           i == [s EXCEPT !.pc = @ + 1, !.sequence = @ + 1]
           b == Append(s.store_buffer, [store_id |-> s.next_store_id, addr |-> ins.addr,
                                        size |-> ins.size, value |-> ins.value])
           h == IF Uncached(ins) THEN s.cache
                ELSE CacheWrite(s.cache, ins.addr, ins.size, ins.value)
<1>1. s.script = script /\ Ins(s) = ins
  BY DEF IsCpu, Ins
<1>2. /\ i = [f \in CpuFields |-> i[f]]
      /\ i.id = c /\ i.script = script /\ i.pc = s.pc + 1 /\ i.local_time = s.local_time
      /\ i.store_buffer = s.store_buffer /\ i.cache = s.cache
      /\ i.next_store_id = s.next_store_id
  BY DEF IsCpu, CpuFields
<1>3. s.pc + 1 \in 1..(Len(script) + 1)
  BY DEF IsCpu
<1> HIDE DEF i
<1>4. CASE ins.kind # "Write"
  <2>1. Issue(s) = i
    BY <1>1, <1>4, Zenon DEF Issue, i
  <2> QED BY <1>2, <1>3, <1>4, <2>1 DEF IsCpu
<1>5. CASE ins.kind = "Write"
  <2>1. Issue(s) = [i EXCEPT !.next_store_id = s.next_store_id + 1, !.store_buffer = b, !.cache = h]
    BY <1>1, <1>2, <1>5 DEF Issue, i
  <2> HIDE DEF b, h
  <2>2. /\ Issue(s) = [f \in CpuFields |-> Issue(s)[f]]
        /\ Issue(s).id = c /\ Issue(s).script = script /\ Issue(s).pc = s.pc + 1
        /\ Issue(s).local_time = s.local_time
        /\ Issue(s).store_buffer = b /\ Issue(s).cache = h
        /\ Issue(s).next_store_id = s.next_store_id + 1
    BY <1>2, <2>1 DEF CpuFields
  <2> QED BY <1>3, <1>5, <2>2 DEF IsCpu, b, h
<1> QED BY <1>4, <1>5

\* The operation that goes with it.
LEMMA OpOfFacts ==
    ASSUME NEW c, NEW script \in Seq(ScriptOp), NEW s, IsCpu(s, c, script),
           script[s.pc].kind \in BusKinds
    PROVE  /\ IsOpFor(OpOf(s), c, script[s.pc], s.local_time)
           /\ script[s.pc].kind = "Write" => OpOf(s).token = s.next_store_id
<1> DEFINE ins == script[s.pc]
           kind == CASE ins.kind = "Barrier" -> "Barrier"
                     [] ins.kind = "Write" -> IF is_mmio(ins.addr) THEN "MmioWrite" ELSE "Write"
                     [] ins.kind = "Read"  -> IF is_mmio(ins.addr) THEN "MmioRead" ELSE "Read"
           addr == IF ins.kind = "Barrier" THEN 0 ELSE ins.addr
           size == IF ins.kind = "Barrier" THEN 0 ELSE ins.size
           data == IF ins.kind = "Write" THEN ins.value ELSE 0
           fill == IF ins.kind = "Read" /\ ~Uncached(ins) THEN LineSize ELSE 0
           token == IF ins.kind = "Write" THEN s.next_store_id ELSE 0
<1>1. s.script = script /\ Ins(s) = ins /\ s.id = c
  BY DEF IsCpu, Ins
<1>2. OpOf(s) = [cpu |-> c, req |-> s.local_time, seq |-> s.sequence, producer |-> "Auto",
                 kind |-> kind, addr |-> addr, size |-> size, data |-> data, fill |-> fill,
                 token |-> token]
  BY <1>1, Zenon DEF OpOf
<1> HIDE DEF kind, addr, size, data, fill, token
<1>3. /\ OpOf(s).cpu = c /\ OpOf(s).req = s.local_time /\ OpOf(s).producer = "Auto"
      /\ OpOf(s).kind = kind /\ OpOf(s).addr = addr /\ OpOf(s).size = size
      /\ OpOf(s).data = data /\ OpOf(s).fill = fill /\ OpOf(s).token = token
  BY <1>2
<1>4. /\ ins.kind # "Barrier" => addr = ins.addr /\ size = ins.size
      /\ ins.kind = "Write" => data = ins.value /\ token = s.next_store_id
  BY DEF addr, size, data, token
<1> HIDE DEF ins
<1> QED BY <1>3, <1>4, Zenon DEF IsOpFor, kind, fill, ins

\* What produce makes of CPU k: the CPU and the operation q
Produces(k, q, c, script) ==
    LET ins == script[q.op.index] IN
    /\ IsCpu(q.cpu, c, script)
    /\ q = [cpu |-> q.cpu, op |-> q.op]
    /\ k.pc <= q.cpu.pc
    /\ k.local_time \in Nat => q.cpu.local_time \in Nat /\ k.local_time <= q.cpu.local_time
    /\ ~Has(q.op) => q.op = NoOp /\ q.cpu.pc = Len(script) + 1
    /\ Has(q.op) =>
         /\ q.op.index \in 1..Len(script)
         /\ q.cpu.pc = q.op.index + 1
         /\ IsOpFor(q.op.op, c, ins, q.cpu.local_time)
    /\ ~(Has(q.op) /\ ins.kind = "Write") =>
         /\ q.cpu.store_buffer = k.store_buffer
         /\ q.cpu.cache = k.cache
         /\ q.cpu.next_store_id = k.next_store_id
    /\ Has(q.op) /\ ins.kind = "Write" =>
         /\ q.op.op.token = k.next_store_id
         /\ q.cpu.store_buffer =
              Append(k.store_buffer,
                     [store_id |-> k.next_store_id, addr |-> ins.addr,
                      size |-> ins.size, value |-> ins.value])
         /\ q.cpu.cache =
              (IF Uncached(ins) THEN k.cache
               ELSE CacheWrite(k.cache, ins.addr, ins.size, ins.value))
         /\ q.cpu.next_store_id = k.next_store_id + 1

\* It does.
LEMMA ProduceFacts ==
    ASSUME NEW c, NEW script \in Seq(ScriptOp), NEW k, IsCpu(k, c, script)
    PROVE  Produces(k, produce(k), c, script)
<1> DEFINE q == produce(k)
           s == RunAhead(k)
           n == Len(script)
<1>1. /\ IsCpu(s, c, script) /\ s.pc = Stop(k)
      /\ s.store_buffer = k.store_buffer /\ s.cache = k.cache
      /\ s.next_store_id = k.next_store_id
      /\ k.local_time \in Nat => s.local_time \in Nat /\ k.local_time <= s.local_time
  <2>1. IsCpu(s, c, script)
    BY RunAheadFacts
  <2>2. k.local_time \in Nat => s.local_time \in Nat /\ k.local_time <= s.local_time
    BY RunAheadFacts, Zenon
  <2>3. /\ s.pc = Stop(k) /\ s.store_buffer = k.store_buffer /\ s.cache = k.cache
        /\ s.next_store_id = k.next_store_id
    BY RunAheadFacts, Zenon
  <2> QED BY <2>1, <2>2, <2>3
<1>2. /\ n \in Nat /\ k.pc \in 1..(n + 1) /\ Stop(k) \in k.pc..(n + 1)
      /\ Stop(k) <= n => script[Stop(k)].kind \in BusKinds
  <2>1. n \in Nat /\ k.pc \in 1..(n + 1)
    BY DEF IsCpu
  <2> QED BY <2>1, StopsAtBusOp
<1>3. done(s) <=> s.pc > n
  BY <1>1 DEF done, IsCpu
<1> HIDE DEF s, n
<1>4. CASE done(s)
  <2>1. q = [cpu |-> s, op |-> NoOp]
    BY <1>4 DEF produce, s
  <2>2. q.cpu = s /\ q.op = NoOp /\ ~Has(q.op)
    BY <2>1 DEF Has, NoOp
  <2> HIDE DEF q
  <2>3. s.pc = n + 1 /\ k.pc <= s.pc
    BY <1>1, <1>2, <1>3, <1>4
  <2>4. q = [cpu |-> q.cpu, op |-> q.op]
    BY <2>1, <2>2, Zenon
  <2>5. Produces(k, q, c, script)
    BY <1>1, <2>2, <2>3, <2>4, Zenon DEF Produces, n
  <2> QED BY <2>5 DEF q
<1>5. CASE ~done(s)
  <2>1. q = [cpu |-> Issue(s), op |-> [index |-> s.pc, op |-> OpOf(s)]]
    BY <1>5 DEF produce, s
  <2>2. s.pc \in 1..n /\ k.pc <= s.pc + 1 /\ script[s.pc].kind \in BusKinds
    BY <1>1, <1>2, <1>3, <1>5
  <2>3. /\ q.cpu = Issue(s) /\ q.op = [index |-> s.pc, op |-> OpOf(s)]
        /\ q.op.index = s.pc /\ q.op.op = OpOf(s)
    BY <2>1
  <2>4. Has(q.op)
    BY <2>2, <2>3 DEF Has
  <2> HIDE DEF q
  <2>5. q = [cpu |-> q.cpu, op |-> q.op] /\ q.op = [index |-> q.op.index, op |-> q.op.op]
    BY <2>1, <2>3, Zenon
  <2>6. s.pc <= Len(script)
    BY <2>2 DEF n
  <2>7. IsOpFor(q.op.op, c, script[s.pc], s.local_time)
    BY <1>1, <2>2, <2>3, OpOfFacts
  <2>8. IsCpu(q.cpu, c, script) /\ q.cpu.pc = s.pc + 1 /\ q.cpu.local_time = s.local_time
    <3>1. IsCpu(Issue(s), c, script)
      BY <1>1, <2>6, IssueFacts, Zenon
    <3>2. Issue(s).pc = s.pc + 1 /\ Issue(s).local_time = s.local_time
      BY <1>1, <2>6, IssueFacts, Zenon
    <3> QED BY <2>3, <3>1, <3>2, Zenon
  <2>9. CASE script[s.pc].kind = "Write"
    <3>1. /\ q.op.op.token = k.next_store_id
          /\ q.cpu.store_buffer =
                         Append(k.store_buffer,
                                [store_id |-> k.next_store_id, addr |-> script[s.pc].addr,
                                 size |-> script[s.pc].size, value |-> script[s.pc].value])
          /\ q.cpu.cache =
                         (IF Uncached(script[s.pc]) THEN k.cache
                          ELSE CacheWrite(k.cache, script[s.pc].addr, script[s.pc].size,
                                          script[s.pc].value))
          /\ q.cpu.next_store_id = k.next_store_id + 1
      <4>1. OpOf(s).token = s.next_store_id
        BY <1>1, <2>2, <2>9, OpOfFacts, Zenon
      <4>2. /\ Issue(s).store_buffer =
                 Append(s.store_buffer,
                        [store_id |-> s.next_store_id, addr |-> script[s.pc].addr,
                         size |-> script[s.pc].size, value |-> script[s.pc].value])
            /\ Issue(s).cache =
                 (IF Uncached(script[s.pc]) THEN s.cache
                  ELSE CacheWrite(s.cache, script[s.pc].addr, script[s.pc].size,
                                  script[s.pc].value))
            /\ Issue(s).next_store_id = s.next_store_id + 1
        BY <1>1, <2>6, <2>9, IssueFacts, Zenon
      <4> QED BY <1>1, <2>3, <4>1, <4>2, Zenon
    <3>2. Produces(k, q, c, script)
      BY <1>1, <2>2, <2>3, <2>4, <2>5, <2>7, <2>8, <2>9, <3>1, Zenon DEF Produces, n
    <3> QED BY <3>2 DEF q
  <2>10. CASE script[s.pc].kind # "Write"
    <3>1. /\ q.cpu.store_buffer = k.store_buffer /\ q.cpu.cache = k.cache
          /\ q.cpu.next_store_id = k.next_store_id
      <4>1. /\ Issue(s).store_buffer = s.store_buffer /\ Issue(s).cache = s.cache
            /\ Issue(s).next_store_id = s.next_store_id
        BY <1>1, <2>6, <2>10, IssueFacts, ZenonT(40)
      <4> QED BY <1>1, <2>3, <4>1, Zenon
    <3>2. Produces(k, q, c, script)
      BY <1>1, <2>2, <2>3, <2>4, <2>5, <2>7, <2>8, <2>10, <3>1, Zenon DEF Produces, n
    <3> QED BY <3>2 DEF q
  <2> QED BY <2>9, <2>10
<1> QED BY <1>4, <1>5

\* A CPU at the end of its script stays as it is.
LEMMA ProduceAtEnd ==
    ASSUME NEW c, NEW script \in Seq(ScriptOp), NEW k, IsCpu(k, c, script),
           k.pc = Len(script) + 1, k.local_time \in Nat
    PROVE  produce(k) = [cpu |-> k, op |-> NoOp]
<1>1. RunAhead(k) = k
  BY RunAheadFacts, Zenon
<1>2. done(k)
  BY DEF done, IsCpu
<1> QED BY <1>1, <1>2, Zenon DEF produce

\* What the reply to the operation of instruction ins makes of CPU k
Replies(k, r, ins, response, token) ==
    /\ r.pc = k.pc /\ r.next_store_id = k.next_store_id
    /\ r.local_time = k.local_time + response.stall
    /\ r.store_buffer =
         (IF ins.kind = "Write" THEN retire(k.store_buffer, token) ELSE k.store_buffer)
    /\ ins.kind # "Read" \/ Uncached(ins) => r.cache = k.cache
    /\ ins.kind = "Read" /\ ~Uncached(ins) /\ response.line # <<>> =>
         r.cache = fill_line(k.cache, LineBase(ins.addr), response.line)
    /\ ins.kind = "Read" /\ ~Uncached(ins) /\ response.line = <<>> =>
         r.cache = CacheWrite(fill_line(k.cache, LineBase(ins.addr),
                                        [a \in LineBytes(ins.addr) |-> 0]),
                              ins.addr, ins.size, response.value)

\* It does.
LEMMA ReplyFacts ==
    ASSUME NEW c, NEW script \in Seq(ScriptOp), NEW k, IsCpu(k, c, script),
           NEW index \in 1..Len(script), script[index].kind \in BusKinds,
           NEW response, NEW token
    PROVE  /\ IsCpu(apply_response(k, index, response, token), c, script)
           /\ Replies(k, apply_response(k, index, response, token), script[index], response, token)
<1> DEFINE ins == script[index]
           r == apply_response(k, index, response, token)
           zero == [a \in LineBytes(ins.addr) |-> 0]
           s == [k EXCEPT !.local_time = @ + response.stall]
           h == IF Uncached(ins) THEN k.cache
                ELSE IF response.line # <<>>
                       THEN fill_line(k.cache, LineBase(ins.addr), response.line)
                       ELSE CacheWrite(fill_line(k.cache, LineBase(ins.addr), zero),
                                       ins.addr, ins.size, response.value)
           b == retire(k.store_buffer, token)
<1>1. /\ s = [f \in CpuFields |-> s[f]]
      /\ s.id = c /\ s.script = script /\ s.pc = k.pc /\ s.next_store_id = k.next_store_id
      /\ s.local_time = k.local_time + response.stall
      /\ s.store_buffer = k.store_buffer /\ s.cache = k.cache
  BY DEF IsCpu, CpuFields
<1>2. k.script = script /\ k.pc \in 1..(Len(script) + 1)
  BY DEF IsCpu
<1>3. /\ ins.kind = "Write" => r = [s EXCEPT !.store_buffer = retire(@, token)]
      /\ ins.kind = "Barrier" => r = s
      /\ ins.kind = "Read" =>
           r = [s EXCEPT !.last_read = response.value,
                         !.cache = IF Uncached(ins) THEN @
                                   ELSE IF response.line # <<>>
                                          THEN fill_line(@, LineBase(ins.addr), response.line)
                                   ELSE CacheWrite(fill_line(@, LineBase(ins.addr), zero),
                                                   ins.addr, ins.size, response.value)]
  BY <1>2 DEF apply_response
<1> HIDE DEF s, r
<1>4. CASE ins.kind = "Write"
  <2>1. r = [s EXCEPT !.store_buffer = b]
    BY <1>1, <1>3, <1>4
  <2> HIDE DEF b
  <2>2. /\ r = [f \in CpuFields |-> r[f]]
        /\ r.id = c /\ r.script = script /\ r.pc = k.pc /\ r.next_store_id = k.next_store_id
        /\ r.local_time = k.local_time + response.stall
        /\ r.store_buffer = b /\ r.cache = k.cache
    BY <1>1, <2>1 DEF CpuFields
  <2>3. IsCpu(r, c, script) /\ Replies(k, r, ins, response, token)
    BY <1>2, <1>4, <2>2 DEF IsCpu, Replies, b
  <2> QED BY <2>3 DEF r
<1>5. CASE ins.kind = "Barrier"
  <2>1. IsCpu(r, c, script) /\ Replies(k, r, ins, response, token)
    BY <1>1, <1>2, <1>3, <1>5 DEF IsCpu, Replies
  <2> QED BY <2>1 DEF r
<1>6. CASE ins.kind = "Read"
  <2>1. r = [s EXCEPT !.last_read = response.value, !.cache = h]
    BY <1>1, <1>3, <1>6
  <2> HIDE DEF h
  <2>2. /\ r = [f \in CpuFields |-> r[f]]
        /\ r.id = c /\ r.script = script /\ r.pc = k.pc /\ r.next_store_id = k.next_store_id
        /\ r.local_time = k.local_time + response.stall
        /\ r.store_buffer = k.store_buffer /\ r.cache = h
    BY <1>1, <2>1 DEF CpuFields
  <2>3. IsCpu(r, c, script) /\ Replies(k, r, ins, response, token)
    BY <1>2, <1>6, <2>2 DEF IsCpu, Replies, h
  <2> QED BY <2>3 DEF r
<1> QED BY <1>4, <1>5, <1>6 DEF BusKinds

-----------------------------------------------------------------------------
(* commit_batch: whatever the latencies, devices, watermarks and faults, it *)
(* answers some of the operations it is called with, and nothing else      *)

\* The operations of the batch in progress, accepted, pending and committed
\* ones, all belong to H
BatchOf(H) ==
    /\ call = [phase |-> call.phase, ops |-> call.ops, next |-> call.next,
               pending |-> call.pending, committed |-> call.committed]
    /\ call.ops \in Seq(H)
    /\ call.next \in Nat \ {0}
    /\ call.pending \in Seq([index : Nat, op : H])
    /\ IsSeq(call.committed)
    /\ \A i \in 1..Len(call.committed) : call.committed[i].op \in H

\* The batch starts with the operations the caller passed.
LEMMA BatchCallOf ==
    ASSUME NEW H, NEW ops \in Seq(H), BatchCall(ops)
    PROVE  BatchOf(H)' /\ call'.committed = <<>>
<1>1. call' = [phase |-> "enqueue", ops |-> ops, next |-> 1, pending |-> <<>>, committed |-> <<>>]
  BY DEF BatchCall, IdleCall
<1> QED BY <1>1, EmptyIsSeq DEF BatchOf

\* Accepting or refusing an operation leaves the results alone.
LEMMA BatchEnqueueOf ==
    ASSUME NEW H, BatchOf(H), BatchEnqueue
    PROVE  BatchOf(H)' /\ call'.committed = call.committed
<1> DEFINE op == call.ops[call.next]
<1>1. op \in H
  BY DEF BatchOf, BatchEnqueue
<1>2. CASE call' = [call EXCEPT !.next = @ + 1,
                                !.pending = Append(@, [index |-> call.next, op |-> op])]
  <2>1. call' = [phase |-> call.phase, ops |-> call.ops, next |-> call.next + 1,
                 pending |-> Append(call.pending, [index |-> call.next, op |-> op]),
                 committed |-> call.committed]
    BY <1>2 DEF BatchOf
  <2>2. Append(call.pending, [index |-> call.next, op |-> op]) \in Seq([index : Nat, op : H])
    BY <1>1 DEF BatchOf
  <2> QED BY <2>1, <2>2 DEF BatchOf
<1>3. CASE call' = [call EXCEPT !.next = @ + 1]
  <2>1. call' = [phase |-> call.phase, ops |-> call.ops, next |-> call.next + 1,
                 pending |-> call.pending, committed |-> call.committed]
    BY <1>3 DEF BatchOf
  <2> QED BY <2>1 DEF BatchOf
<1> QED BY <1>2, <1>3 DEF BatchEnqueue

\* The end of a loop changes the phase only.
LEMMA BatchPhaseOf ==
    ASSUME NEW H, BatchOf(H), BatchEnqueued \/ BatchReturn
    PROVE  BatchOf(H)' /\ call'.committed = call.committed
<1>1. \E phase : call' = [phase |-> phase, ops |-> call.ops, next |-> call.next,
                          pending |-> call.pending, committed |-> call.committed]
  BY DEF BatchOf, BatchEnqueued, BatchReturn
<1> QED BY <1>1 DEF BatchOf

\* Committing moves an operation from pending to committed.
LEMMA BatchCommitOf ==
    ASSUME NEW H, BatchOf(H), BatchCommit
    PROVE  BatchOf(H)'
<1>1. PICK w \in Committable :
        call' = [call EXCEPT
            !.pending = RemoveIndex(@, w),
            !.committed = Append(@, [index |-> call.pending[w].index, op |-> call.pending[w].op,
                                     response |-> Response(call.pending[w].op, HadTie(w))])]
  BY DEF BatchCommit
<1> DEFINE e == [index |-> call.pending[w].index, op |-> call.pending[w].op,
                 response |-> Response(call.pending[w].op, HadTie(w))]
<1>2. w \in 1..Len(call.pending)
  BY DEF Committable
<1>3. e.op \in H
  <2> HIDE DEF e
  <2>1. call.pending \in Seq([index : Nat, op : H])
    BY DEF BatchOf
  <2>2. call.pending[w] \in [index : Nat, op : H]
    BY <1>2, <2>1, ElementType
  <2>3. call.pending[w].op \in H
    BY <2>2
  <2> QED BY <2>3 DEF e
<1>4. call' = [phase |-> call.phase, ops |-> call.ops, next |-> call.next,
               pending |-> RemoveIndex(call.pending, w), committed |-> Append(call.committed, e)]
  BY <1>1 DEF BatchOf
<1>5. RemoveIndex(call.pending, w) \in Seq([index : Nat, op : H])
  BY <1>2, EraseType DEF BatchOf
<1> HIDE DEF e
<1>6. /\ IsSeq(Append(call.committed, e))
      /\ \A i \in 1..Len(Append(call.committed, e)) : Append(call.committed, e)[i].op \in H
  <2>1. IsSeq(call.committed) /\ Len(call.committed) \in Nat
    BY DEF BatchOf, IsSeq
  <2> QED BY <1>3, <2>1, AppendAny DEF BatchOf
<1> QED BY <1>4, <1>5, <1>6 DEF BatchOf

\* Inside commit_batch no operation appears that the caller did not pass.
LEMMA BatchAnswersItsOps ==
    ASSUME NEW H, BatchOf(H), BatchEnqueue \/ BatchEnqueued \/ BatchCommit \/ BatchReturn
    PROVE  BatchOf(H)'
BY BatchEnqueueOf, BatchPhaseOf, BatchCommitOf

-----------------------------------------------------------------------------
(* commit_batch as the loops call it, with at most one operation h[c] of   *)
(* each CPU c \in D                                                        *)

Ops(D, h) == {h[c] : c \in D}

\* While the first loop runs: it has accepted the operations before next and
\* has seen no earlier one of the CPUs that follow
Accepting(D, h) ==
    /\ call.committed = <<>>
    /\ Len(call.pending) = call.next - 1
    /\ call.next <= Len(call.ops) + 1
    /\ \A i \in 1..Len(call.pending) : call.pending[i].op = call.ops[i]
    /\ \A i, j \in 1..Len(call.ops) : call.ops[i].cpu = call.ops[j].cpu => i = j
    /\ \A c \in D : \E i \in 1..Len(call.ops) : call.ops[i] = h[c]
    /\ DOMAIN producer_last_enqueued_req_time = Slots
    /\ \A i \in call.next..Len(call.ops) :
          producer_last_enqueued_req_time[call.ops[i].cpu] = None

\* Afterwards: each CPU has one operation, pending or committed
Answering(D, h) ==
    /\ \A i, j \in 1..Len(call.pending) : call.pending[i].op.cpu = call.pending[j].op.cpu => i = j
    /\ \A i, j \in 1..Len(call.committed) :
          call.committed[i].op.cpu = call.committed[j].op.cpu => i = j
    /\ \A i \in 1..Len(call.pending), j \in 1..Len(call.committed) :
          call.pending[i].op.cpu # call.committed[j].op.cpu
    /\ \A c \in D :
          \/ \E i \in 1..Len(call.pending) : call.pending[i].op = h[c]
          \/ \E i \in 1..Len(call.committed) : call.committed[i].op = h[c]

OnePerCpu(D, h) ==
    /\ D \subseteq CpuIds
    /\ \A c \in D : h[c].cpu = c /\ h[c].producer = "Auto"
    /\ BatchOf(Ops(D, h))
    /\ call.phase \in {"enqueue", "commit", "return"}
    /\ call.phase = "enqueue" => Accepting(D, h)
    /\ call.phase # "enqueue" => Answering(D, h)

\* What is known of an operation of the batch.
LEMMA OpOfBatch ==
    ASSUME NEW D, NEW h, \A c \in D : h[c].cpu = c /\ h[c].producer = "Auto", D \subseteq CpuIds,
           NEW op \in Ops(D, h)
    PROVE  op.cpu \in D /\ op = h[op.cpu] /\ producer_slot(op) = op.cpu
<1>1. PICK c \in D : op = h[c]
  BY DEF Ops
<1>2. op.cpu = c /\ op.producer = "Auto" /\ c \in {0, 1}
  BY <1>1 DEF CpuIds
<1> QED BY <1>1, <1>2 DEF producer_slot

\* The batch starts.
LEMMA OneCall ==
    ASSUME NEW D \in SUBSET CpuIds, NEW h, \A c \in D : h[c].cpu = c /\ h[c].producer = "Auto",
           NEW ops \in Seq(Ops(D, h)), BatchCall(ops),
           \A i, j \in 1..Len(ops) : ops[i].cpu = ops[j].cpu => i = j,
           \A c \in D : \E i \in 1..Len(ops) : ops[i] = h[c]
    PROVE  OnePerCpu(D, h)'
<1>1. BatchOf(Ops(D, h))'
  BY BatchCallOf DEF BatchOf
<1>2. call' = [phase |-> "enqueue", ops |-> ops, next |-> 1, pending |-> <<>>, committed |-> <<>>]
  BY DEF BatchCall, IdleCall
<1>3. /\ call'.phase = "enqueue" /\ call'.ops = ops /\ call'.next = 1
      /\ call'.pending = <<>> /\ call'.committed = <<>>
  BY <1>2
<1>4. producer_last_enqueued_req_time' = [s \in Slots |-> None]
  BY DEF BatchCall
<1>5. \A i \in 1..Len(ops) : ops[i].cpu \in CpuIds
  BY OpOfBatch, ElementType
<1>6. CpuIds \subseteq Slots
  BY DEF CpuIds, Slots
<1>7. \A i \in 1..Len(ops) : producer_last_enqueued_req_time'[ops[i].cpu] = None
  BY <1>4, <1>5, <1>6
<1>8. Accepting(D, h)'
  BY <1>3, <1>4, <1>7, EmptyIsSeq DEF Accepting
<1> QED BY <1>1, <1>3, <1>8 DEF OnePerCpu

\* The first loop accepts every operation.
LEMMA OneEnqueue ==
    ASSUME NEW D, NEW h, OnePerCpu(D, h), BatchEnqueue
    PROVE  OnePerCpu(D, h)' /\ UNCHANGED traceVars
<1> DEFINE op == call.ops[call.next]
           slots == producer_last_enqueued_req_time
<1>1. /\ call.phase = "enqueue" /\ Accepting(D, h) /\ BatchOf(Ops(D, h))
      /\ call.next \in Nat \ {0} /\ call.ops \in Seq(Ops(D, h)) /\ call.next <= Len(call.ops)
  BY DEF OnePerCpu, BatchEnqueue, BatchOf
<1>2. op \in Ops(D, h)
  BY <1>1, ElementType
<1>3. op.cpu \in CpuIds /\ producer_slot(op) = op.cpu
  BY <1>2, OpOfBatch DEF OnePerCpu
<1>4. slots[op.cpu] = None
  BY <1>1 DEF Accepting
<1>5. EnqueueOk(op)
  BY <1>3, <1>4 DEF EnqueueOk
<1>6. /\ slots' = [slots EXCEPT ![op.cpu] = op.req]
      /\ call' = [call EXCEPT !.next = @ + 1,
                              !.pending = Append(@, [index |-> call.next, op |-> op])]
      /\ UNCHANGED traceVars
  BY <1>3, <1>5 DEF BatchEnqueue
<1>7. BatchOf(Ops(D, h))'
  BY <1>1, BatchEnqueueOf DEF BatchOf
<1> DEFINE e == [index |-> call.next, op |-> op]
<1>8. call' = [phase |-> call.phase, ops |-> call.ops, next |-> call.next + 1,
               pending |-> Append(call.pending, e), committed |-> call.committed]
  BY <1>1, <1>6 DEF BatchOf
<1>9. /\ call'.phase = call.phase /\ call'.ops = call.ops /\ call'.next = call.next + 1
      /\ call'.pending = Append(call.pending, e) /\ call'.committed = call.committed
  BY <1>8
<1>10. e.op = op /\ IsSeq(call.pending)
  BY <1>1 DEF BatchOf, IsSeq
<1> HIDE DEF e
<1>11. /\ Len(call'.pending) = Len(call.pending) + 1 /\ Len(call.pending) \in Nat
       /\ \A i \in 1..Len(call.pending) : call'.pending[i] = call.pending[i]
       /\ call'.pending[Len(call.pending) + 1] = e
  BY <1>9, <1>10, AppendAny
<1>12. ASSUME NEW i \in 1..Len(call'.pending) PROVE call'.pending[i].op = call'.ops[i]
  BY <1>1, <1>9, <1>10, <1>11 DEF Accepting
<1>13. ASSUME NEW i \in call'.next..Len(call.ops) PROVE slots'[call.ops[i].cpu] = None
  <2>1. i \in 1..Len(call.ops) /\ i \in call.next..Len(call.ops) /\ i # call.next
        /\ call.next \in 1..Len(call.ops)
    BY <1>1, <1>9
  <2>2. call.ops[i].cpu # op.cpu /\ slots[call.ops[i].cpu] = None
    BY <1>1, <2>1 DEF Accepting
  <2>3. call.ops[i].cpu \in CpuIds
    BY <1>1, <2>1, OpOfBatch, ElementType DEF OnePerCpu
  <2> QED BY <1>1, <1>6, <2>2, <2>3 DEF Accepting, CpuIds, Slots
<1>14. Accepting(D, h)'
  <2>1. DOMAIN slots' = Slots
    BY <1>1, <1>6 DEF Accepting
  <2>2. Len(call'.pending) = call'.next - 1 /\ call'.next <= Len(call'.ops) + 1
    BY <1>1, <1>9, <1>11 DEF Accepting
  <2> QED BY <1>1, <1>9, <1>12, <1>13, <2>1, <2>2, SMTT(40) DEF Accepting
<1> QED BY <1>1, <1>6, <1>7, <1>9, <1>14 DEF OnePerCpu

\* The first loop ends when it has accepted all of them.
LEMMA OneEnqueued ==
    ASSUME NEW D, NEW h, OnePerCpu(D, h), BatchEnqueued, ~should_halt
    PROVE  OnePerCpu(D, h)'
<1>1. /\ call.phase = "enqueue" /\ Accepting(D, h) /\ BatchOf(Ops(D, h))
      /\ call.next \in Nat \ {0} /\ call.ops \in Seq(Ops(D, h)) /\ call.next > Len(call.ops)
  BY DEF OnePerCpu, BatchEnqueued, BatchOf
<1>2. call' = [phase |-> "commit", ops |-> call.ops, next |-> call.next,
               pending |-> call.pending, committed |-> call.committed]
  BY <1>1 DEF BatchEnqueued, BatchOf
<1>3. call'.phase = "commit" /\ call'.pending = call.pending /\ call'.committed = <<>>
  BY <1>1, <1>2 DEF Accepting
<1>4. BatchOf(Ops(D, h))'
  BY <1>1, BatchPhaseOf DEF BatchOf
<1>5. Len(call.pending) = Len(call.ops) /\ \A i \in 1..Len(call.ops) : call.pending[i].op = call.ops[i]
  BY <1>1 DEF Accepting
<1>6. Answering(D, h)'
  BY <1>1, <1>3, <1>5, EmptyIsSeq, SMTT(40) DEF Accepting, Answering
<1> QED BY <1>3, <1>4, <1>6 DEF OnePerCpu

\* The second loop ends.
LEMMA OneReturn ==
    ASSUME NEW D, NEW h, OnePerCpu(D, h), BatchReturn
    PROVE  OnePerCpu(D, h)' /\ call'.pending = call.pending /\ call'.committed = call.committed
<1>1. call.phase = "commit" /\ BatchOf(Ops(D, h)) /\ Answering(D, h)
  BY DEF OnePerCpu, BatchReturn
<1>2. call' = [phase |-> "return", ops |-> call.ops, next |-> call.next,
               pending |-> call.pending, committed |-> call.committed]
  BY <1>1 DEF BatchReturn, BatchOf
<1>3. call'.phase = "return" /\ call'.pending = call.pending /\ call'.committed = call.committed
  BY <1>2
<1>4. BatchOf(Ops(D, h))'
  BY <1>1, BatchPhaseOf DEF BatchOf
<1> QED BY <1>1, <1>3, <1>4 DEF OnePerCpu, Answering

\* Where the element at i was before element w was erased
Before(i, w) == IF i < w THEN i ELSE i + 1

\* Where the element at i is afterwards
After(i, w) == IF i < w THEN i ELSE i - 1

\* t is s without element w
Erased(s, t, w, S) ==
    /\ t \in Seq(S) /\ Len(t) = Len(s) - 1 /\ Len(s) \in Nat
    /\ \A i \in 1..Len(t) :
          Before(i, w) \in 1..Len(s) /\ Before(i, w) # w /\ t[i] = s[Before(i, w)]
    /\ \A i, k \in 1..Len(t) : Before(i, w) = Before(k, w) => i = k
    /\ \A i \in 1..Len(s) : i # w => After(i, w) \in 1..Len(t) /\ t[After(i, w)] = s[i]

\* What erasing element w leaves.
LEMMA EraseFacts ==
    ASSUME NEW S, NEW s \in Seq(S), NEW w \in 1..Len(s), NEW t, t = RemoveIndex(s, w)
    PROVE  Erased(s, t, w, S)
<1>1. t \in Seq(S) /\ Len(s) \in Nat
  BY EraseType
<1>2. t = [k \in 1..(Len(s) - 1) |-> IF k < w THEN s[k] ELSE s[k + 1]]
  BY DEF RemoveIndex
<1>3. Len(t) = Len(s) - 1
  BY <1>1, <1>2
<1>4. \A i \in 1..Len(t) :
         Before(i, w) \in 1..Len(s) /\ Before(i, w) # w /\ t[i] = s[Before(i, w)]
  BY <1>1, <1>2, <1>3 DEF Before
<1>6. \A i, k \in 1..Len(t) : Before(i, w) = Before(k, w) => i = k
  BY <1>1, <1>3 DEF Before
<1>5. ASSUME NEW i \in 1..Len(s), i # w PROVE After(i, w) \in 1..Len(t) /\ t[After(i, w)] = s[i]
  BY <1>1, <1>2, <1>3, <1>5 DEF After
<1> QED BY <1>1, <1>3, <1>4, <1>5, <1>6 DEF Erased

\* The iteration moves the pending operation w to the results, as e
Serves(w, e) == call' = [call EXCEPT !.pending = RemoveIndex(@, w), !.committed = Append(@, e)]

\* An iteration of the second loop, that executes the pending operation w.
LEMMA OneCommit ==
    ASSUME NEW D, NEW h, OnePerCpu(D, h), call.phase = "commit",
           NEW w \in 1..Len(call.pending), NEW e, e.op = call.pending[w].op, Serves(w, e)
    PROVE  /\ OnePerCpu(D, h)'
           /\ e.op.cpu \in D /\ e.op = h[e.op.cpu]
           /\ call'.phase = "commit"
           /\ Len(call.committed) \in Nat /\ Len(call'.committed) = Len(call.committed) + 1
           /\ \A i \in 1..Len(call.committed) : call'.committed[i] = call.committed[i]
           /\ call'.committed[Len(call.committed) + 1] = e
<1> DEFINE H == Ops(D, h)
           pend == call.pending
           left == RemoveIndex(call.pending, w)
           done0 == call.committed
           done1 == Append(call.committed, e)
           P == [index : Nat, op : H]
<1>1. BatchOf(H) /\ Answering(D, h)
  BY DEF OnePerCpu
<1>2. /\ call = [phase |-> call.phase, ops |-> call.ops, next |-> call.next,
                 pending |-> call.pending, committed |-> call.committed]
      /\ pend \in Seq(P) /\ IsSeq(done0)
      /\ \A i \in 1..Len(done0) : done0[i].op \in H
      /\ call.ops \in Seq(H) /\ call.next \in Nat \ {0}
  BY <1>1 DEF BatchOf
<1>3. call' = [phase |-> "commit", ops |-> call.ops, next |-> call.next,
               pending |-> left, committed |-> done1]
  BY <1>2 DEF Serves
<1> HIDE DEF H, left, done1, P
<1>4. /\ call'.phase = "commit" /\ call'.ops = call.ops /\ call'.next = call.next
      /\ call'.pending = left /\ call'.committed = done1
  BY <1>3
<1>5. /\ IsSeq(done1) /\ Len(done0) \in Nat /\ Len(done1) = Len(done0) + 1
      /\ \A i \in 1..Len(done0) : done1[i] = done0[i]
      /\ done1[Len(done0) + 1] = e
  BY <1>2, AppendAny DEF done1
<1>6. \A i \in 1..Len(pend) : pend[i].op \in H
  <2> TAKE i \in 1..Len(pend)
  <2>1. pend[i] \in P
    BY <1>2, ElementType
  <2> QED BY <2>1 DEF P
<1>7. /\ left \in Seq(P) /\ Len(left) = Len(pend) - 1 /\ Len(pend) \in Nat
      /\ \A i \in 1..Len(left) :
            Before(i, w) \in 1..Len(pend) /\ Before(i, w) # w /\ left[i] = pend[Before(i, w)]
      /\ \A i, k \in 1..Len(left) : Before(i, w) = Before(k, w) => i = k
      /\ \A i \in 1..Len(pend) :
            i # w => After(i, w) \in 1..Len(left) /\ left[After(i, w)] = pend[i]
  <2>1. left = RemoveIndex(pend, w)
    BY DEF left
  <2> HIDE DEF pend
  <2>2. w \in 1..Len(pend)
    BY DEF pend
  <2>3. pend \in Seq(P)
    BY <1>2
  <2>4. Erased(pend, left, w, P)
    BY <2>1, <2>2, <2>3, EraseFacts
  <2> QED BY <2>4 DEF Erased
<1>8. e.op \in H /\ \A i \in 1..Len(done1) : done1[i].op \in H
  BY <1>2, <1>5, <1>6
<1>9. e.op.cpu \in D /\ e.op = h[e.op.cpu]
  BY <1>8, OpOfBatch DEF OnePerCpu, H
<1>10. BatchOf(Ops(D, h))'
  BY <1>2, <1>3, <1>4, <1>5, <1>7, <1>8 DEF BatchOf, H, P
<1>11. ASSUME NEW i \in 1..Len(left), NEW j \in 1..Len(left), left[i].op.cpu = left[j].op.cpu
       PROVE  i = j
  <2> DEFINE a == Before(i, w)
             b == Before(j, w)
  <2>1. /\ a \in 1..Len(pend) /\ left[i] = pend[a]
        /\ b \in 1..Len(pend) /\ left[j] = pend[b]
    BY <1>7
  <2>2. a = b => i = j
    BY <1>7
  <2> HIDE DEF a, b
  <2> QED BY <1>1, <1>11, <2>1, <2>2 DEF Answering
<1>12. ASSUME NEW i \in 1..Len(done0) PROVE done0[i].op.cpu # e.op.cpu
  BY <1>1 DEF Answering
<1>13. ASSUME NEW i \in 1..Len(done1), NEW j \in 1..Len(done1), done1[i].op.cpu = done1[j].op.cpu
       PROVE  i = j
  <2>1. i \in 1..Len(done0) \/ i = Len(done0) + 1
    BY <1>5
  <2>2. j \in 1..Len(done0) \/ j = Len(done0) + 1
    BY <1>5
  <2> QED BY <1>1, <1>5, <1>12, <1>13, <2>1, <2>2 DEF Answering
<1>14. ASSUME NEW i \in 1..Len(left), NEW j \in 1..Len(done1)
       PROVE  left[i].op.cpu # done1[j].op.cpu
  <2>1. PICK l \in 1..Len(pend) : l # w /\ left[i] = pend[l]
    BY <1>7
  <2>2. CASE j \in 1..Len(done0)
    <3>1. done1[j] = done0[j]
      BY <1>5, <2>2
    <3>2. pend[l].op.cpu # done0[j].op.cpu
      BY <1>1, <2>2 DEF Answering
    <3> QED BY <2>1, <3>1, <3>2
  <2>3. CASE j = Len(done0) + 1
    BY <1>1, <1>5, <2>1, <2>3, SMTT(40) DEF Answering
  <2> QED BY <1>5, <2>2, <2>3
<1>15. ASSUME NEW c \in D
       PROVE  \/ \E i \in 1..Len(left) : left[i].op = h[c]
              \/ \E i \in 1..Len(done1) : done1[i].op = h[c]
  <2>1. CASE \E i \in 1..Len(done0) : done0[i].op = h[c]
    BY <1>5, <2>1
  <2>2. CASE \E i \in 1..Len(pend) : pend[i].op = h[c]
    <3>1. PICK i \in 1..Len(pend) : pend[i].op = h[c]
      BY <2>2
    <3>2. CASE i = w
      <4>1. Len(done1) \in 1..Len(done1) /\ done1[Len(done1)].op = h[c]
        BY <1>5, <3>1, <3>2
      <4> QED BY <4>1
    <3>3. CASE i # w
      <4>1. \E j \in 1..Len(left) : left[j] = pend[i]
        BY <1>7, <3>3
      <4> QED BY <3>1, <4>1
    <3> QED BY <3>2, <3>3
  <2> QED BY <1>1, <2>1, <2>2 DEF Answering
<1>16. Answering(D, h)'
  BY <1>4, <1>11, <1>13, <1>14, <1>15 DEF Answering
<1> QED BY <1>4, <1>5, <1>9, <1>10, <1>16 DEF OnePerCpu

\* The operations that a loop holds, held[c] that of CPU c: whose they are, and the
\* vector it passes, CPU 0's before CPU 1's
Holders(held) == {c \in CpuIds : Has(held[c])}
OpsBy(held) == [c \in CpuIds |-> held[c].op]
OpsOf(held) ==
    (IF Has(held[0]) THEN <<held[0].op>> ELSE <<>>) \o (IF Has(held[1]) THEN <<held[1].op>> ELSE <<>>)

\* The vector has each of them once.
LEMMA OpsOfFacts ==
    ASSUME NEW held, \A c \in CpuIds : Has(held[c]) => held[c].op.cpu = c /\ held[c].op.producer = "Auto"
    PROVE  /\ Holders(held) \in SUBSET CpuIds
           /\ \A c \in Holders(held) : OpsBy(held)[c].cpu = c /\ OpsBy(held)[c].producer = "Auto"
           /\ OpsOf(held) \in Seq(Ops(Holders(held), OpsBy(held)))
           /\ \A i, j \in 1..Len(OpsOf(held)) : OpsOf(held)[i].cpu = OpsOf(held)[j].cpu => i = j
           /\ \A c \in Holders(held) : \E i \in 1..Len(OpsOf(held)) : OpsOf(held)[i] = OpsBy(held)[c]
<1>1. \A c \in Holders(held) : c \in CpuIds /\ Has(held[c]) /\ OpsBy(held)[c] = held[c].op /\ held[c].op.cpu = c
                          /\ held[c].op.producer = "Auto"
  BY DEF Holders, OpsBy
<1>2. \A c \in CpuIds : Has(held[c]) => c \in Holders(held)
  BY DEF Holders
<1> DEFINE H == Ops(Holders(held), OpsBy(held))
<1>3. \A c \in Holders(held) : held[c].op \in H
  BY <1>1 DEF Ops
<1> HIDE DEF H
<1>4. CASE Has(held[0]) /\ Has(held[1])
  <2> DEFINE a == held[0].op
             b == held[1].op
  <2>1. OpsOf(held) = <<a>> \o <<b>>
    BY <1>4 DEF OpsOf
  <2>2. /\ 0 \in Holders(held) /\ 1 \in Holders(held) /\ a.cpu = 0 /\ b.cpu = 1
        /\ OpsBy(held)[0] = a /\ OpsBy(held)[1] = b /\ a \in H /\ b \in H
    BY <1>1, <1>2, <1>3, <1>4 DEF CpuIds
  <2> HIDE DEF a, b
  <2>3. /\ OpsOf(held) \in Seq(H) /\ Len(OpsOf(held)) = 2 /\ OpsOf(held)[1] = a /\ OpsOf(held)[2] = b
        /\ 1 \in 1..Len(OpsOf(held)) /\ 2 \in 1..Len(OpsOf(held))
    BY <2>1, <2>2
  <2>4. \A i \in 1..Len(OpsOf(held)) : i = 1 \/ i = 2
    BY <2>3
  <2>5. \A i, j \in 1..Len(OpsOf(held)) : OpsOf(held)[i].cpu = OpsOf(held)[j].cpu => i = j
    BY <2>2, <2>3, <2>4
  <2>6. \A c \in Holders(held) : \E i \in 1..Len(OpsOf(held)) : OpsOf(held)[i] = OpsBy(held)[c]
    BY <1>1, <2>2, <2>3 DEF CpuIds
  <2> QED BY <1>1, <2>3, <2>5, <2>6 DEF H, Holders
<1>5. CASE Has(held[0]) /\ ~Has(held[1])
  <2>1. OpsOf(held) = <<held[0].op>>
    BY <1>5 DEF OpsOf
  <2> QED BY <1>1, <1>2, <1>3, <1>5, <2>1 DEF CpuIds, H, Holders
<1>6. CASE ~Has(held[0]) /\ Has(held[1])
  <2>1. OpsOf(held) = <<held[1].op>>
    BY <1>6 DEF OpsOf
  <2> QED BY <1>1, <1>2, <1>3, <1>6, <2>1 DEF CpuIds, H, Holders
<1>7. CASE ~Has(held[0]) /\ ~Has(held[1])
  <2>1. OpsOf(held) = <<>>
    BY <1>7 DEF OpsOf
  <2> QED BY <1>1, <1>7, <2>1, EmptyIsSeq DEF CpuIds, H, Holders
<1> QED BY <1>4, <1>5, <1>6, <1>7

-----------------------------------------------------------------------------
(* The time an operation takes *)

\* The least time the bus is busy with an operation, whatever it is
BaseFields == {"ram_read", "ram_write", "ifetch", "mmio_read", "mmio_write", "barrier"}

PositiveLatencies == \A f \in BaseFields : Latency[f] > 0

\* An operation of a script has one of the kinds of the bus.
LEMMA OpKind ==
    ASSUME NEW op, NEW c, NEW ins, NEW t, IsOpFor(op, c, ins, t)
    PROVE  op.kind \in Kinds /\ (op.kind = "Barrier" <=> ins.kind = "Barrier")
BY DEF IsOpFor, Kinds, BusKinds

\* The base latency is one of the model's.
LEMMA BaseLatency ==
    ASSUME NEW op, op.kind \in Kinds
    PROVE  base_latency(op) \in Nat /\ (PositiveLatencies => base_latency(op) > 0)
<1>1. \A f \in BaseFields : Latency[f] \in Nat
  BY LatencyAssumption DEF LatencyFields, BaseFields
<1>2. \E f \in BaseFields : base_latency(op) = Latency[f]
  BY DEF base_latency, Kinds, BaseFields
<1> QED BY <1>1, <1>2 DEF PositiveLatencies

\* When an operation starts and finishes, and how long its CPU waits.
LEMMA Times ==
    ASSUME NEW op, op.kind \in Kinds, op.req \in Nat, bus_free_time \in Nat,
           NEW tie \in BOOLEAN
    PROVE  /\ Start(op) \in Nat /\ op.req <= Start(op)
           /\ Finish(op, tie) \in Nat /\ Start(op) <= Finish(op, tie)
           /\ Response(op, tie).stall \in Nat
           /\ PositiveLatencies /\ ~Rejected(op) => Response(op, tie).stall > 0
<1>1. Start(op) \in Nat /\ op.req <= Start(op)
  BY DEF Start
<1>2. contention_extra(op, tie) \in Nat
  <2>1. Latency["same_address_contention"] \in Nat /\ Latency["tie_turnaround"] \in Nat
    BY LatencyAssumption DEF LatencyFields
  <2> QED BY <2>1 DEF contention_extra
<1>3. base_latency(op) \in Nat /\ (PositiveLatencies => base_latency(op) > 0)
  BY BaseLatency
<1>4. /\ Finish(op, tie) = Start(op) + base_latency(op) + contention_extra(op, tie)
      /\ Finish(op, tie) \in Nat
  BY <1>1, <1>2, <1>3 DEF Finish
<1>5. CASE Rejected(op)
  <2>1. Response(op, tie).stall = 0
    BY <1>5 DEF Response
  <2> QED BY <1>1, <1>2, <1>3, <1>4, <1>5, <2>1
<1>6. CASE ~Rejected(op)
  <2> DEFINE value == ValueOf(op)
             stall == Finish(op, tie) - op.req
             line == IF op.kind \in {"Read", "IFetch"} /\ ~ToDevice(op) /\ op.fill > 0
                       THEN LineData(op.addr, op.fill) ELSE <<>>
  <2>1. Response(op, tie) = [value |-> value, stall |-> stall, line |-> line]
    BY <1>6 DEF Response
  <2> HIDE DEF value, line, stall
  <2>2. Response(op, tie).stall = stall
    BY <2>1
  <2> QED BY <1>1, <1>2, <1>3, <1>4, <2>2 DEF stall
<1> QED BY <1>5, <1>6

\* What executing an operation does to the log and to the producers' times.
LEMMA ExecuteFacts ==
    ASSUME NEW op, NEW tie \in BOOLEAN, execute_commit(op, tie), op.kind \in Kinds, op.req \in Nat,
           bus_free_time \in Nat, ~halt_on_fault, ~should_halt
    PROVE  /\ bus_free_time' \in Nat
           /\ ~halt_on_fault' /\ ~should_halt'
           /\ \E line : line.op = op /\ trace' = Append(trace, line)
           /\ \/ Rejected(op) /\ UNCHANGED <<memory, producer_last_req_time>>
              \/ /\ ~Rejected(op)
                 /\ Effect(op)
                 /\ producer_last_req_time' =
                      [producer_last_req_time EXCEPT ![producer_slot(op)] = op.req]
<1>1. CASE Rejected(op) /\ Reject(op)
  <2> DEFINE line == [start |-> Start(op), finish |-> Start(op), op |-> op, stall |-> 0,
                      value |-> kInvalidBusOpValue, fault |-> RejectReason(op)]
  <2>1. trace' = Append(trace, line) /\ line.op = op
    BY <1>1 DEF Reject, fault_response
  <2>2. /\ should_halt' = (should_halt \/ halt_on_fault) /\ halt_on_fault' = halt_on_fault
        /\ UNCHANGED <<bus_free_time, producer_last_req_time, memory>>
    BY <1>1 DEF Reject, fault_response, timingVars, storeVars
  <2> HIDE DEF line
  <2> QED BY <1>1, <2>1, <2>2
<1>2. CASE ~Rejected(op) /\ Grant(op, tie)
  <2> DEFINE line == [start |-> Start(op), finish |-> Finish(op, tie), op |-> op,
                      stall |-> Finish(op, tie) - op.req, value |-> ValueOf(op), fault |-> "none"]
  <2>1. trace' = Append(trace, line) /\ line.op = op
    BY <1>2 DEF Grant, add_commit
  <2>2. /\ UNCHANGED <<halt_on_fault, should_halt>> /\ bus_free_time' = Finish(op, tie)
        /\ Effect(op)
        /\ producer_last_req_time' =
             [producer_last_req_time EXCEPT ![producer_slot(op)] = op.req]
    BY <1>2 DEF Grant, add_commit
  <2>3. Finish(op, tie) \in Nat
    BY Times
  <2> HIDE DEF line
  <2> QED BY <1>2, <2>1, <2>2, <2>3
<1> QED BY <1>1, <1>2 DEF execute_commit

\* An operation within the horizon is earlier than both watermarks.
LEMMA WithinHorizon ==
    ASSUME NEW op, op.req \in Nat, CommitSafe(op), progress_tracking_enabled,
           progress_up_to \in [CpuIds -> Nat], NEW c \in CpuIds
    PROVE  op.req < progress_up_to[c] /\ progress_up_to[c] # TickMax
BY DEF CommitSafe, commit_horizon, has_safe_horizon, CpuIds

\* The watermarks stay ticks.
LEMMA AdvanceType ==
    ASSUME NEW w \in [CpuIds -> Nat], NEW c \in CpuIds, NEW t \in Nat
    PROVE  /\ Advance(w, c, t) \in [CpuIds -> Nat]
           /\ \A d \in CpuIds \ {c} : Advance(w, c, t)[d] = w[d]
           /\ Advance(w, c, t)[c] \in {t, w[c]}
           /\ Advance(w, c, t)[c] = t \/ t <= w[c]
BY DEF Advance, CpuIds

-----------------------------------------------------------------------------
(* pick_next *)

\* The loop of pick_next: best[k] is the best operation once ops[k] was seen
PickRun(best, ops, n, C) ==
    /\ best \in [0..n -> C]
    /\ \A i \in C : best[0] <= i
    /\ \A k \in 1..n :
          best[k] = IF k \in C /\ Beats(ops[k], ops[best[k - 1]]) THEN k ELSE best[k - 1]

\* It runs to the end, by induction on the operations seen.
LEMMA PickRuns ==
    ASSUME NEW ops, NEW n \in Nat, Len(ops) = n, NEW C \in SUBSET (1..n), C # {}
    PROVE  \E best : PickRun(best, ops, n, C) /\ pick_next(ops, C) = best[n]
<1> DEFINE first == CHOOSE i \in C : \A j \in C : i <= j
           W(k, j) == k \in C /\ Beats(ops[k], ops[j])
           T(t) == t = [k \in 0..n |-> IF k = 0 THEN first
                                       ELSE IF W(k, t[k - 1]) THEN k ELSE t[k - 1]]
           Good(t, m) == /\ t \in [0..m -> C] /\ t[0] = first
                         /\ \A k \in 1..m : t[k] = IF W(k, t[k - 1]) THEN k ELSE t[k - 1]
           B == {m \in 0..n : ~\E t : Good(t, m)}
           best == CHOOSE t : T(t)
<1>1. first \in C /\ \A j \in C : first <= j
  <2>1. C \subseteq Nat
    OBVIOUS
  <2>2. \E x \in C : \A y \in C : x <= y
    BY <2>1, LeastElement
  <2> QED BY <2>2
<1>2. pick_next(ops, C) = best[n]
  BY Zenon DEF pick_next
<1>3. \A k, j : W(k, j) => k \in C
  OBVIOUS
<1> HIDE DEF first, W
<1>4. Good([k \in 0..0 |-> first], 0)
  BY <1>1
<1>5. ASSUME NEW m \in 1..n, NEW t, Good(t, m - 1) PROVE \E e : Good(e, m)
  <2> DEFINE e == [k \in 0..m |-> IF k = m THEN (IF W(m, t[m - 1]) THEN m ELSE t[m - 1]) ELSE t[k]]
  <2>1. m \in Nat /\ m - 1 \in 0..(m - 1) /\ t \in [0..(m - 1) -> C] /\ m # 0
    BY <1>5
  <2>2. e \in [0..m -> C]
    BY <1>3, <2>1
  <2>3. e[0] = first
    BY <1>5, <2>1
  <2>4. ASSUME NEW k \in 1..m PROVE e[k] = IF W(k, e[k - 1]) THEN k ELSE e[k - 1]
    <3>1. e[k - 1] = t[k - 1]
      BY <2>1
    <3>2. CASE k = m
      BY <2>1, <3>1, <3>2
    <3>3. CASE k # m
      <4>1. k \in 1..(m - 1) /\ e[k] = t[k]
        BY <2>1, <3>3
      <4> QED BY <1>5, <3>1, <4>1
    <3> QED BY <3>2, <3>3
  <2> HIDE DEF e
  <2> QED BY <2>2, <2>3, <2>4
<1>6. PICK f : Good(f, n)
  <2> HIDE DEF Good
  <2>7. n \in 0..n
    OBVIOUS
  <2> SUFFICES ASSUME B # {} PROVE FALSE
    BY <2>7, Zenon
  <2> HIDE DEF B
  <2>1. B \subseteq Nat
    BY DEF B
  <2>2. PICK k \in B : \A y \in B : k <= y
    BY <2>1, LeastElement, Zenon
  <2>3. k \in 0..n /\ ~\E t : Good(t, k)
    BY <2>2, Zenon DEF B
  <2>4. k # 0
    BY <1>4, <2>3, Zenon
  <2>5. k \in 1..n /\ k - 1 \in 0..n /\ ~(k <= k - 1)
    BY <2>3, <2>4
  <2>6. PICK t : Good(t, k - 1)
    BY <2>2, <2>5, Zenon DEF B
  <2> QED BY <1>5, <2>3, <2>5, <2>6, Zenon
<1>7. T(best)
  <2>1. T(f)
    <3> DEFINE g == [k \in 0..n |-> IF k = 0 THEN first
                                    ELSE IF W(k, f[k - 1]) THEN k ELSE f[k - 1]]
    <3>1. \A k \in 0..n : f[k] = g[k]
      BY <1>6
    <3>2. f = [k \in 0..n |-> f[k]]
      BY <1>6
    <3>3. f = g
      BY <3>1, <3>2
    <3> QED BY <3>3
  <2> HIDE DEF T
  <2> QED BY <2>1, Zenon
<1> HIDE DEF best
<1>8. ASSUME NEW m \in 0..n PROVE best[m] = f[m]
  <2> DEFINE D == {i \in 0..n : best[i] # f[i]}
  <2> SUFFICES ASSUME D # {} PROVE FALSE
    OBVIOUS
  <2> HIDE DEF D
  <2>1. D \subseteq Nat
    BY DEF D
  <2>2. PICK k \in D : \A y \in D : k <= y
    BY <2>1, LeastElement, Zenon
  <2>3. k \in 0..n /\ best[k] # f[k]
    BY <2>2, Zenon DEF D
  <2>4. /\ best[k] = IF k = 0 THEN first ELSE IF W(k, best[k - 1]) THEN k ELSE best[k - 1]
    BY <1>7, <2>3
  <2>5. k # 0
    BY <1>6, <2>3, <2>4
  <2>6. k \in 1..n /\ k - 1 \in 0..n /\ ~(k <= k - 1)
    BY <2>3, <2>5
  <2>7. best[k - 1] = f[k - 1]
    BY <2>2, <2>6, Zenon DEF D
  <2>8. f[k] = IF W(k, f[k - 1]) THEN k ELSE f[k - 1]
    BY <1>6, <2>6
  <2> QED BY <2>3, <2>4, <2>5, <2>7, <2>8
<1>9. best[n] = f[n]
  BY <1>8
<1>10. /\ f \in [0..n -> C] /\ \A i \in C : f[0] <= i
       /\ \A k \in 1..n : f[k] = IF W(k, f[k - 1]) THEN k ELSE f[k - 1]
  BY <1>1, <1>6
<1>11. PickRun(f, ops, n, C)
  BY <1>10, Zenon DEF PickRun, W
<1> QED BY <1>2, <1>9, <1>11

\* Of at most two operations it picks one that the other does not beat, and that
\* beats it if it comes later.
LEMMA PickOfTwo ==
    ASSUME NEW ops, Len(ops) \in {1, 2}, NEW C \in SUBSET (1..Len(ops)), C # {},
           NEW w, w = pick_next(ops, C)
    PROVE  /\ w \in C
           /\ \A i \in C \ {w} : IF i < w THEN Beats(ops[w], ops[i]) ELSE ~Beats(ops[i], ops[w])
<1>1. PICK best : PickRun(best, ops, Len(ops), C) /\ w = best[Len(ops)]
  <2>1. Len(ops) \in Nat
    OBVIOUS
  <2> QED BY <2>1, PickRuns
<1> DEFINE W(k, j) == Beats(ops[k], ops[j])
<1>2. /\ best \in [0..Len(ops) -> C] /\ \A i \in C : best[0] <= i
      /\ \A k \in 1..Len(ops) : best[k] = IF k \in C /\ W(k, best[k - 1]) THEN k ELSE best[k - 1]
  BY <1>1, Zenon DEF PickRun
<1> HIDE DEF W
<1>3. /\ w \in C /\ \A i \in C \ {w} : IF i < w THEN W(w, i) ELSE ~W(i, w)
  <2>1. CASE Len(ops) = 1
    <3>1. C = {1}
      <4>1. \A i \in C : i \in 1..1
        BY <2>1, Zenon
      <4>2. \A i \in C : i = 1
        BY <4>1
      <4> QED BY <4>2, Zenon
    <3>2. w \in C
      BY <1>1, <1>2, <2>1
    <3> QED BY <3>1, <3>2
  <2>2. CASE Len(ops) = 2
    <3>1. /\ best[0] \in C /\ best[1] \in C /\ best[2] \in C /\ C \subseteq {1, 2}
          /\ best[1] = IF 1 \in C /\ W(1, best[0]) THEN 1 ELSE best[0]
          /\ best[2] = IF 2 \in C /\ W(2, best[1]) THEN 2 ELSE best[1]
          /\ w = best[2]
      BY <1>1, <1>2, <2>2
    <3>2. CASE 1 \in C
      <4>1. best[0] <= 1
        BY <1>2, <3>2
      <4>2. best[0] = 1
        <5>1. best[0] = 1 \/ best[0] = 2
          BY <3>1, Zenon
        <5> QED BY <4>1, <5>1
      <4>3. best[1] = 1
        BY <3>1, <4>2
      <4> QED BY <3>1, <3>2, <4>3
    <3>3. CASE 1 \notin C
      <4>1. C = {2}
        BY <3>1, <3>3
      <4> QED BY <3>1, <4>1
    <3> QED BY <3>2, <3>3
  <2> QED BY <2>1, <2>2
<1> QED BY <1>3 DEF W

\* Of two operations of different CPUs that start at the same time exactly one
\* beats the other.
LEMMA OneBeats ==
    ASSUME NEW a, NEW b, a.cpu \in CpuIds, b.cpu \in CpuIds, a.cpu # b.cpu,
           a.producer = "Auto", b.producer = "Auto", Start(a) = Start(b), Start(a) \in Nat
    PROVE  Beats(a, b) <=> ~Beats(b, a)
<1>1. producer_slot(a) = a.cpu /\ producer_slot(b) = b.cpu
  BY DEF producer_slot, CpuIds
<1>2. priority_of(a) \in {0, 1} /\ priority_of(b) \in {0, 1}
  BY DEF priority_of, CpuIds
<1>3. Preferred \in {0, 1}
  BY DEF Preferred
<1> QED BY <1>1, <1>2, <1>3 DEF Beats, is_cpu, CpuIds

-----------------------------------------------------------------------------
(* Lines and caches *)

\* The bytes of the line with this tag
BytesOf(tag) == (tag * LineSize)..(tag * LineSize + LineSize - 1)

\* A line ends where the next one begins.
LEMMA LinesApart ==
    ASSUME NEW s \in Nat \ {0}, NEW i \in Nat, NEW j \in Nat, i < j
    PROVE  i * s + s <= j * s
<1>1. PICK d \in Nat : j = i + 1 + d
  <2>1. j - (i + 1) \in Nat /\ j = i + 1 + (j - (i + 1))
    OBVIOUS
  <2> QED BY <2>1
<1>2. j * s = i * s + s + d * s
  BY <1>1
<1>3. d * s \in Nat /\ i * s \in Nat
  OBVIOUS
<1> QED BY <1>2, <1>3

\* An address belongs to one line only.
LEMMA LineOfByte ==
    ASSUME NEW a \in Nat
    PROVE  /\ LineBase(a) \in Nat
           /\ a \in BytesOf(LineBase(a)) /\ LineBytes(a) = BytesOf(LineBase(a))
           /\ a - LineBase(a) * LineSize = a % LineSize
           /\ \A t \in Nat : a \in BytesOf(t) => t = LineBase(a)
<1>1. LineSize \in Nat \ {0}
  BY CacheAssumption
<1> DEFINE q == a \div LineSize
           r == a % LineSize
<1>2. q \in Nat /\ r \in 0..(LineSize - 1) /\ a = LineSize * q + r
  BY <1>1
<1> HIDE DEF q, r
<1>3. q * LineSize \in Nat /\ a = q * LineSize + r
  BY <1>1, <1>2
<1>4. ASSUME NEW t \in Nat, a \in BytesOf(t) PROVE t = q
  <2>1. t * LineSize \in Nat
    BY <1>1
  <2>2. t * LineSize <= a /\ a < t * LineSize + LineSize
    BY <1>1, <1>4, <2>1 DEF BytesOf
  <2>3. CASE t < q
    <3>1. t * LineSize + LineSize <= q * LineSize
      BY <1>1, <1>2, <2>3, LinesApart
    <3> QED BY <1>1, <1>2, <1>3, <2>1, <2>2, <3>1
  <2>4. CASE q < t
    <3>1. q * LineSize + LineSize <= t * LineSize
      BY <1>1, <1>2, <2>4, LinesApart
    <3> QED BY <1>1, <1>2, <1>3, <2>1, <2>2, <3>1
  <2> QED BY <1>2, <2>3, <2>4
<1>5. a \in BytesOf(q)
  BY <1>1, <1>2, <1>3 DEF BytesOf
<1> QED BY <1>2, <1>3, <1>4, <1>5 DEF LineBase, LineBytes, BytesOf, q, r

\* The bytes that an access touches
Touched(addr, size) == addr..(addr + size - 1)

\* An access that does not cross the end of its line touches that line only.
LEMMA OneLine ==
    ASSUME NEW addr \in Nat, NEW size \in AccessSizes, ~CrossesLine(addr, size)
    PROVE  /\ Touched(addr, size) \subseteq BytesOf(LineBase(addr))
           /\ \A a \in Touched(addr, size) : a \in Nat /\ LineBase(a) = LineBase(addr)
<1>1. LineSize \in Nat \ {0} /\ size \in 1..4
  BY CacheAssumption DEF AccessSizes
<1> DEFINE b == LineBase(addr) * LineSize
<1>2. LineBase(addr) \in Nat /\ addr - b = addr % LineSize /\ addr \in BytesOf(LineBase(addr))
  BY LineOfByte
<1>3. b \in Nat
  BY <1>1, <1>2
<1> HIDE DEF b
<1>4. addr - b + size <= LineSize
  BY <1>1, <1>2 DEF CrossesLine
<1>5. b <= addr
  BY <1>1, <1>2, <1>3 DEF BytesOf, b
<1>6. Touched(addr, size) \subseteq b..(b + LineSize - 1)
  BY <1>1, <1>3, <1>4, <1>5 DEF Touched
<1>7. Touched(addr, size) \subseteq BytesOf(LineBase(addr))
  BY <1>6 DEF BytesOf, b
<1>8. Touched(addr, size) \subseteq Nat
  BY <1>1 DEF Touched
<1> QED BY <1>2, <1>7, <1>8, LineOfByte

\* A store changes the bytes it touches.
LEMMA OverwriteFacts ==
    ASSUME NEW D, NEW f, f = [b \in D |-> f[b]], NEW addr \in Nat, NEW size \in AccessSizes,
           NEW value, Touched(addr, size) \subseteq D
    PROVE  Overwrite(f, addr, size, value) =
             [b \in D |-> IF b \in Touched(addr, size) THEN ByteOf(value, size, b - addr) ELSE f[b]]
<1> DEFINE g(i) == ByteOf(value, size, i)
<1>1. CASE size = 1
  <2>1. Overwrite(f, addr, size, value) = [f EXCEPT ![addr] = g(0)]
    BY <1>1 DEF Overwrite
  <2>2. Touched(addr, size) = {addr}
    BY <1>1 DEF Touched
  <2> HIDE DEF g
  <2>3. [f EXCEPT ![addr] = g(0)] = [b \in D |-> IF b \in {addr} THEN g(b - addr) ELSE f[b]]
    BY <2>2
  <2> QED BY <2>1, <2>2, <2>3 DEF g
<1>2. CASE size = 2
  <2>1. Overwrite(f, addr, size, value) = [f EXCEPT ![addr] = g(0), ![addr + 1] = g(1)]
    BY <1>2 DEF Overwrite
  <2>2. Touched(addr, size) = {addr, addr + 1}
    BY <1>2 DEF Touched
  <2> HIDE DEF g
  <2>3. [f EXCEPT ![addr] = g(0), ![addr + 1] = g(1)] =
          [b \in D |-> IF b \in {addr, addr + 1} THEN g(b - addr) ELSE f[b]]
    BY <2>2
  <2> QED BY <2>1, <2>2, <2>3 DEF g
<1>3. CASE size = 4
  <2>1. Overwrite(f, addr, size, value) =
          [f EXCEPT ![addr] = g(0), ![addr + 1] = g(1), ![addr + 2] = g(2), ![addr + 3] = g(3)]
    BY <1>3 DEF Overwrite
  <2>2. Touched(addr, size) = {addr, addr + 1, addr + 2, addr + 3}
    BY <1>3 DEF Touched
  <2> HIDE DEF g
  <2>3. [f EXCEPT ![addr] = g(0), ![addr + 1] = g(1), ![addr + 2] = g(2), ![addr + 3] = g(3)] =
          [b \in D |-> IF b \in {addr, addr + 1, addr + 2, addr + 3} THEN g(b - addr) ELSE f[b]]
    BY <2>2
  <2> QED BY <2>1, <2>2, <2>3 DEF g
<1> QED BY <1>1, <1>2, <1>3 DEF AccessSizes

\* The lines of a cache hold the bytes of their tag
IsLine(line) ==
    /\ line = [valid |-> line.valid, tag |-> line.tag, data |-> line.data]
    /\ line.valid => line.data = [b \in BytesOf(line.tag) |-> line.data[b]]

IsCache(h) ==
    /\ h = [i \in 0..(CacheLines - 1) |-> h[i]]
    /\ \A i \in 0..(CacheLines - 1) : IsLine(h[i])

CachedByte(h, a) == h[LineIndex(LineBase(a))].data[a]

\* A line has a place.
LEMMA LinePlace ==
    ASSUME NEW t \in Nat
    PROVE  LineIndex(t) \in 0..(CacheLines - 1)
BY CacheAssumption DEF LineIndex

\* A new cache holds nothing.
LEMMA NewCacheFacts == IsCache(NewCache) /\ \A a \in Nat : ~Resident(NewCache, a)
<1>1. IsCache(NewCache)
  BY DEF IsCache, IsLine, NewCache, InvalidLine
<1>2. ASSUME NEW a \in Nat PROVE ~Resident(NewCache, a)
  <2>1. LineIndex(LineBase(a)) \in 0..(CacheLines - 1)
    BY LineOfByte, LinePlace
  <2> QED BY <2>1 DEF Resident, NewCache, InvalidLine
<1> QED BY <1>1, <1>2

\* A store through the cache changes the resident bytes it touches, unless it
\* crosses the end of a line.
LEMMA CacheWriteFacts ==
    ASSUME NEW h, IsCache(h), NEW addr \in Nat, NEW size \in AccessSizes, NEW value, NEW w,
           w = CacheWrite(h, addr, size, value)
    PROVE  /\ IsCache(w)
           /\ \A a \in Nat : Resident(w, a) <=> Resident(h, a)
           /\ \A a \in Nat : Resident(h, a) =>
                CachedByte(w, a) =
                  (IF a \in Touched(addr, size) /\ ~CrossesLine(addr, size)
                     THEN ByteOf(value, size, a - addr) ELSE CachedByte(h, a))
<1> DEFINE t == LineBase(addr)
           i == LineIndex(t)
<1>1. t \in Nat /\ i \in 0..(CacheLines - 1)
  BY LineOfByte, LinePlace
<1>2. CASE ~Hit(h, addr, size)
  <2>1. w = h
    BY <1>2 DEF CacheWrite
  <2>2. ASSUME NEW a \in Nat, Resident(h, a), a \in Touched(addr, size), ~CrossesLine(addr, size)
        PROVE  FALSE
    <3>1. LineBase(a) = LineBase(addr)
      BY <2>2, OneLine
    <3> QED BY <1>2, <2>2, <3>1 DEF Hit, Resident
  <2> QED BY <2>1, <2>2
<1>3. CASE Hit(h, addr, size)
  <2> DEFINE d == [b \in BytesOf(t) |-> IF b \in Touched(addr, size)
                                          THEN ByteOf(value, size, b - addr) ELSE h[i].data[b]]
  <2>1. h[i].valid /\ h[i].tag = t /\ ~CrossesLine(addr, size)
    BY <1>3 DEF Hit, Resident
  <2>2. h[i].data = [b \in BytesOf(t) |-> h[i].data[b]]
    BY <1>1, <2>1 DEF IsCache, IsLine
  <2>3. Overwrite(h[i].data, addr, size, value) = d
    <3>1. Touched(addr, size) \subseteq BytesOf(t)
      BY <2>1, OneLine
    <3> QED BY <2>2, <3>1, OverwriteFacts
  <2>4. w = [h EXCEPT ![i].data = Overwrite(h[i].data, addr, size, value)]
    BY <1>3 DEF CacheWrite
  <2>5. w = [h EXCEPT ![i].data = d]
    BY <2>3, <2>4
  <2>6. \A b \in BytesOf(t) : d[b] = IF b \in Touched(addr, size)
                                          THEN ByteOf(value, size, b - addr) ELSE h[i].data[b]
    OBVIOUS
  <2>7. d = [b \in BytesOf(t) |-> d[b]]
    OBVIOUS
  <2> HIDE DEF d, i, t
  <2>8. /\ w = [j \in 0..(CacheLines - 1) |-> w[j]]
        /\ \A j \in 0..(CacheLines - 1) : j # i => w[j] = h[j]
        /\ w[i].valid = h[i].valid /\ w[i].tag = h[i].tag /\ w[i].data = d
        /\ w[i] = [valid |-> w[i].valid, tag |-> w[i].tag, data |-> w[i].data]
    BY <1>1, <2>5 DEF IsCache, IsLine
  <2>9. IsCache(w)
    <3>1. IsLine(w[i])
      BY <2>1, <2>7, <2>8 DEF IsLine
    <3> QED BY <1>1, <2>8, <3>1 DEF IsCache
  <2>10. ASSUME NEW a \in Nat
         PROVE  /\ Resident(w, a) <=> Resident(h, a)
                /\ Resident(h, a) =>
                     CachedByte(w, a) =
                       (IF a \in Touched(addr, size) THEN ByteOf(value, size, a - addr)
                        ELSE CachedByte(h, a))
    <3> DEFINE j == LineIndex(LineBase(a))
    <3>1. j \in 0..(CacheLines - 1) /\ a \in BytesOf(LineBase(a))
      BY LineOfByte, LinePlace
    <3>2. Resident(w, a) <=> Resident(h, a)
      BY <2>8, <3>1 DEF Resident
    <3>3. ASSUME Resident(h, a), j = i
          PROVE  CachedByte(w, a) =
                   (IF a \in Touched(addr, size) THEN ByteOf(value, size, a - addr)
                    ELSE CachedByte(h, a))
      <4>1. LineBase(a) = t
        BY <2>1, <3>3 DEF Resident
      <4>2. CachedByte(w, a) = d[a] /\ CachedByte(h, a) = h[i].data[a]
        BY <2>8, <3>3 DEF CachedByte
      <4> QED BY <2>6, <3>1, <4>1, <4>2
    <3>4. ASSUME Resident(h, a), j # i
          PROVE  a \notin Touched(addr, size) /\ CachedByte(w, a) = CachedByte(h, a)
      <4>1. LineBase(a) # t
        BY <3>4 DEF i
      <4>2. a \notin Touched(addr, size)
        BY <2>1, <4>1, OneLine DEF t
      <4> QED BY <2>8, <3>1, <3>4, <4>2 DEF CachedByte
    <3> QED BY <3>2, <3>3, <3>4
  <2> QED BY <2>1, <2>9, <2>10
<1> QED BY <1>2, <1>3

\* A line that is filled replaces the one in its place.
LEMMA FillFacts ==
    ASSUME NEW h, IsCache(h), NEW t \in Nat, NEW data, data = [b \in BytesOf(t) |-> data[b]],
           NEW w, w = fill_line(h, t, data)
    PROVE  /\ IsCache(w)
           /\ \A a \in Nat : Resident(w, a) =>
                IF LineBase(a) = t THEN CachedByte(w, a) = data[a]
                ELSE Resident(h, a) /\ CachedByte(w, a) = CachedByte(h, a)
<1> DEFINE i == LineIndex(t)
           line == [valid |-> TRUE, tag |-> t, data |-> data]
<1>1. i \in 0..(CacheLines - 1)
  BY LinePlace
<1>2. w = [h EXCEPT ![i] = line]
  BY DEF fill_line
<1>3. line = [valid |-> line.valid, tag |-> line.tag, data |-> line.data] /\ line.tag = t /\ line.data = data
  OBVIOUS
<1> HIDE DEF line, i
<1>4. /\ w = [j \in 0..(CacheLines - 1) |-> w[j]]
      /\ \A j \in 0..(CacheLines - 1) : w[j] = IF j = i THEN line ELSE h[j]
  BY <1>1, <1>2 DEF IsCache
<1>5. IsCache(w)
  <2>1. IsLine(line)
    BY <1>3 DEF IsLine
  <2> QED BY <1>4, <2>1 DEF IsCache
<1>6. ASSUME NEW a \in Nat, Resident(w, a)
      PROVE  IF LineBase(a) = t THEN CachedByte(w, a) = data[a]
             ELSE Resident(h, a) /\ CachedByte(w, a) = CachedByte(h, a)
  <2> DEFINE j == LineIndex(LineBase(a))
  <2>1. j \in 0..(CacheLines - 1)
    BY LineOfByte, LinePlace
  <2>2. w[j].valid /\ w[j].tag = LineBase(a)
    BY <1>6 DEF Resident
  <2>3. CASE LineBase(a) = t
    BY <1>3, <1>4, <2>1, <2>3 DEF CachedByte, i
  <2>4. CASE LineBase(a) # t
    <3>1. w[j] = h[j]
      BY <1>3, <1>4, <2>1, <2>2, <2>4
    <3> QED BY <2>2, <2>4, <3>1 DEF CachedByte, Resident
  <2> QED BY <2>3, <2>4
<1> QED BY <1>5, <1>6

\* A write changes the bytes it touches, or nothing.
LEMMA WriteFacts ==
    ASSUME NEW m, m = [a \in RamAddr |-> m[a]], NEW addr \in Nat, NEW size \in AccessSizes,
           NEW value, NEW w, w = write(m, addr, size, value)
    PROVE  /\ w = [a \in RamAddr |-> w[a]]
           /\ \A a \in RamAddr :
                w[a] = IF a \in Touched(addr, size) /\ Touched(addr, size) \subseteq RamAddr
                         THEN ByteOf(value, size, a - addr) ELSE m[a]
<1>1. DOMAIN m = RamAddr
  <2> DEFINE g == [a \in RamAddr |-> m[a]]
  <2>1. DOMAIN g = RamAddr
    OBVIOUS
  <2> QED BY <2>1
<1>2. access_in_range(m, addr, size) <=> Touched(addr, size) \subseteq RamAddr
  BY <1>1 DEF access_in_range, Touched
<1>3. CASE ~(Touched(addr, size) \subseteq RamAddr)
  BY <1>2, <1>3 DEF write
<1>4. CASE Touched(addr, size) \subseteq RamAddr
  <2>1. w = Overwrite(m, addr, size, value)
    BY <1>2, <1>4 DEF write
  <2>2. w = [b \in RamAddr |-> IF b \in Touched(addr, size) THEN ByteOf(value, size, b - addr)
                                ELSE m[b]]
    BY <1>4, <2>1, OverwriteFacts
  <2> QED BY <1>4, <2>2
<1> QED BY <1>3, <1>4

\* The line with this tag, of memory m
LineFrom(m, t, line) ==
    /\ line # <<>> /\ line = [b \in BytesOf(t) |-> line[b]]
    /\ BytesOf(t) \subseteq RamAddr => \A a \in BytesOf(t) : line[a] = m[a]

\* The line of a reply holds the bytes that memory has there.
LEMMA LineDataFacts ==
    ASSUME memory = [a \in RamAddr |-> memory[a]], NEW addr \in Nat, NEW t, t = LineBase(addr),
           NEW line, line = LineData(addr, LineSize)
    PROVE  LineFrom(memory, t, line)
<1>1. t \in Nat /\ addr \in BytesOf(t)
  BY LineOfByte
<1>2. line = [a \in BytesOf(t) |->
                IF access_in_range(memory, t * LineSize, LineSize) THEN memory[a] ELSE 0]
  BY DEF LineData, read_block, BytesOf, LineBase
<1>3. DOMAIN memory = RamAddr
  <2> DEFINE g == [a \in RamAddr |-> memory[a]]
  <2>1. DOMAIN g = RamAddr
    OBVIOUS
  <2> QED BY <2>1
<1>4. access_in_range(memory, t * LineSize, LineSize) <=> BytesOf(t) \subseteq RamAddr
  BY <1>3 DEF access_in_range, BytesOf
<1>5. line # <<>>
  <2>1. DOMAIN line = BytesOf(t)
    BY <1>2
  <2>2. DOMAIN <<>> = {}
    OBVIOUS
  <2> QED BY <1>1, <2>1, <2>2
<1> QED BY <1>2, <1>4, <1>5 DEF LineFrom
=============================================================================
