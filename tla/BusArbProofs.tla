---------------------------- MODULE BusArbProofs ----------------------------
(***************************************************************************)
(* Proofs about libbusarb and its callers, for every callback, penalty,    *)
(* set of requests and number of grants.                                   *)
(***************************************************************************)
EXTENDS BusArbHost, FiniteSetTheorems, FunctionTheorems, WellFoundedInduction, TLAPS

\* The ticks are natural numbers and the requests are requests
TypeOK ==
    /\ bus_free_tick \in Nat
    /\ now \in Nat
    /\ waiting \subseteq BusRequest
    /\ told \in [Masters -> Nat]
    /\ grant \in [start : Nat, finish : Nat]

\* The last grant ends when the bus becomes free, and nobody is told to wait
\* beyond both the present and that tick
HostInv ==
    /\ TypeOK
    /\ grant.finish = bus_free_tick
    /\ \A m \in Masters : told[m] <= now \/ told[m] <= bus_free_tick

\* A grant occupies the bus for at least one tick, whatever the callback returns.
LEMMA DurationPositive ==
    ASSUME NEW req \in BusRequest, NEW had_tie \in BOOLEAN
    PROVE  duration(req, had_tie) \in Nat /\ duration(req, had_tie) >= 1
<1>1. access_cycles(req.addr, req.is_write, req.size) \in Nat
  BY CallbackAssumption DEF BusRequest
<1>2. service_cycles(req) \in Nat /\ service_cycles(req) >= 1
  BY <1>1 DEF service_cycles
<1> QED
  BY <1>2, ConfigAssumption DEF duration

\* query_wait never reaches past the tick at which the bus becomes free, and
\* answers zero only when the bus is free.
LEMMA QueryWaitBounds ==
    ASSUME bus_free_tick \in Nat, NEW t \in Nat
    PROVE  /\ query_wait(t) \in Nat
           /\ query_wait(t) = 0 \/ t + query_wait(t) <= bus_free_tick
           /\ query_wait(t) = 0 => t >= bus_free_tick
BY ConfigAssumption DEF query_wait

\* A committed grant starts when the bus is free and keeps the invariant's facts.
LEMMA RecordFacts ==
    ASSUME HostInv, NEW req \in BusRequest, NEW t \in Nat, NEW had_tie \in BOOLEAN,
           Record(req, t, had_tie)
    PROVE  /\ bus_free_tick' \in Nat
           /\ bus_free_tick <= bus_free_tick'
           /\ grant' \in [start : Nat, finish : Nat]
           /\ grant'.finish = bus_free_tick'
           /\ grant.finish <= grant'.start
           /\ grant'.start < grant'.finish
<1>1. /\ bus_free_tick \in Nat
      /\ grant.finish = bus_free_tick
  BY DEF HostInv, TypeOK
<1>2. actual_start(t) \in Nat /\ bus_free_tick <= actual_start(t)
  BY <1>1 DEF actual_start
<1>3. bus_free_tick' = actual_start(t) + duration(req, had_tie)
  BY DEF Record, commit_grant
<1>4. grant' = [start |-> actual_start(t), finish |-> bus_free_tick']
  BY DEF Record
<1> QED
  BY <1>1, <1>2, <1>3, <1>4, DurationPositive

\* What any step does to the ticks: it leaves the bus alone, or commits a grant.
LEMMA StepFacts ==
    ASSUME HostInv, [Next]_vars
    PROVE  /\ HostInv'
           /\ grant' # grant => grant.finish <= grant'.start /\ grant'.start < grant'.finish
<1>1. ASSUME NEW req \in Requests, Request(req)
      PROVE  HostInv' /\ grant' = grant
  <2>1. req \in BusRequest /\ req.master \in Masters
    BY HostAssumption DEF BusRequest
  <2>2. UNCHANGED <<bus_free_tick, now, grant>> /\ waiting' = waiting \cup {req}
    BY <1>1 DEF Request, arbVars
  <2>3. told' = [told EXCEPT ![req.master] = now + query_wait(now)]
    BY <1>1 DEF Request
  <2>4. /\ query_wait(now) \in Nat
        /\ query_wait(now) = 0 \/ now + query_wait(now) <= bus_free_tick
    BY QueryWaitBounds DEF HostInv, TypeOK
  <2> QED
    BY <2>1, <2>2, <2>3, <2>4 DEF HostInv, TypeOK
<1>2. ASSUME NEW m \in Masters, Requery(m)
      PROVE  HostInv' /\ grant' = grant
  <2>1. UNCHANGED <<bus_free_tick, now, grant, waiting>>
    BY <1>2 DEF Requery, arbVars
  <2>2. told' = [told EXCEPT ![m] = now + query_wait(now)]
    BY <1>2 DEF Requery
  <2>3. /\ query_wait(now) \in Nat
        /\ query_wait(now) = 0 \/ now + query_wait(now) <= bus_free_tick
    BY QueryWaitBounds DEF HostInv, TypeOK
  <2> QED
    BY <2>1, <2>2, <2>3 DEF HostInv, TypeOK
<1>3. ASSUME Arbitrate
      PROVE  HostInv' /\ grant.finish <= grant'.start /\ grant'.start < grant'.finish
  <2>1. PICK winner \in Contenders :
              /\ Record(winner, now, HadTie(winner))
              /\ waiting' = waiting \ {winner}
              /\ told' = [told EXCEPT ![winner.master] = 0]
    BY <1>3 DEF Arbitrate
  <2>2. winner \in BusRequest /\ HadTie(winner) \in BOOLEAN /\ now' = now /\ now \in Nat
    BY <1>3 DEF Arbitrate, Contenders, HostInv, TypeOK, HadTie
  <2>3. winner.master \in Masters
    BY <2>2 DEF BusRequest
  <2>4. /\ bus_free_tick' \in Nat
        /\ bus_free_tick <= bus_free_tick'
        /\ grant' \in [start : Nat, finish : Nat]
        /\ grant'.finish = bus_free_tick'
        /\ grant.finish <= grant'.start
        /\ grant'.start < grant'.finish
    BY <2>1, <2>2, RecordFacts
  <2> QED
    BY <2>1, <2>2, <2>3, <2>4 DEF HostInv, TypeOK
<1>4. ASSUME Tick
      PROVE  HostInv' /\ grant' = grant
  BY <1>4 DEF Tick, arbVars, HostInv, TypeOK
<1>5. ASSUME NEW req \in Requests, NEW t \in ReplayTicks, Replay(req, t)
      PROVE  HostInv' /\ grant.finish <= grant'.start /\ grant'.start < grant'.finish
  <2>1. req \in BusRequest /\ t \in Nat /\ Record(req, t, FALSE)
    BY <1>5, HostAssumption DEF Replay
  <2>2. UNCHANGED <<now, waiting, told>>
    BY <1>5 DEF Replay
  <2>3. /\ bus_free_tick' \in Nat
        /\ bus_free_tick <= bus_free_tick'
        /\ grant' \in [start : Nat, finish : Nat]
        /\ grant'.finish = bus_free_tick'
        /\ grant.finish <= grant'.start
        /\ grant'.start < grant'.finish
    BY <2>1, RecordFacts
  <2> QED
    BY <2>2, <2>3 DEF HostInv, TypeOK
<1>6. ASSUME UNCHANGED vars
      PROVE  HostInv' /\ grant' = grant
  BY <1>6 DEF vars, arbVars, hostVars, HostInv, TypeOK
<1> QED
  BY <1>1, <1>2, <1>3, <1>4, <1>5, <1>6 DEF Next

\* The inductive invariant holds in every behaviour.
LEMMA HostInvHolds == Spec => []HostInv
<1>1. Init => HostInv
  BY DEF Init, ArbInit, HostInv, TypeOK, Masters, Cpus
<1>2. HostInv /\ [Next]_vars => HostInv'
  BY StepFacts
<1> QED
  BY <1>1, <1>2, PTL DEF Spec

\* Grants never overlap and never have length zero, for any callback (zero
\* cycles included), any requested start and any number of duplicate commits.
THEOREM GrantsAreSerial == Spec => GrantsSerial
<1>1. HostInv /\ [Next]_vars =>
        [grant' # grant => grant.finish <= grant'.start /\ grant'.start < grant'.finish]_vars
  BY StepFacts
<1> QED
  BY <1>1, HostInvHolds, PTL DEF Spec, GrantsSerial

\* Whenever the bus is free, every waiting master has slept for no longer than
\* it was told, whatever was granted meanwhile and wherever the wait saturates.
THEOREM SleepersAreAwake == Spec => []NobodyOversleeps
<1>1. HostInv => NobodyOversleeps
  <2> SUFFICES ASSUME HostInv, query_wait(now) = 0, NEW m \in Waiting
               PROVE  m \in Awake
    BY DEF NobodyOversleeps, Awake
  <2>1. m \in Masters
    BY DEF Waiting, HostInv, TypeOK, BusRequest
  <2>2. now \in Nat /\ bus_free_tick \in Nat /\ told[m] \in Nat
    BY <2>1 DEF HostInv, TypeOK
  <2>3. now >= bus_free_tick
    BY <2>2, QueryWaitBounds
  <2>4. told[m] <= now \/ told[m] <= bus_free_tick
    BY <2>1 DEF HostInv
  <2> QED
    BY <2>2, <2>3, <2>4 DEF Awake
<1> QED
  BY <1>1, HostInvHolds, PTL

-----------------------------------------------------------------------------
(* pick_winner *)

\* How pick_winner ranks the masters: DMA, then the CPU whose turn it is
Rank(m) == IF m = "DMA" THEN 2 ELSE IF m = preferred THEN 1 ELSE 0

\* Of requests of two masters the one of the higher rank displaces the other.
LEMMA DisplacesByRank ==
    ASSUME NEW cand, NEW cur, cand.master \in Masters, cur.master \in Masters,
           cand.master # cur.master
    PROVE  /\ Displaces(cand, cur) <=> Rank(cur.master) < Rank(cand.master)
           /\ Rank(cand.master) # Rank(cur.master)
           /\ Rank(cand.master) \in Nat /\ Rank(cur.master) \in Nat
<1>1. preferred \in Cpus
  BY DEF preferred, Cpus
<1> DEFINE a == cand.master
           b == cur.master
           A == {a, b} = Cpus
<1>2. A <=> a # "DMA" /\ b # "DMA"
  BY DEF Masters, Cpus
<1>3. /\ priority(a) # priority(b) => (Displaces(cand, cur) <=> priority(a) > priority(b))
      /\ priority(a) = priority(b) /\ A => (Displaces(cand, cur) <=> a = preferred)
  BY DEF Displaces
<1> HIDE DEF A
<1>4. a = "DMA" \/ b = "DMA" => priority(a) # priority(b)
  BY DEF priority, Masters, Cpus
<1>5. a # "DMA" /\ b # "DMA" => priority(a) = priority(b)
  BY DEF priority
<1>6. preferred # "DMA"
  BY <1>1 DEF Cpus
<1>7. a # "DMA" /\ b # "DMA" => (a = preferred <=> b # preferred)
  BY <1>1 DEF Masters, Cpus
<1> QED BY <1>2, <1>3, <1>4, <1>5, <1>6, <1>7 DEF Rank, priority

\* Every set of natural numbers that is not empty has a least element.
LEMMA LeastElement ==
    ASSUME NEW T, T \subseteq Nat, T # {}
    PROVE  \E x \in T : \A y \in T : x <= y
<1> DEFINE R == {ss \in Nat \X Nat : ss[1] < ss[2]}
<1>1. R = OpToRel(<, Nat)
  BY Zenon DEF OpToRel
<1>2. \A x, y \in Nat : <<y, x>> \in R <=> y < x
  OBVIOUS
<1> HIDE DEF R
<1>3. IsWellFoundedOn(R, Nat)
  BY <1>1, NatLessThanWellFounded, Zenon
<1>4. PICK x \in T : \A y \in T : ~(<<y, x>> \in R)
  BY <1>3, WFMin, Zenon
<1>5. ASSUME NEW y \in T PROVE x <= y
  <2>1. x \in Nat /\ y \in Nat
    OBVIOUS
  <2>2. ~(y < x)
    BY <1>2, <1>4, <2>1, Zenon
  <2> QED BY <2>1, <2>2
<1> QED BY <1>5

\* The loop of pick_winner: best[i] is the best of the first i requests
WinnerRun(best, requests, n) ==
    /\ best \in [1..n -> 1..n]
    /\ best[1] = 1
    /\ \A i \in 2..n :
          best[i] = IF Displaces(requests[i], requests[best[i - 1]]) THEN i ELSE best[i - 1]

\* It runs to the end, by induction on the requests seen.
LEMMA WinnerRuns ==
    ASSUME NEW requests, NEW n \in Nat \ {0}, Len(requests) = n
    PROVE  \E best : WinnerRun(best, requests, n) /\ pick_winner(requests) = best[n]
<1> DEFINE W(k, j) == Displaces(requests[k], requests[j])
           T(t) == t = [k \in 1..n |-> IF k = 1 THEN 1
                                       ELSE IF W(k, t[k - 1]) THEN k ELSE t[k - 1]]
           Good(t, m) == /\ t \in [1..m -> 1..m] /\ t[1] = 1
                         /\ \A k \in 2..m : t[k] = IF W(k, t[k - 1]) THEN k ELSE t[k - 1]
           B == {m \in 1..n : ~\E t : Good(t, m)}
           best == CHOOSE t : T(t)
<1>1. pick_winner(requests) = best[n]
  BY Zenon DEF pick_winner
<1> HIDE DEF W
<1>2. Good([k \in 1..1 |-> 1], 1)
  OBVIOUS
<1>3. ASSUME NEW m \in 2..n, NEW t, Good(t, m - 1) PROVE \E e : Good(e, m)
  <2> DEFINE e == [k \in 1..m |-> IF k = m THEN (IF W(m, t[m - 1]) THEN m ELSE t[m - 1]) ELSE t[k]]
  <2>1. m \in Nat /\ m - 1 \in 1..(m - 1) /\ t \in [1..(m - 1) -> 1..(m - 1)] /\ m # 1
    BY <1>3
  <2>2. e \in [1..m -> 1..m]
    BY <2>1
  <2>3. e[1] = 1
    BY <1>3, <2>1
  <2>4. ASSUME NEW k \in 2..m PROVE e[k] = IF W(k, e[k - 1]) THEN k ELSE e[k - 1]
    <3>1. e[k - 1] = t[k - 1]
      BY <2>1
    <3>2. CASE k = m
      BY <2>1, <3>1, <3>2
    <3>3. CASE k # m
      <4>1. k \in 2..(m - 1) /\ e[k] = t[k]
        BY <2>1, <3>3
      <4> QED BY <1>3, <3>1, <4>1
    <3> QED BY <3>2, <3>3
  <2> HIDE DEF e
  <2> QED BY <2>2, <2>3, <2>4
<1>4. PICK f : Good(f, n)
  <2> HIDE DEF Good
  <2>7. n \in 1..n
    OBVIOUS
  <2> SUFFICES ASSUME B # {} PROVE FALSE
    BY <2>7, Zenon
  <2> HIDE DEF B
  <2>1. B \subseteq Nat
    BY DEF B
  <2>2. PICK k \in B : \A y \in B : k <= y
    BY <2>1, LeastElement, Zenon
  <2>3. k \in 1..n /\ ~\E t : Good(t, k)
    BY <2>2, Zenon DEF B
  <2>4. k # 1
    BY <1>2, <2>3, Zenon
  <2>5. k \in 2..n /\ k - 1 \in 1..n /\ ~(k <= k - 1)
    BY <2>3, <2>4
  <2>6. PICK t : Good(t, k - 1)
    BY <2>2, <2>5, Zenon DEF B
  <2> QED BY <1>3, <2>3, <2>5, <2>6, Zenon
<1>5. T(best)
  <2>1. T(f)
    <3> DEFINE g == [k \in 1..n |-> IF k = 1 THEN 1
                                    ELSE IF W(k, f[k - 1]) THEN k ELSE f[k - 1]]
    <3>1. \A k \in 1..n : f[k] = g[k]
      BY <1>4, SMTT(40)
    <3>2. f = [k \in 1..n |-> f[k]]
      BY <1>4
    <3>3. f = g
      BY <3>1, <3>2
    <3> QED BY <3>3
  <2> HIDE DEF T
  <2> QED BY <2>1, Zenon
<1> HIDE DEF best
<1>6. ASSUME NEW m \in 1..n PROVE best[m] = f[m]
  <2> DEFINE D == {i \in 1..n : best[i] # f[i]}
  <2> SUFFICES ASSUME D # {} PROVE FALSE
    OBVIOUS
  <2> HIDE DEF D
  <2>1. D \subseteq Nat
    BY DEF D
  <2>2. PICK k \in D : \A y \in D : k <= y
    BY <2>1, LeastElement, Zenon
  <2>3. k \in 1..n /\ best[k] # f[k]
    BY <2>2, Zenon DEF D
  <2>4. best[k] = IF k = 1 THEN 1 ELSE IF W(k, best[k - 1]) THEN k ELSE best[k - 1]
    BY <1>5, <2>3
  <2>5. k # 1
    BY <1>4, <2>3, <2>4
  <2>6. k \in 2..n /\ k - 1 \in 1..n /\ ~(k <= k - 1)
    BY <2>3, <2>5
  <2>7. best[k - 1] = f[k - 1]
    BY <2>2, <2>6, Zenon DEF D
  <2>8. f[k] = IF W(k, f[k - 1]) THEN k ELSE f[k - 1]
    BY <1>4, <2>6
  <2> QED BY <2>3, <2>4, <2>5, <2>7, <2>8
<1>7. best[n] = f[n]
  BY <1>6
<1>8. WinnerRun(f, requests, n)
  BY <1>4, Zenon DEF WinnerRun, W
<1> QED BY <1>1, <1>7, <1>8

\* Among requests of different masters it finds the one of the highest rank.
LEMMA WinnerIsBest ==
    ASSUME NEW requests, NEW n \in Nat \ {0}, Len(requests) = n,
           \A i \in 1..n : requests[i].master \in Masters,
           \A i, j \in 1..n : requests[i].master = requests[j].master => i = j
    PROVE  /\ pick_winner(requests) \in 1..n
           /\ \A i \in 1..n :
                 i # pick_winner(requests) =>
                   Rank(requests[i].master) < Rank(requests[pick_winner(requests)].master)
<1>1. PICK best : WinnerRun(best, requests, n) /\ pick_winner(requests) = best[n]
  BY WinnerRuns
<1> DEFINE R(i) == Rank(requests[i].master)
           W(k, j) == Displaces(requests[k], requests[j])
           Top(m) == \A i \in 1..m : i # best[m] => R(i) < R(best[m])
           B == {m \in 1..n : ~(best[m] \in 1..m /\ Top(m))}
<1>2. \A i, j \in 1..n : i # j => (W(i, j) <=> R(j) < R(i)) /\ R(i) # R(j)
  BY DisplacesByRank
<1>3. \A i \in 1..n : R(i) \in Nat
  BY DEF Rank
<1>4. /\ best \in [1..n -> 1..n] /\ best[1] = 1
      /\ \A i \in 2..n : best[i] = IF W(i, best[i - 1]) THEN i ELSE best[i - 1]
  BY <1>1, Zenon DEF WinnerRun
<1> HIDE DEF R, W
<1>5. best[1] \in 1..1 /\ Top(1)
  BY <1>4
<1>6. ASSUME NEW m \in 2..n, best[m - 1] \in 1..(m - 1), Top(m - 1)
      PROVE  best[m] \in 1..m /\ Top(m)
  <2> DEFINE b == best[m - 1]
  <2>1. /\ b \in 1..n /\ m \in 1..n /\ b # m /\ b \in 1..(m - 1) /\ m - 1 \in Nat
        /\ best[m] = IF W(m, b) THEN m ELSE b
    BY <1>4, <1>6
  <2>2. \A i \in 1..m : i = m \/ i \in 1..(m - 1)
    BY <2>1
  <2>3. \A i \in 1..(m - 1) : i # b => R(i) < R(b)
    BY <1>6
  <2>4. 1..m \subseteq 1..n /\ 1..(m - 1) \subseteq 1..n
    BY <2>1
  <2> HIDE DEF b
  <2>5. CASE W(m, b)
    <3>1. R(b) < R(m) /\ best[m] = m
      BY <1>2, <2>1, <2>5
    <3>2. ASSUME NEW i \in 1..m, i # m PROVE R(i) < R(m)
      <4>1. i \in 1..(m - 1) /\ i \in 1..n
        BY <2>2, <2>4, <3>2
      <4>2. R(i) \in Nat /\ R(b) \in Nat /\ R(m) \in Nat
        BY <1>3, <2>1, <4>1
      <4> QED BY <2>3, <3>1, <4>1, <4>2
    <3> QED BY <2>1, <3>1, <3>2
  <2>6. CASE ~W(m, b)
    <3>1. best[m] = b /\ R(m) \in Nat /\ R(b) \in Nat /\ R(m) < R(b)
      BY <1>2, <1>3, <2>1, <2>6
    <3> QED BY <2>1, <2>2, <2>3, <3>1
  <2> QED BY <2>5, <2>6
<1> HIDE DEF Top
<1>7. best[n] \in 1..n /\ Top(n)
  <2> SUFFICES ASSUME B # {} PROVE FALSE
    OBVIOUS
  <2> HIDE DEF B
  <2>1. B \subseteq Nat
    BY DEF B
  <2>2. PICK k \in B : \A y \in B : k <= y
    BY <2>1, LeastElement, Zenon
  <2>3. k \in 1..n /\ ~(best[k] \in 1..k /\ Top(k))
    BY <2>2, Zenon DEF B
  <2>4. k # 1
    BY <1>5, <2>3
  <2>5. k \in 2..n /\ k - 1 \in 1..n /\ ~(k <= k - 1)
    BY <2>3, <2>4
  <2>6. best[k - 1] \in 1..(k - 1) /\ Top(k - 1)
    BY <2>2, <2>5, Zenon DEF B
  <2> QED BY <1>6, <2>3, <2>5, <2>6, Zenon
<1> QED BY <1>1, <1>7 DEF Top, R

\* A list of a finite set has every element once.
LEMMA ListFacts ==
    ASSUME NEW S, IsFiniteSet(S), NEW s \in SetToSeqs(S), NEW n, n = Cardinality(S)
    PROVE  /\ n \in Nat /\ s \in [1..n -> S] /\ Len(s) = n
           /\ \A i, j \in 1..n : s[i] = s[j] => i = j
           /\ \A r \in S : \E i \in 1..n : s[i] = r
<1>1. n \in Nat
  BY FS_CardinalityType
<1>2. s \in [1..n -> S] /\ \A i, j \in 1..n : s[i] = s[j] => i = j
  BY DEF SetToSeqs
<1>3. Len(s) = n
  BY <1>1, <1>2
<1>4. s \in Injection(1..n, S)
  BY <1>2, Fun_IsInj
<1>5. Cardinality(1..n) = n
  BY <1>1, FS_Interval
<1>6. s \in Surjection(1..n, S)
  BY <1>4, <1>5, FS_Injection
<1> QED BY <1>1, <1>2, <1>3, <1>6, Fun_SurjectionProperties

\* There is a list of every finite set.
LEMMA ListExists ==
    ASSUME NEW S, IsFiniteSet(S)
    PROVE  SetToSeqs(S) # {}
<1>1. Bijection(1..Cardinality(S), S) # {}
  BY FS_CardinalityType, Fun_ExistsBij
<1>2. PICK f : f \in Bijection(1..Cardinality(S), S)
  BY <1>1
<1>3. /\ f \in [1..Cardinality(S) -> S]
      /\ \A a, b \in 1..Cardinality(S) : f[a] = f[b] => a = b
  BY <1>2, Fun_BijectionProperties
<1>4. f \in SetToSeqs(S)
  BY <1>3 DEF SetToSeqs
<1> QED BY <1>4

-----------------------------------------------------------------------------
(* The round robin *)

\* A CPU that has been passed over waits, and the grant before went to the
\* other CPU: its turn comes next.  A replay passes nobody over.
FairInv ==
    /\ \A r, s \in waiting : r.master = s.master => r = s
    /\ DOMAIN bypass = Cpus
    /\ \A c \in Cpus :
          \/ bypass[c] = 0
          \/ bypass[c] = 1 /\ mode = "adapter" /\ c \in Waiting /\ last_granted_cpu = Other(c)

\* The two CPUs.
LEMMA OtherCpu == \A c \in Cpus : Other(c) \in Cpus /\ Other(c) # c /\ \A d \in Cpus : d = c \/ d = Other(c)
<1> TAKE c \in Cpus
<1>1. \E d \in Cpus : d # c
  BY DEF Cpus
<1>2. Other(c) \in Cpus /\ Other(c) # c
  BY <1>1, Zenon DEF Other
<1> QED BY <1>2 DEF Cpus

\* The contenders are finitely many requests of different masters.
LEMMA ContendersFacts ==
    ASSUME HostInv, FairInv
    PROVE  /\ IsFiniteSet(Contenders)
           /\ \A r \in Contenders : r \in waiting /\ r.master \in Masters
           /\ \A r, s \in Contenders : r.master = s.master => r = s
<1>1. /\ \A r \in Contenders : r \in waiting /\ r.master \in Masters
      /\ \A r, s \in Contenders : r.master = s.master => r = s
  BY DEF Contenders, HostInv, TypeOK, FairInv, BusRequest
<1>2. IsFiniteSet(Masters)
  <2>1. IsFiniteSet({"SH2_A"}) /\ IsFiniteSet({"SH2_B"}) /\ IsFiniteSet({"DMA"})
    BY FS_Singleton
  <2>2. Masters = {"SH2_A"} \cup {"SH2_B"} \cup {"DMA"}
    BY DEF Masters, Cpus
  <2> QED BY <2>1, <2>2, FS_Union
<1> DEFINE f == [r \in Contenders |-> r.master]
<1>3. f \in [Contenders -> Masters] /\ \A a, b \in Contenders : f[a] = f[b] => a = b
  BY <1>1
<1> HIDE DEF f
<1>4. f \in Injection(Contenders, Masters)
  BY <1>3, Fun_IsInj
<1> QED BY <1>1, <1>2, <1>4, FS_Injection

\* Whatever list the caller makes of the contenders, the winner is the one of
\* the highest rank.
LEMMA WinnersAreBest ==
    ASSUME HostInv, FairInv, NEW winner \in Winners, Contenders # {}
    PROVE  /\ winner \in Contenders
           /\ \A r \in Contenders : r # winner => Rank(r.master) < Rank(winner.master)
<1>1. PICK s \in SetToSeqs(Contenders) : winner = s[pick_winner(s)]
  BY DEF Winners
<1> DEFINE n == Cardinality(Contenders)
           C == Contenders
<1>2. /\ n \in Nat /\ s \in [1..n -> C] /\ Len(s) = n
      /\ \A i, j \in 1..n : s[i] = s[j] => i = j
      /\ \A r \in C : \E i \in 1..n : s[i] = r
  BY ContendersFacts, ListFacts
<1>3. n # 0
  BY <1>2
<1>4. /\ \A i \in 1..n : s[i].master \in Masters
      /\ \A i, j \in 1..n : s[i].master = s[j].master => i = j
  BY <1>2, ContendersFacts
<1> HIDE DEF n
<1>5. /\ pick_winner(s) \in 1..n
      /\ \A i \in 1..n : i # pick_winner(s) => Rank(s[i].master) < Rank(s[pick_winner(s)].master)
  BY <1>2, <1>3, <1>4, WinnerIsBest
<1> QED BY <1>1, <1>2, <1>5

\* A grant of the adapter: a CPU that it passes over had not been passed over
\* before.
LEMMA ArbitrateFair ==
    ASSUME HostInv, FairInv, Arbitrate
    PROVE  FairInv'
<1>1. PICK winner \in Contenders :
        /\ winner \in Winners
        /\ Record(winner, now, HadTie(winner))
        /\ waiting' = waiting \ {winner}
        /\ bypass' = [c \in Cpus |->
              CASE c = winner.master -> 0
                [] c \in Waiting /\ winner.master = Other(c) -> bypass[c] + 1
                [] OTHER -> bypass[c]]
  BY DEF Arbitrate
<1>2. mode = "adapter" /\ mode' = mode /\ query_wait(now) = 0
  BY DEF Arbitrate
<1> DEFINE m == winner.master
<1>3. /\ m \in Masters /\ winner \in waiting
      /\ last_granted_cpu' = IF m \in Cpus THEN m ELSE last_granted_cpu
  BY <1>1, ContendersFacts DEF Record, commit_grant
<1>4. \A r, s \in waiting' : r.master = s.master => r = s
  BY <1>1 DEF FairInv
<1>5. \A c \in Masters : c \in Waiting /\ c # m => c \in Waiting'
  <2> TAKE c \in Masters
  <2> HAVE c \in Waiting /\ c # m
  <2>1. PICK r \in waiting : r.master = c
    BY DEF Waiting
  <2>2. r \in waiting'
    BY <1>1, <2>1
  <2> QED BY <2>1, <2>2 DEF Waiting
<1>6. ASSUME NEW c \in Cpus, m = Other(c), bypass[c] # 0 PROVE FALSE
  <2>1. c \in Waiting /\ last_granted_cpu = m
    BY <1>6 DEF FairInv
  <2>2. c \in Masters /\ Other(c) \in Cpus /\ Other(c) # c
    BY OtherCpu DEF Masters
  <2>3. c \in Awake
    <3>1. now \in Nat /\ bus_free_tick \in Nat /\ told[c] \in Nat
      BY <2>2 DEF HostInv, TypeOK
    <3>2. now >= bus_free_tick
      BY <1>2, <3>1, QueryWaitBounds
    <3>3. told[c] <= now \/ told[c] <= bus_free_tick
      BY <2>2 DEF HostInv
    <3> QED BY <2>1, <3>1, <3>2, <3>3 DEF Awake
  <2>4. PICK r \in waiting : r.master = c
    BY <2>1 DEF Waiting
  <2>5. r \in Contenders
    BY <2>3, <2>4 DEF Contenders
  <2>6. Rank(c) < Rank(m)
    BY <1>1, <1>6, <2>2, <2>4, <2>5, WinnersAreBest
  <2>7. preferred = c
    BY <1>6, <2>1, <2>2 DEF preferred, Cpus
  <2>8. Rank(c) = 1 /\ Rank(m) = 0
    BY <1>6, <2>2, <2>7 DEF Rank, Cpus
  <2> QED BY <2>6, <2>8
<1>7. ASSUME NEW c \in Cpus
      PROVE  \/ bypass'[c] = 0
             \/ /\ bypass'[c] = 1 /\ mode' = "adapter" /\ c \in Waiting'
                /\ last_granted_cpu' = Other(c)
  <2>1. c \in Masters /\ Other(c) # c /\ Other(c) \in Cpus /\ \A d \in Cpus : d = c \/ d = Other(c)
    BY OtherCpu DEF Masters
  <2>2. CASE c = m
    BY <1>1, <2>1, <2>2
  <2>3. CASE c # m /\ c \in Waiting /\ m = Other(c)
    <3>1. bypass'[c] = bypass[c] + 1
      BY <1>1, <2>3
    <3>2. bypass[c] = 0
      BY <1>6, <2>3
    <3>3. c \in Waiting' /\ last_granted_cpu' = Other(c)
      BY <1>3, <1>5, <2>1, <2>3
    <3> QED BY <1>2, <3>1, <3>2, <3>3
  <2>4. CASE c # m /\ ~(c \in Waiting /\ m = Other(c))
    <3>1. bypass'[c] = bypass[c]
      BY <1>1, <2>4
    <3>2. CASE bypass[c] = 0
      BY <3>1, <3>2
    <3>3. CASE bypass[c] # 0
      <4>1. bypass[c] = 1 /\ c \in Waiting /\ last_granted_cpu = Other(c)
        BY <3>3 DEF FairInv
      <4>2. m \notin Cpus
        BY <2>1, <2>4, <4>1
      <4> QED BY <1>2, <1>3, <1>5, <2>1, <2>4, <3>1, <4>1, <4>2
    <3> QED BY <3>2, <3>3
  <2> QED BY <2>2, <2>3, <2>4
<1>8. DOMAIN bypass' = Cpus
  BY <1>1
<1> QED BY <1>4, <1>7, <1>8 DEF FairInv

\* Every step keeps the round robin.
LEMMA FairStep ==
    ASSUME HostInv, FairInv, [Next]_vars
    PROVE  FairInv'
<1>1. ASSUME NEW req \in Requests, Request(req) PROVE FairInv'
  <2>1. /\ waiting' = waiting \cup {req} /\ req.master \notin Waiting
        /\ UNCHANGED <<mode, bypass, last_granted_cpu>>
    BY <1>1 DEF Request, arbVars
  <2>2. \A r \in waiting : r.master # req.master
    BY <2>1 DEF Waiting
  <2>3. Waiting \subseteq Waiting'
    BY <2>1 DEF Waiting
  <2> QED BY <2>1, <2>2, <2>3 DEF FairInv
<1>2. ASSUME UNCHANGED <<waiting, mode, bypass, last_granted_cpu>> PROVE FairInv'
  BY <1>2 DEF FairInv, Waiting
<1>3. ASSUME NEW req \in Requests, NEW t \in ReplayTicks, Replay(req, t) PROVE FairInv'
  BY <1>3 DEF Replay, FairInv, Waiting
<1>4. CASE Arbitrate
  BY <1>4, ArbitrateFair
<1> QED BY <1>1, <1>2, <1>3, <1>4 DEF Next, Requery, Tick, vars, arbVars, hostVars

\* The round robin's invariant holds in every behaviour.
LEMMA FairInvHolds == Spec => []FairInv
<1>1. Init => FairInv
  BY DEF Init, FairInv, Waiting
<1>2. HostInv /\ FairInv /\ [Next]_vars => FairInv'
  BY FairStep
<1> QED BY <1>1, <1>2, HostInvHolds, PTL DEF Spec

\* A CPU that contends is passed over by the other CPU at most once, for every
\* callback, penalty and set of requests, and however many DMA grants, sleeps and
\* new requests come between.
THEOREM BypassIsBounded == Spec => []BoundedBypass
<1>1. FairInv => BoundedBypass
  BY DEF FairInv, BoundedBypass
<1> QED BY <1>1, FairInvHolds, PTL

\* However the caller lists the requests of different masters, pick_winner finds
\* the same one.
THEOREM WinnerIsUnique == Spec => []WinnerIgnoresOrder
<1>1. HostInv /\ FairInv => WinnerIgnoresOrder
  <2> SUFFICES ASSUME HostInv, FairInv, Contenders # {}
               PROVE  \E winner \in Contenders : Winners = {winner}
    BY DEF WinnerIgnoresOrder
  <2>1. PICK s \in SetToSeqs(Contenders) : TRUE
    BY ContendersFacts, ListExists
  <2> DEFINE winner == s[pick_winner(s)]
  <2>2. winner \in Winners
    BY DEF Winners
  <2> HIDE DEF winner
  <2>3. /\ winner \in Contenders
        /\ \A r \in Contenders : r # winner => Rank(r.master) < Rank(winner.master)
    BY <2>2, WinnersAreBest
  <2>4. ASSUME NEW v \in Winners PROVE v = winner
    <3>1. /\ v \in Contenders
          /\ \A r \in Contenders : r # v => Rank(r.master) < Rank(v.master)
      BY WinnersAreBest
    <3>2. Rank(v.master) \in Nat /\ Rank(winner.master) \in Nat
      BY DEF Rank
    <3> QED BY <2>3, <3>1, <3>2
  <2> QED BY <2>2, <2>3, <2>4
<1> QED BY <1>1, HostInvHolds, FairInvHolds, PTL
=============================================================================
