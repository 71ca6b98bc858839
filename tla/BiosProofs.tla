----------------------------- MODULE BiosProofs -----------------------------
(***************************************************************************)
(* Proofs about run_bios_trace, for every image, instruction set, latency  *)
(* model, device, budget and step limit.                                   *)
(***************************************************************************)
EXTENDS BiosPair, HostProofs

Loops == {"top", "produce", "publish", "call", "commit", "probe write", "probe read", "done"}

\* The members of an SH2Core that the count of steps depends on
CoreOK(c) ==
    /\ {"id", "core", "t", "executed", "icache"} \subseteq DOMAIN cores[c]
    /\ cores[c].id = c
    /\ cores[c].executed \in Nat

\* The operations the loop holds, each of the core it is held for
Held == {op \in {p[0], p[1]} : Some(op)}

TypeOK ==
    /\ DOMAIN cores = CpuIds
    /\ \A c \in CpuIds : CoreOK(c)
    /\ DOMAIN p = CpuIds
    /\ \A c \in CpuIds : Some(p[c]) => p[c].cpu = c
    /\ loop \in Loops
    /\ turn \in CpuIds
    /\ fuel \in {Idle} \cup 0..Budget

\* Outside of produce_until_bus nothing is left of its locals
LoopInv ==
    /\ loop # "produce" => turn = 0 /\ fuel = Idle
    /\ fuel # Idle => ~Some(p[turn])
    /\ loop = "commit" => BatchOf(Held)

\* How many instructions core c may still retire before the loop tests
\* max_steps again
Credit(c) ==
    CASE loop = "produce" /\ c = turn -> IF fuel = Idle THEN Budget ELSE fuel
      [] loop = "produce" /\ c > turn -> Budget
      [] loop \in {"publish", "call", "commit"} \/ (loop = "produce" /\ c < turn) ->
           IF Some(p[c]) THEN 1 ELSE 0
      [] OTHER -> 0

CreditInv == Executed + Credit(0) + Credit(1) < MaxSteps + 2 * Budget

IInv == TypeOK /\ LoopInv /\ CreditInv

-----------------------------------------------------------------------------

\* No core has retired an instruction when the loop starts.
LEMMA InitIInv == Init => IInv
<1> SUFFICES ASSUME Init PROVE IInv
  OBVIOUS
<1>1. \A c \in CpuIds : cores[c] = NewCore(c, 0, ResetSp)
  BY DEF Init
<1>2. \A c \in CpuIds : CoreOK(c) /\ cores[c].executed = 0
  <2> TAKE c \in CpuIds
  <2> DEFINE core == S!reset(0, ResetSp)
             icache == NewCache
  <2>1. cores[c] = [id |-> c, core |-> core, t |-> 0, executed |-> 0, icache |-> icache]
    BY <1>1 DEF NewCore
  <2> HIDE DEF core, icache
  <2>2. DOMAIN cores[c] = {"id", "core", "t", "executed", "icache"}
    BY <2>1
  <2> QED BY <2>1, <2>2 DEF CoreOK
<1>3. TypeOK
  BY <1>2 DEF TypeOK, Init, Loops, CpuIds, Idle, Some, Nothing
<1>4. LoopInv
  BY DEF LoopInv, Init
<1>5. Executed = 0 /\ Credit(0) = 0 /\ Credit(1) = 0
  BY <1>2 DEF Executed, Credit, Init, CpuIds
<1> QED BY <1>3, <1>4, <1>5, BiosAssumption DEF IInv, CreditInv

\* A core that keeps its id and has retired d instructions more.
Steps(k, l, d) ==
    /\ {"id", "core", "t", "executed", "icache"} \subseteq DOMAIN l
    /\ l.id = k.id
    /\ l.executed = k.executed + d

\* Retiring an instruction counts one.
LEMMA RetiredSteps ==
    ASSUME NEW c \in CpuIds, CoreOK(c), NEW core, NEW cost
    PROVE  Steps(cores[c], Retired(cores[c], core, cost), 1)
BY DEF CoreOK, Retired, Steps

\* A cached instruction retires at once.
LEMMA HitSteps ==
    ASSUME NEW c \in CpuIds, CoreOK(c), NEW ins
    PROVE  Steps(cores[c], ExecuteCached(cores[c], ins), 1)
BY RetiredSteps DEF ExecuteCached

\* Decoding a cached access retires nothing yet.
LEMMA DecodeSteps ==
    ASSUME NEW c \in CpuIds, CoreOK(c), NEW ins
    PROVE  Steps(cores[c], DecodeCached(cores[c], ins), 0)
BY DEF CoreOK, DecodeCached, Steps

\* The answer to an access or a fetch retires at most one instruction.
LEMMA ApplySteps ==
    ASSUME NEW c \in CpuIds, CoreOK(c), NEW response
    PROVE  Steps(cores[c], apply_ifetch_and_step(cores[c], response), 1)
<1> DEFINE k == cores[c]
           s == [k EXCEPT !.t = @ + response.stall]
           value == Answered(response.value)
           ins == Decode(value % (ByteMod * ByteMod))
           f == [s EXCEPT !.icache = IF response.line = <<>> THEN @
                                     ELSE fill_line(@, LineBase(Phys(k)), response.line)]
<1>1. Steps(k, s, 0) /\ Steps(k, f, 0)
  BY DEF CoreOK, Steps
<1>2. \A l, core, cost : Steps(k, l, 0) => Steps(k, Retired(l, core, cost), 1)
  BY DEF CoreOK, Retired, Steps
<1>3. apply_ifetch_and_step(k, response) =
        IF S!Waiting(k.core)
          THEN Retired(s, S!apply_pending(k.core, value), 1)
          ELSE Retired(f, S!execute_instruction(k.core, ins), Cost(ins))
  BY DEF apply_ifetch_and_step
<1> HIDE DEF k, s, f, value, ins
<1>4. CASE S!Waiting(k.core)
  BY <1>1, <1>2, <1>3, <1>4 DEF k
<1>5. CASE ~S!Waiting(k.core)
  BY <1>1, <1>2, <1>3, <1>5 DEF k
<1> QED BY <1>4, <1>5

\* The operations of a core carry its id.
LEMMA OpIds ==
    ASSUME NEW k, NEW n
    PROVE  FetchOp(k, n).cpu = k.id /\ DataOp(k, n).cpu = k.id
<1>1. FetchOp(k, n).cpu = k.id /\ "cpu" \in DOMAIN FetchOp(k, n)
  BY DEF FetchOp
<1> HIDE DEF FetchOp
<1>2. DataOp(k, n).cpu = FetchOp(k, n).cpu
  <2> DEFINE q == k.core.pending_mem_op
             kind == data_access_kind(q.phys_addr, q.kind \in S!WriteKinds)
  <2>1. DataOp(k, n) = [FetchOp(k, n) EXCEPT !.kind = kind, !.addr = q.phys_addr,
                                             !.size = q.size, !.data = q.value, !.fill = 0]
    BY DEF DataOp
  <2> HIDE DEF q, kind
  <2> QED BY <1>1, <2>1
<1> QED BY <1>1, <1>2

\* The counts of retired instructions are numbers.
LEMMA ExecutedType ==
    ASSUME TypeOK
    PROVE  /\ cores[0].executed \in Nat
           /\ cores[1].executed \in Nat
           /\ Executed = cores[0].executed + cores[1].executed
           /\ Executed \in Nat
BY DEF TypeOK, CoreOK, CpuIds, Executed

\* Changing one core leaves the other as it was.
LEMMA OneCoreSteps ==
    ASSUME TypeOK, NEW l, NEW d \in Nat, Steps(cores[turn], l, d),
           cores' = [cores EXCEPT ![turn] = l]
    PROVE  /\ DOMAIN cores' = CpuIds
           /\ \A c \in CpuIds : CoreOK(c)'
           /\ Executed' = Executed + d
<1>1. turn \in CpuIds /\ DOMAIN cores = CpuIds /\ \A c \in CpuIds : CoreOK(c)
  BY DEF TypeOK
<1>2. /\ DOMAIN cores' = CpuIds
      /\ cores'[turn] = l
      /\ \A c \in CpuIds \ {turn} : cores'[c] = cores[c]
  BY <1>1
<1>3. \A c \in CpuIds : CoreOK(c)'
  BY <1>1, <1>2 DEF CoreOK, Steps
<1>4. cores'[turn].executed = cores[turn].executed + d
  BY <1>2 DEF Steps
<1>5. Executed' = cores'[0].executed + cores'[1].executed
  BY DEF Executed
<1>6. turn = 0 => cores'[0].executed = cores[0].executed + d /\ cores'[1].executed = cores[1].executed
  BY <1>2, <1>4 DEF CpuIds
<1>7. turn = 1 => cores'[1].executed = cores[1].executed + d /\ cores'[0].executed = cores[0].executed
  BY <1>2, <1>4 DEF CpuIds
<1>8. turn = 0 \/ turn = 1
  BY <1>1 DEF CpuIds
<1>9. Executed' = Executed + d
  BY <1>5, <1>6, <1>7, <1>8, ExecutedType
<1> QED BY <1>2, <1>3, <1>9

\* produce_until_bus returns: a core that hands over an operation had a unit of
\* credit left for the answer.
LEMMA ProducedKeeps ==
    ASSUME IInv, Producing, NEW op, Produced(op),
           Some(op) => op.cpu = turn /\ fuel # 0,
           DOMAIN cores' = CpuIds, \A c \in CpuIds : CoreOK(c)', Executed' = Executed
    PROVE  IInv'
<1>1. /\ TypeOK /\ LoopInv /\ CreditInv
      /\ turn \in {0, 1} /\ Budget \in Nat \ {0} /\ MaxSteps \in Nat
      /\ fuel \in {Idle} \cup 0..Budget
      /\ loop = "produce" /\ DOMAIN p = {0, 1}
  BY BiosAssumption DEF IInv, TypeOK, CpuIds, Producing
<1>2. /\ p' = [p EXCEPT ![turn] = op]
      /\ turn' = 1 - turn
      /\ loop' = IF turn = 0 THEN "produce" ELSE "publish"
      /\ fuel' = Idle
  BY DEF Produced, NextTurn
<1>3. TypeOK'
  BY <1>1, <1>2 DEF TypeOK, CpuIds, Loops
<1>4. LoopInv'
  BY <1>1, <1>2 DEF LoopInv
<1>5. Executed \in Nat
  BY <1>1, ExecutedType
<1>6. CASE turn = 0
  <2>1. Credit(0) >= (IF Some(op) THEN 1 ELSE 0) /\ Credit(0) \in Nat /\ Credit(1) = Budget
    BY <1>1, <1>6 DEF Credit, Idle
  <2>2. Credit(0)' = (IF Some(op) THEN 1 ELSE 0) /\ Credit(1)' = Budget
    BY <1>1, <1>2, <1>6 DEF Credit
  <2> QED BY <1>1, <1>3, <1>4, <1>5, <2>1, <2>2 DEF IInv, CreditInv
<1>7. CASE turn = 1
  <2>1. /\ Credit(1) >= (IF Some(op) THEN 1 ELSE 0) /\ Credit(1) \in Nat
        /\ Credit(0) = (IF Some(p[0]) THEN 1 ELSE 0)
    BY <1>1, <1>7 DEF Credit, Idle
  <2>2. Credit(1)' = (IF Some(op) THEN 1 ELSE 0) /\ Credit(0)' = (IF Some(p[0]) THEN 1 ELSE 0)
    BY <1>1, <1>2, <1>7 DEF Credit
  <2> QED BY <1>1, <1>3, <1>4, <1>5, <2>1, <2>2 DEF IInv, CreditInv
<1> QED BY <1>1, <1>6, <1>7

-----------------------------------------------------------------------------
(* One lemma per action *)

\* max_steps is tested: both cores get a new budget, or the loop ends.
LEMMA LoopTopKeeps == IInv /\ LoopTop => IInv'
<1> SUFFICES ASSUME IInv, LoopTop PROVE IInv'
  OBVIOUS
<1>1. /\ TypeOK /\ LoopInv /\ CreditInv /\ Budget \in Nat \ {0} /\ MaxSteps \in Nat
      /\ turn = 0 /\ fuel = Idle
  BY BiosAssumption DEF IInv, LoopInv, LoopTop
<1>2. /\ UNCHANGED <<cores, p, turn, fuel>>
      /\ loop = "top"
      /\ loop' = IF Executed < MaxSteps THEN "produce" ELSE "probe write"
  BY DEF LoopTop
<1>3. TypeOK'
  BY <1>1, <1>2 DEF TypeOK, CoreOK, Loops
<1>4. LoopInv'
  BY <1>1, <1>2 DEF LoopInv
<1>5. Executed \in Nat /\ Executed' = Executed
  BY <1>1, <1>2, ExecutedType DEF Executed
<1>6. Credit(0) = 0 /\ Credit(1) = 0
  BY <1>2 DEF Credit
<1>7. CASE Executed < MaxSteps
  <2>1. Credit(0)' = Budget /\ Credit(1)' = Budget
    BY <1>1, <1>2, <1>7 DEF Credit
  <2> QED BY <1>1, <1>3, <1>4, <1>5, <1>7, <2>1 DEF IInv, CreditInv
<1>8. CASE ~(Executed < MaxSteps)
  <2>1. Credit(0)' = 0 /\ Credit(1)' = 0
    BY <1>2, <1>8 DEF Credit
  <2> QED BY <1>1, <1>3, <1>4, <1>5, <1>6, <2>1 DEF IInv, CreditInv
<1> QED BY <1>7, <1>8

\* A core that waits for an answer produces nothing.
LEMMA AlreadyPendingKeeps == IInv /\ AlreadyPending => IInv'
<1> SUFFICES ASSUME IInv, AlreadyPending PROVE IInv'
  OBVIOUS
<1>1. /\ TypeOK /\ LoopInv /\ CreditInv /\ Budget \in Nat \ {0} /\ MaxSteps \in Nat
      /\ turn \in {0, 1} /\ loop = "produce" /\ Some(p[turn]) /\ fuel = Idle
  BY BiosAssumption DEF IInv, LoopInv, TypeOK, CpuIds, AlreadyPending
<1>2. /\ UNCHANGED <<cores, p, fuel>>
      /\ turn' = 1 - turn
      /\ loop' = IF turn = 0 THEN "produce" ELSE "publish"
  BY DEF AlreadyPending, NextTurn
<1>3. TypeOK'
  BY <1>1, <1>2 DEF TypeOK, CoreOK, CpuIds, Loops
<1>4. LoopInv'
  BY <1>1, <1>2 DEF LoopInv
<1>5. Executed \in Nat /\ Executed' = Executed
  BY <1>1, <1>2, ExecutedType DEF Executed
<1>6. /\ turn = 0 => Credit(0) = Budget /\ Credit(0)' = 1 /\ Credit(1) = Budget /\ Credit(1)' = Budget
      /\ turn = 1 => Credit(1) = Budget /\ Credit(1)' = 1 /\ Credit(0) = Credit(0)' /\ Credit(0) \in {0, 1}
  BY <1>1, <1>2 DEF Credit
<1> QED BY <1>1, <1>3, <1>4, <1>5, <1>6 DEF IInv, CreditInv

\* A core hands over the access it had decoded.
LEMMA IssuePendingKeeps == IInv /\ IssuePending => IInv'
<1> SUFFICES ASSUME IInv, IssuePending PROVE IInv'
  OBVIOUS
<1>1. TypeOK /\ turn \in CpuIds /\ cores[turn].id = turn
  BY DEF IInv, TypeOK, CoreOK
<1>2. DataOp(cores[turn], seq).cpu = turn
  BY <1>1, OpIds
<1>3. DOMAIN cores' = CpuIds /\ (\A c \in CpuIds : CoreOK(c)') /\ Executed' = Executed
  BY <1>1 DEF IssuePending, TypeOK, CoreOK, Executed
<1> QED BY <1>2, <1>3, ProducedKeeps DEF IssuePending, Idle

\* produce_until_bus starts its run with a full budget.
LEMMA StartRunKeeps == IInv /\ StartRun => IInv'
<1> SUFFICES ASSUME IInv, StartRun PROVE IInv'
  OBVIOUS
<1>1. /\ TypeOK /\ LoopInv /\ CreditInv /\ Budget \in Nat \ {0}
      /\ turn \in {0, 1} /\ loop = "produce" /\ ~Some(p[turn]) /\ fuel = Idle
  BY BiosAssumption DEF IInv, TypeOK, CpuIds, StartRun, Producing
<1>2. fuel' = Budget /\ UNCHANGED <<cores, p, loop, turn>>
  BY DEF StartRun
<1>3. TypeOK'
  BY <1>1, <1>2 DEF TypeOK, CoreOK, Loops
<1>4. LoopInv'
  BY <1>1, <1>2 DEF LoopInv, Idle
<1>5. Executed' = Executed
  BY <1>2 DEF Executed
<1>6. Credit(0)' = Credit(0) /\ Credit(1)' = Credit(1)
  BY <1>1, <1>2 DEF Credit, Idle
<1> QED BY <1>1, <1>3, <1>4, <1>5, <1>6 DEF IInv, CreditInv

\* Run-ahead: an instruction from the cache costs a unit of budget.
LEMMA RunHitKeeps == IInv /\ RunHit => IInv'
<1> SUFFICES ASSUME IInv, RunHit PROVE IInv'
  OBVIOUS
<1>1. /\ TypeOK /\ LoopInv /\ CreditInv /\ Budget \in Nat \ {0} /\ MaxSteps \in Nat
      /\ turn \in {0, 1} /\ loop = "produce" /\ ~Some(p[turn]) /\ fuel \in 1..Budget
  BY BiosAssumption DEF IInv, TypeOK, CpuIds, RunHit, Running, Producing, Idle
<1>2. fuel' = fuel - 1 /\ UNCHANGED <<p, loop, turn>>
  BY DEF RunHit
<1>3. PICK ins : cores' = [cores EXCEPT ![turn] = ExecuteCached(cores[turn], ins)]
  BY DEF RunHit
<1>4. Steps(cores[turn], ExecuteCached(cores[turn], ins), 1)
  BY <1>1, HitSteps DEF TypeOK
<1>5. DOMAIN cores' = CpuIds /\ (\A c \in CpuIds : CoreOK(c)') /\ Executed' = Executed + 1
  BY <1>1, <1>3, <1>4, OneCoreSteps
<1>6. TypeOK'
  BY <1>1, <1>2, <1>5 DEF TypeOK, Loops
<1>7. LoopInv'
  BY <1>1, <1>2 DEF LoopInv
<1>8. Executed \in Nat
  BY <1>1, ExecutedType
<1>9. /\ turn = 0 => Credit(0) = fuel /\ Credit(0)' = fuel - 1 /\ Credit(1) = Budget /\ Credit(1)' = Budget
      /\ turn = 1 => Credit(1) = fuel /\ Credit(1)' = fuel - 1 /\ Credit(0) = Credit(0)' /\ Credit(0) \in {0, 1}
  BY <1>1, <1>2 DEF Credit, Idle
<1> QED BY <1>1, <1>5, <1>6, <1>7, <1>8, <1>9 DEF IInv, CreditInv

\* Run-ahead ends at an access to memory.
LEMMA RunMemoryKeeps == IInv /\ RunMemory => IInv'
<1> SUFFICES ASSUME IInv, RunMemory PROVE IInv'
  OBVIOUS
<1>1. TypeOK /\ turn \in CpuIds /\ CoreOK(turn) /\ DOMAIN cores = CpuIds
  BY DEF IInv, TypeOK
<1>2. PICK ins : cores' = [cores EXCEPT ![turn] = DecodeCached(cores[turn], ins)]
  BY DEF RunMemory
<1>3. Steps(cores[turn], DecodeCached(cores[turn], ins), 0)
  BY <1>1, DecodeSteps
<1>4. DOMAIN cores' = CpuIds /\ (\A c \in CpuIds : CoreOK(c)') /\ Executed' = Executed + 0
  BY <1>1, <1>2, <1>3, OneCoreSteps
<1>5. Executed' = Executed
  BY <1>1, <1>4, ExecutedType
<1>6. cores'[turn].id = turn
  BY <1>1, <1>2, <1>3 DEF Steps, CoreOK
<1>7. DataOp(cores'[turn], seq).cpu = turn
  BY <1>6, OpIds
<1> QED BY <1>4, <1>5, <1>7, ProducedKeeps DEF RunMemory, Running

\* Run-ahead ends at a fetch of a line that is not cached.
LEMMA RunFetchKeeps == IInv /\ RunFetch => IInv'
<1> SUFFICES ASSUME IInv, RunFetch PROVE IInv'
  OBVIOUS
<1>1. TypeOK /\ turn \in CpuIds /\ cores[turn].id = turn
  BY DEF IInv, TypeOK, CoreOK
<1>2. FetchOp(cores[turn], seq).cpu = turn
  BY <1>1, OpIds
<1>3. DOMAIN cores' = CpuIds /\ (\A c \in CpuIds : CoreOK(c)') /\ Executed' = Executed
  BY <1>1 DEF RunFetch, TypeOK, CoreOK, Executed
<1> QED BY <1>2, <1>3, ProducedKeeps DEF RunFetch, Running

\* Run-ahead ends with its budget.
LEMMA RunEndKeeps == IInv /\ RunEnd => IInv'
<1> SUFFICES ASSUME IInv, RunEnd PROVE IInv'
  OBVIOUS
<1>1. DOMAIN cores' = CpuIds /\ (\A c \in CpuIds : CoreOK(c)') /\ Executed' = Executed
  BY DEF RunEnd, IInv, TypeOK, CoreOK, Executed
<1> QED BY <1>1, ProducedKeeps DEF RunEnd, Some

\* The loop publishes the cores' progress.
LEMMA PublishKeeps == IInv /\ Publish => IInv'
<1> SUFFICES ASSUME IInv, Publish PROVE IInv'
  OBVIOUS
<1>1. TypeOK /\ LoopInv /\ CreditInv /\ Budget \in Nat \ {0} /\ MaxSteps \in Nat
  BY BiosAssumption DEF IInv
<1>2. /\ UNCHANGED <<cores, p, turn, fuel>>
      /\ loop = "publish"
      /\ loop' = IF Some(p[0]) \/ Some(p[1]) THEN "call" ELSE "top"
  BY DEF Publish
<1>3. TypeOK'
  BY <1>1, <1>2 DEF TypeOK, CoreOK, Loops
<1>4. LoopInv'
  BY <1>1, <1>2 DEF LoopInv
<1>5. Executed \in Nat /\ Executed' = Executed
  BY <1>1, <1>2, ExecutedType DEF Executed
<1>6. Credit(0)' = Credit(0) /\ Credit(1)' = Credit(1)
  BY <1>2 DEF Credit
<1> QED BY <1>1, <1>3, <1>4, <1>5, <1>6 DEF IInv, CreditInv

\* The loop hands the operations of the cores to commit_batch.
LEMMA LoopCallKeeps == IInv /\ LoopCall => IInv'
<1> SUFFICES ASSUME IInv, LoopCall PROVE IInv'
  OBVIOUS
<1>1. TypeOK /\ LoopInv /\ CreditInv
  BY DEF IInv
<1>2. loop = "call" /\ loop' = "commit" /\ UNCHANGED <<cores, p, turn, fuel>>
  BY DEF LoopCall
<1>3. TypeOK'
  BY <1>1, <1>2 DEF TypeOK, CoreOK, Loops
<1>4. Fetches \in Seq(Held)
  <2> DEFINE one(c) == IF Some(p[c]) THEN <<p[c]>> ELSE <<>>
  <2>1. \A c \in CpuIds : one(c) \in Seq(Held)
    <3> TAKE c \in CpuIds
    <3>1. Some(p[c]) => p[c] \in Held
      BY DEF Held, CpuIds
    <3> HIDE DEF Held
    <3> QED BY <3>1
  <2>2. Fetches = one(0) \o one(1)
    BY DEF Fetches
  <2> HIDE DEF one
  <2> QED BY <2>1, <2>2 DEF CpuIds
<1>5. Held' = Held
  BY <1>2 DEF Held
<1>6. BatchOf(Held)'
  <2>1. \A H : Fetches \in Seq(H) => (BatchOf(H))'
    BY BatchCallOf DEF LoopCall
  <2> QED BY <1>4, <1>5, <2>1 DEF BatchOf
<1>7. LoopInv'
  BY <1>1, <1>2, <1>6 DEF LoopInv
<1>8. Executed' = Executed /\ Credit(0)' = Credit(0) /\ Credit(1)' = Credit(1)
  BY <1>2 DEF Credit, Executed
<1> QED BY <1>1, <1>3, <1>7, <1>8 DEF IInv, CreditInv

\* A step of commit_batch retires nothing.
LEMMA InBatchKeeps == IInv /\ InBatch => IInv'
<1> SUFFICES ASSUME IInv, InBatch PROVE IInv'
  OBVIOUS
<1>1. TypeOK /\ LoopInv /\ CreditInv
  BY DEF IInv
<1>2. loop = "commit" /\ UNCHANGED <<cores, p, loop, turn, fuel>>
  BY DEF InBatch, loopVars
<1>3. TypeOK'
  BY <1>1, <1>2 DEF TypeOK, CoreOK
<1>4. BatchOf(Held)'
  <2>1. Held' = Held
    BY <1>2 DEF Held
  <2>2. \A H : BatchOf(H) => (BatchOf(H))'
    BY BatchAnswersItsOps DEF InBatch
  <2> QED BY <1>1, <1>2, <2>1, <2>2 DEF LoopInv, BatchOf
<1>5. LoopInv'
  BY <1>1, <1>2, <1>4 DEF LoopInv
<1>6. Executed' = Executed /\ Credit(0)' = Credit(0) /\ Credit(1)' = Credit(1)
  BY <1>2 DEF Credit, Executed
<1> QED BY <1>1, <1>3, <1>5, <1>6 DEF IInv, CreditInv

\* A result of the batch answers an operation that its core waits for.
LEMMA ResultsAreAwaited ==
    ASSUME IInv, loop = "commit", NEW c \in CpuIds, ResultsFor(c) # {}
    PROVE  Some(p[c])
<1>1. BatchOf(Held) /\ TypeOK
  BY DEF IInv, LoopInv
<1>2. PICK i \in 1..Len(call.committed) : call.committed[i].op.cpu = c
  BY DEF ResultsFor
<1>3. call.committed[i].op \in Held
  BY <1>1 DEF BatchOf
<1>4. PICK d \in CpuIds : call.committed[i].op = p[d] /\ Some(p[d])
  BY <1>3 DEF Held, CpuIds
<1>5. d = c
  BY <1>1, <1>2, <1>4 DEF TypeOK
<1> QED BY <1>4, <1>5

\* Delivering the results retires at most one instruction of each core.
LEMMA AppliedSteps ==
    ASSUME IInv, loop = "commit", NEW c \in CpuIds
    PROVE  Steps(cores[c], Applied(c), IF ResultsFor(c) = {} THEN 0 ELSE 1)
<1>1. CoreOK(c)
  BY DEF IInv, TypeOK
<1>2. CASE ResultsFor(c) = {}
  BY <1>1, <1>2 DEF Applied, Steps, CoreOK
<1>3. CASE ResultsFor(c) # {}
  BY <1>1, <1>3, ApplySteps DEF Applied
<1> QED BY <1>2, <1>3

\* The loop delivers the results to the cores.
LEMMA LoopApplyKeeps == IInv /\ LoopApply => IInv'
<1> SUFFICES ASSUME IInv, LoopApply PROVE IInv'
  OBVIOUS
<1>1. /\ TypeOK /\ LoopInv /\ CreditInv /\ Budget \in Nat \ {0} /\ MaxSteps \in Nat
      /\ loop = "commit" /\ turn = 0 /\ fuel = Idle
  BY BiosAssumption DEF IInv, LoopInv, LoopApply
<1>2. /\ cores' = [c \in CpuIds |-> Applied(c)]
      /\ p' = [c \in CpuIds |-> IF ResultsFor(c) # {} THEN Nothing ELSE p[c]]
      /\ loop' = "top" /\ turn' = turn /\ fuel' = fuel
  BY DEF LoopApply
<1> DEFINE d(c) == IF ResultsFor(c) = {} THEN 0 ELSE 1
<1>3. \A c \in CpuIds : Steps(cores[c], cores'[c], d(c))
  BY <1>1, <1>2, AppliedSteps
<1>4. \A c \in CpuIds : CoreOK(c)'
  BY <1>1, <1>3 DEF TypeOK, CoreOK, Steps
<1>5. TypeOK'
  BY <1>1, <1>2, <1>4 DEF TypeOK, Loops, Some
<1>6. LoopInv'
  BY <1>1, <1>2 DEF LoopInv
<1>7. /\ cores'[0].executed = cores[0].executed + d(0)
      /\ cores'[1].executed = cores[1].executed + d(1)
  BY <1>3 DEF Steps, CpuIds
<1>8. /\ d(0) <= Credit(0) /\ Credit(0) \in {0, 1}
      /\ d(1) <= Credit(1) /\ Credit(1) \in {0, 1}
  <2>1. \A c \in CpuIds : Credit(c) = IF Some(p[c]) THEN 1 ELSE 0
    BY <1>1 DEF Credit, CpuIds
  <2>2. \A c \in CpuIds : ResultsFor(c) # {} => Some(p[c])
    BY <1>1, ResultsAreAwaited
  <2> QED BY <2>1, <2>2 DEF CpuIds
<1>9. Credit(0)' = 0 /\ Credit(1)' = 0
  BY <1>2 DEF Credit
<1>10. Executed' = Executed + d(0) + d(1) /\ Executed \in Nat
  <2>1. Executed' = cores'[0].executed + cores'[1].executed
    BY DEF Executed
  <2> QED BY <1>1, <1>7, <2>1, ExecutedType
<1> QED BY <1>1, <1>5, <1>6, <1>8, <1>9, <1>10 DEF IInv, CreditInv

\* The DMA probe after the loop changes no count.
LEMMA ProbeKeeps == IInv /\ Probe => IInv'
<1> SUFFICES ASSUME IInv, Probe PROVE IInv'
  OBVIOUS
<1>1. TypeOK /\ LoopInv /\ CreditInv
  BY DEF IInv
<1>2. /\ loop \in {"probe write", "probe read"} /\ loop' \in {"probe read", "done"}
      /\ UNCHANGED <<cores, p, turn, fuel>>
  BY DEF Probe
<1>3. TypeOK'
  BY <1>1, <1>2 DEF TypeOK, CoreOK, Loops
<1>4. LoopInv'
  BY <1>1, <1>2 DEF LoopInv
<1>5. Executed' = Executed /\ Credit(0)' = Credit(0) /\ Credit(1)' = Credit(1)
  BY <1>2 DEF Credit, Executed
<1> QED BY <1>1, <1>3, <1>4, <1>5 DEF IInv, CreditInv

\* A stuttering step.
LEMMA IdleKeeps == IInv /\ UNCHANGED vars => IInv'
<1> SUFFICES ASSUME IInv, UNCHANGED vars PROVE IInv'
  OBVIOUS
<1>1. UNCHANGED <<cores, p, loop, turn, fuel, call>>
  BY DEF vars, loopVars, arbVars
<1>2. Held' = Held
  BY <1>1 DEF Held
<1>3. LoopInv'
  BY <1>1, <1>2 DEF IInv, LoopInv, BatchOf
<1> QED BY <1>1, <1>3 DEF IInv, TypeOK, CoreOK, CreditInv, Credit, Executed

\* Every step keeps the inductive invariant.
LEMMA NextIInv == IInv /\ [Next]_vars => IInv'
BY LoopTopKeeps, AlreadyPendingKeeps, IssuePendingKeeps, StartRunKeeps, RunHitKeeps,
   RunMemoryKeeps, RunFetchKeeps, RunEndKeeps, PublishKeeps, LoopCallKeeps, InBatchKeeps,
   LoopApplyKeeps, ProbeKeeps, IdleKeeps DEF Next, Terminated

\* At every moment the two cores have retired fewer than max_steps and two
\* budgets of instructions, whatever the image does: each core retires at most a
\* budget between two tests of max_steps, the answer to its access included.
THEOREM StepsAreBounded == Spec => []StepsBounded
<1>1. IInv => StepsBounded
  <2> SUFFICES ASSUME IInv PROVE StepsBounded
    OBVIOUS
  <2>1. /\ TypeOK /\ CreditInv /\ Budget \in Nat /\ MaxSteps \in Nat
        /\ turn \in {0, 1} /\ fuel \in {Idle} \cup 0..Budget
    BY BiosAssumption DEF IInv, TypeOK, CpuIds
  <2>2. Credit(0) \in Nat /\ Credit(1) \in Nat
    BY <2>1 DEF Credit, Idle
  <2>3. Executed \in Nat
    BY <2>1, ExecutedType
  <2> QED BY <2>1, <2>2, <2>3 DEF CreditInv, StepsBounded
<1> QED BY <1>1, InitIInv, NextIInv, PTL DEF Spec

-----------------------------------------------------------------------------
(* The instruction caches.  The invariant speaks of what a core's cache is  *)
(* once the results that the batch has for it are applied: a fill is in the *)
(* trace before its line is in the cache.                                   *)

\* The images fill a memory of whole cache lines, and an aligned halfword does
\* not cross the end of a line
WholeImages ==
    /\ \A image \in Images : image = [a \in RamAddr |-> image[a]]
    /\ \A a \in RamAddr : LineBytes(a) \subseteq RamAddr
    /\ LineSize % 2 = 0

\* BusOp::phys_addr is a number
NumberedAddresses == \A c \in CpuIds : Some(p[c]) => p[c].addr \in Nat

View(c) == Applied(c).icache

\* Core k asks for a line only if it has to fetch and does not have it
AsksOnlyForMisses(k, op) ==
    \/ op.fill = 0
    \/ /\ op.fill = LineSize /\ op.kind = "IFetch" /\ op.size = 2
       /\ op.addr = Phys(k) /\ ~is_mmio(op.addr)
       /\ ~Hit(k.icache, op.addr, 2)

\* The cores that wait for an answer, and their operations
Waiters == {c \in CpuIds : Some(p[c])}
WaitersOp == [c \in CpuIds |-> p[c]]

OpsInv == \A c \in CpuIds : Some(p[c]) => p[c].producer = "Auto" /\ AsksOnlyForMisses(cores[c], p[c])

CallInv ==
    /\ ~halt_on_fault /\ ~should_halt
    /\ IF loop = "commit" THEN OnePerCpu(Waiters, WaitersOp) ELSE call = IdleCall

\* v is what memory holds at a, or has held before a store that has committed
\* since core c last filled the line
Explained(c, a, v) ==
    \/ v = memory[a]
    \/ \E i \in 1..Len(trace) :
          /\ trace[i].op.kind = "Write" /\ Covers(trace[i].op, a)
          /\ \A j \in (i + 1)..Len(trace) : ~Fills(trace[j], c, a)

CachesInv ==
    /\ IsSeq(trace)
    /\ memory = [a \in RamAddr |-> memory[a]]
    /\ \A c \in CpuIds : IsCache(View(c))
    /\ \A c \in CpuIds, a \in RamAddr :
          Resident(View(c), a) => Explained(c, a, CachedByte(View(c), a))

StaleInv == IInv /\ OpsInv /\ CallInv /\ CachesInv

\* What executing an operation does to the log and the memory.
Executes(op, line) ==
    /\ trace' = Append(trace, line) /\ line.op = op
    /\ ~halt_on_fault' /\ ~should_halt'
    /\ \/ Rejected(op) /\ line.fault # "none" /\ memory' = memory
       \/ /\ ~Rejected(op) /\ line.fault = "none"
          /\ memory' = IF IsWrite(op) /\ ~ToDevice(op)
                         THEN write(memory, op.addr, op.size, op.data) ELSE memory

LEMMA ExecuteLogs ==
    ASSUME NEW op, NEW tie, execute_commit(op, tie), ~halt_on_fault, ~should_halt
    PROVE  \E line : Executes(op, line)
<1>1. CASE Rejected(op) /\ Reject(op)
  <2> DEFINE line == [start |-> Start(op), finish |-> Start(op), op |-> op, stall |-> 0,
                      value |-> kInvalidBusOpValue, fault |-> RejectReason(op)]
  <2>1. trace' = Append(trace, line) /\ line.op = op /\ line.fault # "none"
    BY <1>1 DEF Reject, fault_response, RejectReason
  <2>2. /\ should_halt' = (should_halt \/ halt_on_fault) /\ halt_on_fault' = halt_on_fault
        /\ memory' = memory
    BY <1>1 DEF Reject, fault_response, storeVars
  <2> HIDE DEF line
  <2> QED BY <1>1, <2>1, <2>2 DEF Executes
<1>2. CASE ~Rejected(op) /\ Grant(op, tie)
  <2> DEFINE line == [start |-> Start(op), finish |-> Finish(op, tie), op |-> op,
                      stall |-> Finish(op, tie) - op.req, value |-> ValueOf(op), fault |-> "none"]
  <2>1. trace' = Append(trace, line) /\ line.op = op /\ line.fault = "none"
    BY <1>2 DEF Grant, add_commit
  <2>2. /\ UNCHANGED <<halt_on_fault, should_halt>>
        /\ memory' = IF IsWrite(op) /\ ~ToDevice(op)
                       THEN write(memory, op.addr, op.size, op.data) ELSE memory
    BY <1>2 DEF Grant, add_commit, Effect
  <2> HIDE DEF line
  <2> QED BY <1>2, <2>1, <2>2 DEF Executes
<1> QED BY <1>1, <1>2 DEF execute_commit

\* An operation that is not a fill of the line leaves the bytes of a cache explained:
\* if it changes the byte in memory it is the store that explains the old one.
LEMMA StillExplained ==
    ASSUME IsSeq(trace), memory = [a \in RamAddr |-> memory[a]], NEW op, op.addr \in Nat,
           NEW line, Executes(op, line),
           NEW c \in CpuIds, NEW a \in RamAddr, ~Fills(line, c, a), NEW v, Explained(c, a, v)
    PROVE  Explained(c, a, v)'
<1>1. /\ IsSeq(trace') /\ Len(trace) \in Nat /\ Len(trace') = Len(trace) + 1
      /\ \A i \in 1..Len(trace) : trace'[i] = trace[i]
      /\ trace'[Len(trace) + 1] = line
  BY AppendAny DEF Executes
<1>2. CASE \E i \in 1..Len(trace) :
              /\ trace[i].op.kind = "Write" /\ Covers(trace[i].op, a)
              /\ \A j \in (i + 1)..Len(trace) : ~Fills(trace[j], c, a)
  <2>1. PICK i \in 1..Len(trace) :
              /\ trace[i].op.kind = "Write" /\ Covers(trace[i].op, a)
              /\ \A j \in (i + 1)..Len(trace) : ~Fills(trace[j], c, a)
    BY <1>2
  <2>2. i \in 1..Len(trace') /\ trace'[i].op.kind = "Write" /\ Covers(trace'[i].op, a)
    BY <1>1, <2>1
  <2>3. ASSUME NEW j \in (i + 1)..Len(trace') PROVE ~Fills(trace'[j], c, a)
    <3>1. j = Len(trace) + 1 \/ (j \in (i + 1)..Len(trace) /\ j \in 1..Len(trace))
      BY <1>1, <2>1, <2>3
    <3> QED BY <1>1, <2>1, <3>1
  <2> QED BY <2>2, <2>3 DEF Explained
<1>3. CASE v = memory[a] /\ memory'[a] = memory[a]
  BY <1>3 DEF Explained
<1>4. CASE memory'[a] # memory[a]
  <2>1. ~Rejected(op) /\ IsWrite(op) /\ ~ToDevice(op)
        /\ memory' = write(memory, op.addr, op.size, op.data)
    BY <1>4 DEF Executes
  <2>2. op.kind = "Write"
    BY <2>1 DEF IsWrite, ToDevice
  <2>3. op.size \in AccessSizes
    BY <2>1, <2>2 DEF Rejected, ValidBusOp, valid_bus_size
  <2>4. a \in Touched(op.addr, op.size)
    <3> HIDE <1>2, <1>3
    <3>1. PICK w : w = write(memory, op.addr, op.size, op.data)
      OBVIOUS
    <3>2. \A b \in RamAddr :
                w[b] = IF b \in Touched(op.addr, op.size) /\ Touched(op.addr, op.size) \subseteq RamAddr
                         THEN ByteOf(op.data, op.size, b - op.addr) ELSE memory[b]
      BY <2>3, <3>1, WriteFacts
    <3> QED BY <1>4, <2>1, <3>1, <3>2
  <2>5. Covers(op, a)
    BY <2>4 DEF Covers, Touched
  <2> DEFINE i == Len(trace) + 1
  <2>6. i \in 1..Len(trace') /\ trace'[i].op = op /\ (i + 1)..Len(trace') = {}
    BY <1>1 DEF Executes
  <2> HIDE DEF i
  <2> QED BY <2>2, <2>5, <2>6 DEF Explained
<1> QED BY <1>2, <1>3, <1>4 DEF Explained

\* An aligned fetch stays within its line.
LEMMA AlignedInLine ==
    ASSUME LineSize % 2 = 0, NEW addr \in Nat, is_aligned(addr, 2)
    PROVE  ~CrossesLine(addr, 2)
<1>1. LineSize \in Nat \ {0}
  BY CacheAssumption
<1> DEFINE h == LineSize \div 2
           q == addr \div LineSize
           r == addr % LineSize
           m == addr \div 2
<1>2. h \in Nat /\ LineSize = 2 * h
  BY <1>1
<1>3. q \in Nat /\ r \in 0..(LineSize - 1) /\ addr = LineSize * q + r
  BY <1>1
<1>4. m \in Nat /\ addr = 2 * m
  BY DEF is_aligned
<1> HIDE DEF h, q, r, m
<1>5. LineSize * q = 2 * (h * q) /\ h * q \in Nat
  BY <1>2, <1>3
<1> SUFFICES ASSUME r + 2 > LineSize PROVE FALSE
  BY DEF CrossesLine, r
<1>6. r = 2 * h - 1
  BY <1>1, <1>2, <1>3
<1>7. 2 * m = 2 * (h * q) + 2 * h - 1
  BY <1>3, <1>4, <1>5, <1>6
<1> DEFINE hq == h * q
<1>8. hq \in Nat
  BY <1>5
<1> HIDE DEF hq
<1> QED BY <1>2, <1>4, <1>7, <1>8 DEF hq

\* A core with all its members
HasMembers(k) == {"id", "core", "t", "executed", "icache"} \subseteq DOMAIN k

\* What an answer does to the cache of a core.
LEMMA ApplyFills ==
    ASSUME NEW k, HasMembers(k), NEW response
    PROVE  apply_ifetch_and_step(k, response).icache =
             IF S!Waiting(k.core) \/ response.line = <<>> THEN k.icache
             ELSE fill_line(k.icache, LineBase(Phys(k)), response.line)
<1> DEFINE s == [k EXCEPT !.t = @ + response.stall]
           value == Answered(response.value)
           ins == Decode(value % (ByteMod * ByteMod))
           new == IF response.line = <<>> THEN s.icache
                  ELSE fill_line(s.icache, LineBase(Phys(k)), response.line)
           f == [s EXCEPT !.icache = new]
<1>1. HasMembers(s) /\ s.icache = k.icache
  BY DEF HasMembers
<1>2. HasMembers(f) /\ f.icache = new
  BY <1>1 DEF HasMembers
<1>3. \A l, core, cost : HasMembers(l) => Retired(l, core, cost).icache = l.icache
  BY DEF Retired, HasMembers
<1>4. apply_ifetch_and_step(k, response) =
        IF S!Waiting(k.core)
          THEN Retired(s, S!apply_pending(k.core, value), 1)
          ELSE Retired(f, S!execute_instruction(k.core, ins), Cost(ins))
  BY DEF apply_ifetch_and_step
<1>5. new = IF response.line = <<>> THEN k.icache
            ELSE fill_line(k.icache, LineBase(Phys(k)), response.line)
  BY <1>1
<1> HIDE DEF s, f, value, ins, new
<1>6. CASE S!Waiting(k.core)
  BY <1>1, <1>3, <1>4, <1>6
<1>7. CASE ~S!Waiting(k.core)
  BY <1>2, <1>3, <1>4, <1>5, <1>7
<1> QED BY <1>6, <1>7

\* The line of an answer: only a fetch that asks for it gets one.
LEMMA AnswerLine ==
    ASSUME NEW op, NEW tie,
           op.fill = 0 \/ (op.fill = LineSize /\ op.kind = "IFetch" /\ ~is_mmio(op.addr))
    PROVE  Response(op, tie).line =
             IF Rejected(op) \/ op.fill = 0 THEN <<>> ELSE LineData(op.addr, LineSize)
<1>1. LineSize > 0 /\ LineSize # 0
  BY CacheAssumption
<1>2. CASE Rejected(op)
  BY <1>2 DEF Response
<1>3. CASE ~Rejected(op)
  <2> DEFINE value == ValueOf(op)
             stall == Finish(op, tie) - op.req
             line == IF op.kind \in {"Read", "IFetch"} /\ ~ToDevice(op) /\ op.fill > 0
                       THEN LineData(op.addr, op.fill) ELSE <<>>
  <2>1. Response(op, tie) = [value |-> value, stall |-> stall, line |-> line]
    BY <1>3 DEF Response
  <2>2. line = IF op.fill = 0 THEN <<>> ELSE LineData(op.addr, LineSize)
    BY <1>1 DEF ToDevice
  <2> HIDE DEF value, line, stall
  <2> QED BY <1>3, <2>1, <2>2
<1> QED BY <1>2, <1>3

\* The core whose operation is executed: its cache stays explained once the
\* answer is applied.
LEMMA OwnAnswer ==
    ASSUME WholeImages, IsSeq(trace), memory = [a \in RamAddr |-> memory[a]],
           NEW d \in CpuIds, HasMembers(cores[d]),
           NEW op, op.cpu = d, op.addr \in Nat, AsksOnlyForMisses(cores[d], op), NEW tie,
           NEW line, Executes(op, line),
           NEW h, h = cores[d].icache, IsCache(h),
           \A a \in RamAddr : Resident(h, a) => Explained(d, a, CachedByte(h, a)),
           NEW w, w = apply_ifetch_and_step(cores[d], Response(op, tie)).icache
    PROVE  /\ IsCache(w)
           /\ \A a \in RamAddr : Resident(w, a) => Explained(d, a, CachedByte(w, a))'
<1> DEFINE answer == Response(op, tie).line
           waits == S!Waiting(cores[d].core)
           t == LineBase(op.addr)
<1>1. w = IF waits \/ answer = <<>> THEN h ELSE fill_line(h, LineBase(Phys(cores[d])), answer)
  BY ApplyFills
<1>2. answer = IF Rejected(op) \/ op.fill = 0 THEN <<>> ELSE LineData(op.addr, LineSize)
  BY AnswerLine DEF AsksOnlyForMisses
<1>3. op.fill # 0 => /\ op.fill = LineSize /\ op.kind = "IFetch" /\ op.size = 2
                     /\ op.addr = Phys(cores[d]) /\ ~Hit(h, op.addr, 2)
  BY DEF AsksOnlyForMisses
<1>4. LineSize \in Nat \ {0} /\ RamAddr \subseteq Nat /\ t \in Nat
  BY CacheAssumption, AddrAssumption, LineOfByte
<1> HIDE DEF answer, waits, t
<1>5. ASSUME NEW a \in RamAddr
      PROVE  Fills(line, d, a) <=> (op.fill # 0 /\ ~Rejected(op) /\ t = LineBase(a))
  <2>1. op.fill > 0 <=> op.fill # 0
    BY <1>3, <1>4 DEF AsksOnlyForMisses
  <2>2. line.op = op /\ (line.fault = "none" <=> ~Rejected(op))
    BY DEF Executes
  <2> QED BY <2>1, <2>2 DEF Fills, t
<1>6. CASE answer = <<>> \/ waits
  <2>1. w = h
    BY <1>1, <1>6
  <2>2. ASSUME NEW a \in RamAddr, Resident(h, a) PROVE ~Fills(line, d, a)
    <3> SUFFICES ASSUME Fills(line, d, a) PROVE FALSE
      OBVIOUS
    <3>1. op.fill # 0 /\ ~Rejected(op) /\ t = LineBase(a)
      BY <1>5
    <3>2. is_aligned(op.addr, 2)
      BY <1>3, <3>1 DEF Rejected, ValidBusOp
    <3>3. ~CrossesLine(op.addr, 2)
      BY <3>2, AlignedInLine DEF WholeImages
    <3>4. ~Resident(h, op.addr)
      BY <1>3, <3>1, <3>3 DEF Hit
    <3> QED BY <2>2, <3>1, <3>4 DEF Resident, t
  <2> QED BY <2>1, <2>2, StillExplained
<1>7. CASE answer # <<>> /\ ~waits
  <2>1. op.fill # 0 /\ ~Rejected(op) /\ answer = LineData(op.addr, LineSize)
    BY <1>2, <1>7
  <2>2. w = fill_line(h, t, answer)
    BY <1>1, <1>3, <1>7, <2>1 DEF t
  <2>3. LineFrom(memory, t, answer)
    BY <2>1, LineDataFacts DEF t
  <2>4. answer = [b \in BytesOf(t) |-> answer[b]]
    BY <2>3 DEF LineFrom
  <2>5. /\ IsCache(w)
        /\ \A a \in Nat : Resident(w, a) =>
             IF LineBase(a) = t THEN CachedByte(w, a) = answer[a]
             ELSE Resident(h, a) /\ CachedByte(w, a) = CachedByte(h, a)
    BY <1>4, <2>2, <2>4, FillFacts
  <2>6. memory' = memory
    BY <1>3, <2>1 DEF Executes, IsWrite
  <2>7. ASSUME NEW a \in RamAddr, Resident(w, a)
        PROVE  Explained(d, a, CachedByte(w, a))'
    <3>1. CASE LineBase(a) = t
      <4>1. a \in BytesOf(t) /\ BytesOf(t) \subseteq RamAddr
        BY <1>4, <3>1, LineOfByte DEF WholeImages
      <4>2. CachedByte(w, a) = memory'[a]
        BY <1>4, <2>3, <2>5, <2>6, <2>7, <3>1, <4>1 DEF LineFrom
      <4> QED BY <4>2 DEF Explained
    <3>2. CASE LineBase(a) # t
      <4>1. Resident(h, a) /\ CachedByte(w, a) = CachedByte(h, a)
        BY <1>4, <2>5, <2>7, <3>2
      <4>2. ~Fills(line, d, a)
        BY <1>5, <3>2
      <4> QED BY <4>1, <4>2, StillExplained
    <3> QED BY <3>1, <3>2
  <2> QED BY <2>5, <2>7
<1> QED BY <1>6, <1>7

\* The vector of the batch has the operation of each waiting core once.
LEMMA FetchesFacts ==
    ASSUME TypeOK, OpsInv
    PROVE  /\ Waiters \in SUBSET CpuIds
           /\ \A c \in Waiters : WaitersOp[c].cpu = c /\ WaitersOp[c].producer = "Auto"
           /\ Fetches \in Seq(Ops(Waiters, WaitersOp))
           /\ \A i, j \in 1..Len(Fetches) : Fetches[i].cpu = Fetches[j].cpu => i = j
           /\ \A c \in Waiters : \E i \in 1..Len(Fetches) : Fetches[i] = WaitersOp[c]
<1> DEFINE held == [c \in CpuIds |-> [index |-> IF Some(p[c]) THEN 1 ELSE 0, op |-> p[c]]]
<1>1. \A c \in CpuIds : (Has(held[c]) <=> Some(p[c])) /\ held[c].op = p[c]
  BY DEF Has
<1>2. \A c \in CpuIds : Has(held[c]) => held[c].op.cpu = c /\ held[c].op.producer = "Auto"
  BY <1>1 DEF TypeOK, OpsInv
<1> HIDE DEF held
<1>3. Holders(held) = Waiters
  BY <1>1 DEF Holders, Waiters
<1>4. OpsBy(held) = WaitersOp
  BY <1>1 DEF OpsBy, WaitersOp
<1>5. OpsOf(held) = Fetches
  <2>1. /\ (Has(held[0]) <=> Some(p[0])) /\ held[0].op = p[0]
        /\ (Has(held[1]) <=> Some(p[1])) /\ held[1].op = p[1]
    BY <1>1 DEF CpuIds
  <2> QED BY <2>1 DEF OpsOf, Fetches
<1> QED BY <1>2, <1>3, <1>4, <1>5, OpsOfFacts

\* Without results a core's view is its cache.
LEMMA NoResultsView ==
    ASSUME NEW c, ResultsFor(c) = {}
    PROVE  View(c) = cores[c].icache
BY DEF View, Applied

\* Steps that touch no memory, no log and no view.
LEMMA SameViews ==
    ASSUME CachesInv, UNCHANGED <<memory, trace>>, \A c \in CpuIds : View(c)' = View(c)
    PROVE  CachesInv'
<1>1. ASSUME NEW c \in CpuIds, NEW a \in RamAddr, Resident(View(c)', a)
      PROVE  Explained(c, a, CachedByte(View(c), a))'
  <2>1. PICK h : h = View(c)
    OBVIOUS
  <2>2. h = View(c)' /\ Explained(c, a, CachedByte(h, a))
    BY <1>1, <2>1 DEF CachesInv
  <2>3. Explained(c, a, CachedByte(h, a))'
    BY <2>2 DEF Explained
  <2> QED BY <2>2, <2>3
<1> QED BY <1>1 DEF CachesInv

\* One iteration of the second loop.
LEMMA CommitExplained ==
    ASSUME WholeImages, NumberedAddresses, StaleInv, loop = "commit", BatchCommit,
           UNCHANGED loopVars
    PROVE  CallInv' /\ CachesInv'
<1>1. UNCHANGED <<cores, p, loop>>
  BY DEF loopVars
<1>2. PICK D, g : D = Waiters /\ g = WaitersOp /\ OnePerCpu(D, g)
  BY DEF StaleInv, CallInv
<1>3. PICK w \in Committable :
        /\ execute_commit(call.pending[w].op, HadTie(w))
        /\ Serves(w, [index |-> call.pending[w].index, op |-> call.pending[w].op,
                      response |-> Response(call.pending[w].op, HadTie(w))])
  BY DEF BatchCommit, Serves
<1>4. PICK tie : tie = HadTie(w)
  OBVIOUS
<1>5. PICK e : e = [index |-> call.pending[w].index, op |-> call.pending[w].op,
                    response |-> Response(call.pending[w].op, tie)]
  OBVIOUS
<1>6. /\ e.op = call.pending[w].op /\ e.response = Response(e.op, tie)
      /\ execute_commit(e.op, tie) /\ Serves(w, e) /\ w \in 1..Len(call.pending)
      /\ call.phase = "commit"
  BY <1>3, <1>4, <1>5 DEF Committable, BatchCommit
<1>7. /\ OnePerCpu(D, g)'
      /\ e.op.cpu \in D /\ e.op = g[e.op.cpu]
      /\ Len(call.committed) \in Nat /\ Len(call'.committed) = Len(call.committed) + 1
      /\ \A i \in 1..Len(call.committed) : call'.committed[i] = call.committed[i]
      /\ call'.committed[Len(call.committed) + 1] = e
  BY <1>2, <1>6, OneCommit
<1>8. D = Waiters' /\ g = WaitersOp'
  BY <1>1, <1>2 DEF Waiters, WaitersOp
<1>9. PICK line : Executes(e.op, line)
  BY <1>6, ExecuteLogs DEF StaleInv, CallInv
<1>10. CallInv'
  BY <1>1, <1>7, <1>8, <1>9 DEF StaleInv, CallInv, Executes
<1> DEFINE d == e.op.cpu
<1>11. /\ d \in CpuIds /\ Some(p[d]) /\ e.op = p[d] /\ e.op.addr \in Nat
       /\ AsksOnlyForMisses(cores[d], e.op)
  <2>1. d \in CpuIds /\ Some(p[d]) /\ e.op = p[d]
    BY <1>2, <1>7 DEF Waiters, WaitersOp
  <2> QED BY <2>1 DEF StaleInv, OpsInv, NumberedAddresses
<1>12. Answering(D, g)
  BY <1>2, <1>6 DEF OnePerCpu
<1>13. ResultsFor(d) = {}
  BY <1>6, <1>12 DEF ResultsFor, Answering
<1>14. ResultsFor(d)' = {Len(call.committed) + 1}
  <2>1. \A i \in 1..Len(call'.committed) : i \in 1..Len(call.committed) \/ i = Len(call.committed) + 1
    BY <1>7
  <2>2. \A i \in 1..Len(call.committed) : call'.committed[i].op.cpu # d
    BY <1>7, <1>13 DEF ResultsFor
  <2>3. Len(call.committed) + 1 \in 1..Len(call'.committed)
    BY <1>7
  <2> QED BY <1>7, <2>1, <2>2, <2>3 DEF ResultsFor
<1>15. Applied(d)' = apply_ifetch_and_step(cores[d], Response(e.op, tie))
  <2> DEFINE i == CHOOSE i \in ResultsFor(d)' : TRUE
  <2>1. i = Len(call.committed) + 1
    BY <1>14
  <2>2. call'.committed[i].response = Response(e.op, tie)
    BY <1>6, <1>7, <2>1
  <2>3. Applied(d)' = apply_ifetch_and_step(cores'[d], call'.committed[i].response)
    BY <1>14 DEF Applied
  <2> HIDE DEF i
  <2> QED BY <1>1, <2>2, <2>3
<1>16. ASSUME NEW c \in CpuIds, c # d PROVE View(c)' = View(c)
  <2>1. ResultsFor(c)' = ResultsFor(c)
    <3>1. \A i \in 1..Len(call'.committed) : i \in 1..Len(call.committed) \/ i = Len(call.committed) + 1
      BY <1>7
    <3>2. \A i \in 1..Len(call.committed) : i \in 1..Len(call'.committed)
      BY <1>7
    <3> QED BY <1>7, <1>16, <3>1, <3>2 DEF ResultsFor
  <2>2. CASE ResultsFor(c) = {}
    BY <1>1, <2>1, <2>2 DEF View, Applied
  <2>3. CASE ResultsFor(c) # {}
    <3> DEFINE i == CHOOSE k \in ResultsFor(c) : TRUE
               j == CHOOSE k \in ResultsFor(c)' : TRUE
    <3>1. i \in ResultsFor(c) /\ j = i
      BY <2>1, <2>3
    <3>2. i \in 1..Len(call.committed)
      BY <3>1 DEF ResultsFor
    <3>3. call'.committed[j] = call.committed[i]
      BY <1>7, <3>1, <3>2
    <3>4. /\ Applied(c) = apply_ifetch_and_step(cores[c], call.committed[i].response)
          /\ Applied(c)' = apply_ifetch_and_step(cores'[c], call'.committed[j].response)
      BY <2>1, <2>3 DEF Applied
    <3> HIDE DEF i, j
    <3> QED BY <1>1, <3>3, <3>4 DEF View
  <2> QED BY <2>2, <2>3
<1>17. /\ IsSeq(trace) /\ memory = [a \in RamAddr |-> memory[a]]
       /\ \A c \in CpuIds : IsCache(View(c))
       /\ \A c \in CpuIds, a \in RamAddr :
             Resident(View(c), a) => Explained(c, a, CachedByte(View(c), a))
  BY DEF StaleInv, CachesInv
<1>18. PICK h, v : h = cores[d].icache /\ v = View(d)'
  OBVIOUS
<1>19. h = View(d)
  BY <1>13, <1>18, NoResultsView
<1>20. HasMembers(cores[d])
  BY <1>11 DEF StaleInv, IInv, TypeOK, CoreOK, HasMembers
<1>21. v = apply_ifetch_and_step(cores[d], Response(e.op, tie)).icache
  BY <1>15, <1>18 DEF View
<1> HIDE DEF d
<1>22. /\ IsCache(v)
       /\ \A a \in RamAddr : Resident(v, a) => Explained(d, a, CachedByte(v, a))'
  <2>1. IsCache(h) /\ \A a \in RamAddr : Resident(h, a) => Explained(d, a, CachedByte(h, a))
    BY <1>11, <1>17, <1>19
  <2>2. e.op.cpu = d
    BY DEF d
  <2> QED BY <1>9, <1>11, <1>17, <1>18, <1>20, <1>21, <2>1, <2>2, OwnAnswer
<1>23. ASSUME NEW c \in CpuIds, NEW a \in RamAddr, Resident(View(c)', a)
       PROVE  Explained(c, a, CachedByte(View(c), a))'
  <2>1. CASE c = d
    <3>1. v = View(c)'
      BY <1>18, <2>1
    <3> QED BY <1>22, <1>23, <2>1, <3>1
  <2>2. CASE c # d
    <3>1. PICK b : b = CachedByte(View(c), a)
      OBVIOUS
    <3>2. b = CachedByte(View(c), a)' /\ Explained(c, a, b)
      BY <1>16, <1>17, <1>23, <2>2, <3>1
    <3>3. ~Fills(line, c, a)
      BY <1>9, <2>2 DEF Executes, Fills, d
    <3>4. Explained(c, a, b)'
      BY <1>9, <1>11, <1>17, <3>2, <3>3, StillExplained
    <3> QED BY <3>2, <3>4
  <2> QED BY <2>1, <2>2
<1>24. IsSeq(trace')
  BY <1>9, <1>17, AppendAny DEF Executes
<1>25. memory' = [a \in RamAddr |-> memory'[a]]
  <2>1. CASE memory' = memory
    BY <1>17, <2>1
  <2>2. CASE memory' # memory
    <3>1. PICK m, n : m = memory /\ n = memory'
      OBVIOUS
    <3>2. /\ n = write(m, e.op.addr, e.op.size, e.op.data)
          /\ ~Rejected(e.op) /\ IsWrite(e.op) /\ ~ToDevice(e.op)
      BY <1>9, <2>2, <3>1 DEF Executes
    <3>3. e.op.size \in AccessSizes
      BY <3>2 DEF Rejected, ValidBusOp, valid_bus_size, IsWrite
    <3>4. n = [a \in RamAddr |-> n[a]]
      BY <1>11, <1>17, <3>1, <3>2, <3>3, WriteFacts
    <3> QED BY <3>1, <3>4
  <2> QED BY <2>1, <2>2
<1>26. \A c \in CpuIds : IsCache(View(c))'
  <2> TAKE c \in CpuIds
  <2>1. CASE c = d
    BY <1>18, <1>22, <2>1
  <2>2. CASE c # d
    BY <1>16, <1>17, <2>2
  <2> QED BY <2>1, <2>2
<1>27. CachesInv'
  BY <1>23, <1>24, <1>25, <1>26 DEF CachesInv
<1> QED BY <1>10, <1>27

\* The core that produces leaves its cache alone and has a new operation, if any,
\* that asks for a line only if it misses.
LEMMA ProducedExplained ==
    ASSUME StaleInv, Producing, NEW op, Produced(op),
           Some(op) => op.producer = "Auto" /\ AsksOnlyForMisses(cores'[turn], op),
           \A c \in CpuIds : cores'[c].icache = cores[c].icache,
           \A c \in CpuIds \ {turn} : cores'[c] = cores[c]
    PROVE  OpsInv' /\ CallInv' /\ CachesInv'
<1>1. /\ turn \in CpuIds /\ DOMAIN p = CpuIds /\ call = IdleCall /\ loop = "produce"
      /\ p' = [p EXCEPT ![turn] = op] /\ loop' \in {"produce", "publish"}
      /\ UNCHANGED <<memory, trace, halt_on_fault, should_halt, call>>
  BY DEF StaleInv, IInv, TypeOK, CallInv, Producing, Produced, NextTurn, arbVars, storeVars, traceVars
<1>2. ASSUME NEW c \in CpuIds, Some(p'[c])
      PROVE  p'[c].producer = "Auto" /\ AsksOnlyForMisses(cores'[c], p'[c])
  <2>1. CASE c = turn
    <3>1. p'[c] = op /\ Some(op)
      BY <1>1, <1>2, <2>1
    <3> QED BY <2>1, <3>1
  <2>2. CASE c # turn
    <3>1. p'[c] = p[c] /\ cores'[c] = cores[c]
      BY <1>1, <2>2
    <3>2. p[c].producer = "Auto" /\ AsksOnlyForMisses(cores[c], p[c])
      BY <1>2, <3>1 DEF StaleInv, OpsInv
    <3> QED BY <3>1, <3>2
  <2> QED BY <2>1, <2>2
<1>3. OpsInv'
  BY <1>2 DEF OpsInv
<1>4. CallInv'
  BY <1>1 DEF StaleInv, CallInv
<1>5. \A c \in CpuIds : View(c) = cores[c].icache /\ View(c)' = cores'[c].icache
  <2>1. call.committed = <<>> /\ call'.committed = <<>>
    BY <1>1 DEF IdleCall
  <2>2. \A c \in CpuIds : ResultsFor(c) = {} /\ ResultsFor(c)' = {}
    BY <2>1, EmptyIsSeq DEF ResultsFor
  <2> QED BY <2>2 DEF View, Applied
<1>6. CachesInv'
  BY <1>1, <1>5, SameViews DEF StaleInv
<1> QED BY <1>3, <1>4, <1>6

\* A fetch of a core whose instruction is not cached.
LEMMA FetchAsks ==
    ASSUME NEW k, NEW n, ~Cached(k)
    PROVE  FetchOp(k, n).producer = "Auto" /\ AsksOnlyForMisses(k, FetchOp(k, n))
BY DEF FetchOp, Cached, Cacheable, AsksOnlyForMisses

\* A data access asks for no line.
LEMMA DataAsks ==
    ASSUME NEW k, NEW n
    PROVE  DataOp(k, n).fill = 0 /\ DataOp(k, n).producer = "Auto"
<1>1. /\ FetchOp(k, n).producer = "Auto"
      /\ {"cpu", "producer", "kind", "addr", "size", "data", "fill"} \subseteq DOMAIN FetchOp(k, n)
  BY DEF FetchOp
<1> DEFINE q == k.core.pending_mem_op
           kind == data_access_kind(q.phys_addr, q.kind \in S!WriteKinds)
<1>2. DataOp(k, n) = [FetchOp(k, n) EXCEPT !.kind = kind, !.addr = q.phys_addr,
                                           !.size = q.size, !.data = q.value, !.fill = 0]
  BY DEF DataOp
<1> HIDE DEF q, kind, FetchOp
<1> QED BY <1>1, <1>2

\* produce_until_bus: no step of it changes a cache.
LEMMA ProduceExplained ==
    ASSUME StaleInv, IssuePending \/ RunMemory \/ RunFetch \/ RunEnd
    PROVE  OpsInv' /\ CallInv' /\ CachesInv'
<1>1. turn \in CpuIds /\ DOMAIN cores = CpuIds /\ HasMembers(cores[turn])
  BY DEF StaleInv, IInv, TypeOK, CoreOK, HasMembers
<1>2. CASE IssuePending
  <2>1. Producing /\ Produced(DataOp(cores[turn], seq)) /\ cores' = cores
    BY <1>2 DEF IssuePending
  <2>2. PICK op : op = DataOp(cores[turn], seq)
    OBVIOUS
  <2>3. op.producer = "Auto" /\ AsksOnlyForMisses(cores'[turn], op)
    BY <2>2, DataAsks DEF AsksOnlyForMisses
  <2> QED BY <2>1, <2>2, <2>3, ProducedExplained
<1>3. CASE RunMemory
  <2>1. Producing /\ Produced(DataOp(cores'[turn], seq))
    BY <1>3 DEF RunMemory, Running
  <2>2. PICK ins : cores' = [cores EXCEPT ![turn] = DecodeCached(cores[turn], ins)]
    BY <1>3 DEF RunMemory
  <2>3. DecodeCached(cores[turn], ins).icache = cores[turn].icache
    BY <1>1 DEF DecodeCached, HasMembers
  <2>4. /\ \A c \in CpuIds : cores'[c].icache = cores[c].icache
        /\ \A c \in CpuIds \ {turn} : cores'[c] = cores[c]
    BY <1>1, <2>2, <2>3
  <2>5. PICK op : op = DataOp(cores'[turn], seq)
    OBVIOUS
  <2>6. op.producer = "Auto" /\ AsksOnlyForMisses(cores'[turn], op)
    BY <2>5, DataAsks DEF AsksOnlyForMisses
  <2> QED BY <2>1, <2>4, <2>5, <2>6, ProducedExplained
<1>4. CASE RunFetch
  <2>1. Producing /\ Produced(FetchOp(cores[turn], seq)) /\ cores' = cores /\ ~Cached(cores[turn])
    BY <1>4 DEF RunFetch, Running
  <2>2. PICK op : op = FetchOp(cores[turn], seq)
    OBVIOUS
  <2>3. op.producer = "Auto" /\ AsksOnlyForMisses(cores[turn], op)
    BY <2>1, <2>2, FetchAsks
  <2> QED BY <2>1, <2>2, <2>3, ProducedExplained
<1>5. CASE RunEnd
  <2>1. Producing /\ Produced(Nothing) /\ cores' = cores /\ ~Some(Nothing)
    BY <1>5 DEF RunEnd, Some
  <2> QED BY <2>1, ProducedExplained
<1> QED BY <1>2, <1>3, <1>4, <1>5

\* Steps outside of commit_batch that leave the operations, the memory, the log
\* and the caches alone.
LEMMA QuietExplained ==
    ASSUME StaleInv, UNCHANGED <<p, memory, trace, halt_on_fault, should_halt, call>>,
           loop # "commit", loop' # "commit",
           \A c \in CpuIds : cores'[c].icache = cores[c].icache,
           \A c \in CpuIds : Some(p[c]) => cores'[c] = cores[c]
    PROVE  OpsInv' /\ CallInv' /\ CachesInv'
<1>1. OpsInv'
  BY DEF StaleInv, OpsInv
<1>2. call = IdleCall /\ CallInv'
  BY DEF StaleInv, CallInv
<1>3. \A c \in CpuIds : View(c)' = View(c)
  <2>1. call.committed = <<>> /\ call'.committed = <<>>
    BY <1>2 DEF IdleCall
  <2>2. \A c \in CpuIds : ResultsFor(c) = {} /\ ResultsFor(c)' = {}
    BY <2>1, EmptyIsSeq DEF ResultsFor
  <2> QED BY <2>2 DEF View, Applied
<1>4. CachesInv'
  BY <1>3, SameViews DEF StaleInv
<1> QED BY <1>1, <1>2, <1>4

\* Run-ahead: an instruction from the cache does not change the cache.
LEMMA HitExplained == StaleInv /\ RunHit => OpsInv' /\ CallInv' /\ CachesInv'
<1> SUFFICES ASSUME StaleInv, RunHit PROVE OpsInv' /\ CallInv' /\ CachesInv'
  OBVIOUS
<1>1. /\ turn \in CpuIds /\ DOMAIN cores = CpuIds /\ HasMembers(cores[turn])
      /\ loop = "produce" /\ ~Some(p[turn]) /\ loop' = loop
      /\ UNCHANGED <<p, memory, trace, halt_on_fault, should_halt, call>>
  BY DEF StaleInv, IInv, TypeOK, CoreOK, HasMembers, RunHit, Running, Producing, arbVars,
         storeVars, traceVars
<1>2. PICK ins : cores' = [cores EXCEPT ![turn] = ExecuteCached(cores[turn], ins)]
  BY DEF RunHit
<1>3. ExecuteCached(cores[turn], ins).icache = cores[turn].icache
  BY <1>1 DEF ExecuteCached, Retired, HasMembers
<1>4. /\ \A c \in CpuIds : cores'[c].icache = cores[c].icache
      /\ \A c \in CpuIds : Some(p[c]) => cores'[c] = cores[c]
  BY <1>1, <1>2, <1>3
<1> QED BY <1>1, <1>4, QuietExplained

\* The loop hands the operations to commit_batch.
LEMMA CallExplained == StaleInv /\ LoopCall => OpsInv' /\ CallInv' /\ CachesInv'
<1> SUFFICES ASSUME StaleInv, LoopCall PROVE OpsInv' /\ CallInv' /\ CachesInv'
  OBVIOUS
<1>1. /\ UNCHANGED <<cores, p, memory, trace, halt_on_fault, should_halt>>
      /\ loop = "call" /\ loop' = "commit" /\ BatchCall(Fetches) /\ call = IdleCall
  BY DEF StaleInv, CallInv, LoopCall, BatchCall, storeVars, traceVars
<1>2. OpsInv'
  BY <1>1 DEF StaleInv, OpsInv
<1>3. PICK D, h, ops : D = Waiters /\ h = WaitersOp /\ ops = Fetches
  OBVIOUS
<1>4. OnePerCpu(D, h)'
  <2>1. TypeOK /\ OpsInv
    BY DEF StaleInv, IInv
  <2>2. D \in SUBSET CpuIds
    BY <1>3, <2>1, FetchesFacts
  <2>3. \A c \in D : h[c].cpu = c /\ h[c].producer = "Auto"
    BY <1>3, <2>1, FetchesFacts
  <2>4. ops \in Seq(Ops(D, h)) /\ BatchCall(ops)
    BY <1>1, <1>3, <2>1, FetchesFacts
  <2>5. \A i, j \in 1..Len(ops) : ops[i].cpu = ops[j].cpu => i = j
    BY <1>3, <2>1, FetchesFacts
  <2>6. \A c \in D : \E i \in 1..Len(ops) : ops[i] = h[c]
    BY <1>3, <2>1, FetchesFacts
  <2> QED BY <2>2, <2>3, <2>4, <2>5, <2>6, OneCall
<1>5. D = Waiters' /\ h = WaitersOp'
  BY <1>1, <1>3 DEF Waiters, WaitersOp
<1>6. CallInv'
  BY <1>1, <1>4, <1>5 DEF StaleInv, CallInv
<1>7. call.committed = <<>> /\ call'.committed = <<>>
  BY <1>1 DEF BatchCall, IdleCall
<1>8. \A c \in CpuIds : View(c)' = View(c)
  <2>1. \A c \in CpuIds : ResultsFor(c) = {} /\ ResultsFor(c)' = {}
    BY <1>7, EmptyIsSeq DEF ResultsFor
  <2> QED BY <1>1, <2>1 DEF View, Applied
<1>9. CachesInv'
  BY <1>1, <1>8, SameViews DEF StaleInv
<1> QED BY <1>2, <1>6, <1>9

\* Inside commit_batch.
LEMMA BatchExplained ==
    ASSUME WholeImages, NumberedAddresses, StaleInv, InBatch
    PROVE  OpsInv' /\ CallInv' /\ CachesInv'
<1>1. loop = "commit" /\ UNCHANGED loopVars /\ UNCHANGED <<cores, p, loop>> /\ ~should_halt
      /\ ~halt_on_fault
  BY DEF InBatch, loopVars, StaleInv, CallInv
<1>2. OpsInv'
  BY <1>1 DEF StaleInv, OpsInv
<1>3. PICK D, h : D = Waiters /\ h = WaitersOp /\ OnePerCpu(D, h)
  BY <1>1 DEF StaleInv, CallInv
<1>4. D = Waiters' /\ h = WaitersOp'
  BY <1>1, <1>3 DEF Waiters, WaitersOp
<1>5. ASSUME OnePerCpu(D, h)', call'.committed = call.committed,
             UNCHANGED <<memory, trace, halt_on_fault, should_halt>>
      PROVE  CallInv' /\ CachesInv'
  <2>1. CallInv'
    BY <1>1, <1>4, <1>5 DEF CallInv
  <2>2. \A c \in CpuIds : View(c)' = View(c)
    BY <1>1, <1>5 DEF View, Applied, ResultsFor
  <2> QED BY <1>5, <2>1, <2>2, SameViews DEF StaleInv
<1>6. CASE BatchEnqueue
  <2>1. OnePerCpu(D, h)' /\ UNCHANGED traceVars
    BY <1>3, <1>6, OneEnqueue
  <2>2. call.phase = "enqueue" /\ call'.phase = "enqueue" /\ UNCHANGED memory
    BY <1>3, <1>6 DEF BatchEnqueue, storeVars, OnePerCpu, BatchOf
  <2>3. call.committed = <<>> /\ call'.committed = <<>>
    BY <1>3, <2>1, <2>2 DEF OnePerCpu, Accepting
  <2> QED BY <1>2, <1>5, <2>1, <2>2, <2>3 DEF traceVars
<1>7. CASE BatchEnqueued
  <2>1. OnePerCpu(D, h)'
    BY <1>1, <1>3, <1>7, OneEnqueued
  <2>2. call'.committed = call.committed
    BY <1>3, <1>7 DEF BatchEnqueued, OnePerCpu, BatchOf
  <2> QED BY <1>2, <1>5, <1>7, <2>1, <2>2 DEF BatchEnqueued, traceVars, storeVars
<1>8. CASE BatchReturn
  <2>1. OnePerCpu(D, h)' /\ call'.committed = call.committed
    BY <1>3, <1>8, OneReturn
  <2> QED BY <1>2, <1>5, <1>8, <2>1 DEF BatchReturn, traceVars, storeVars
<1>9. CASE BatchCommit
  BY <1>1, <1>2, <1>9, CommitExplained
<1> QED BY <1>6, <1>7, <1>8, <1>9 DEF InBatch

\* The results are applied: the caches become what they were about to be.
LEMMA ApplyExplained == StaleInv /\ LoopApply => OpsInv' /\ CallInv' /\ CachesInv'
<1> SUFFICES ASSUME StaleInv, LoopApply PROVE OpsInv' /\ CallInv' /\ CachesInv'
  OBVIOUS
<1>1. /\ UNCHANGED <<memory, trace, halt_on_fault, should_halt>> /\ call' = IdleCall
      /\ cores' = [c \in CpuIds |-> Applied(c)] /\ loop' = "top"
      /\ p' = [c \in CpuIds |-> IF ResultsFor(c) # {} THEN Nothing ELSE p[c]]
  BY DEF LoopApply, BatchFinish, storeVars, traceVars
<1>2. ASSUME NEW c \in CpuIds, Some(p'[c])
      PROVE  p'[c].producer = "Auto" /\ AsksOnlyForMisses(cores'[c], p'[c])
  <2>1. ResultsFor(c) = {} /\ p'[c] = p[c]
    BY <1>1, <1>2 DEF Some
  <2>2. cores'[c] = cores[c]
    BY <1>1, <2>1 DEF Applied
  <2> QED BY <1>2, <2>1, <2>2 DEF StaleInv, OpsInv
<1>3. CallInv'
  BY <1>1 DEF StaleInv, CallInv
<1>4. \A c \in CpuIds : View(c)' = View(c)
  <2>1. call'.committed = <<>>
    BY <1>1 DEF IdleCall
  <2>2. \A c \in CpuIds : ResultsFor(c)' = {}
    BY <2>1, EmptyIsSeq DEF ResultsFor
  <2>3. \A c \in CpuIds : View(c)' = cores'[c].icache
    BY <2>2 DEF View, Applied
  <2>4. \A c \in CpuIds : cores'[c] = Applied(c)
    BY <1>1
  <2> QED BY <2>3, <2>4 DEF View
<1>5. CachesInv'
  BY <1>1, <1>4, SameViews DEF StaleInv
<1> QED BY <1>2, <1>3, <1>5 DEF OpsInv

\* The probe neither writes the memory nor fills a line.
LEMMA ProbeExplained == StaleInv /\ Probe => OpsInv' /\ CallInv' /\ CachesInv'
<1> SUFFICES ASSUME StaleInv, Probe PROVE OpsInv' /\ CallInv' /\ CachesInv'
  OBVIOUS
<1>1. loop # "commit" /\ loop' # "commit" /\ UNCHANGED <<cores, p>>
  BY DEF Probe
<1>2. PICK kind, req, data :
        kind \in {"MmioWrite", "MmioRead"} /\ commit_dma(ProbeOp(kind, req, data))
  <2>1. commit_dma(ProbeOp("MmioWrite", 0, 1)) \/ commit_dma(ProbeOp("MmioRead", 1, 0))
    BY DEF Probe
  <2>2. "MmioWrite" \in {"MmioWrite", "MmioRead"} /\ "MmioRead" \in {"MmioWrite", "MmioRead"}
    OBVIOUS
  <2> QED BY <2>1, <2>2
<1>3. PICK op : op = [ProbeOp(kind, req, data) EXCEPT !.cpu = DmaId, !.producer = "Dma"]
  OBVIOUS
<1>4. op.cpu = -1 /\ op.kind \in {"MmioWrite", "MmioRead"}
  BY <1>2, <1>3 DEF ProbeOp, DmaId
<1>5. commit(op)
  BY <1>2, <1>3 DEF commit_dma
<1>6. ~halt_on_fault /\ ~should_halt /\ call = IdleCall /\ call' = call
  BY <1>1, <1>5 DEF StaleInv, CallInv, commit
<1>7. PICK line : /\ trace' = Append(trace, line) /\ line.op = op /\ memory' = memory
                  /\ ~halt_on_fault' /\ ~should_halt'
  <2>1. CASE execute_commit(op, FALSE)
    <3>1. PICK line : Executes(op, line)
      BY <1>6, <2>1, ExecuteLogs
    <3> QED BY <1>4, <3>1 DEF Executes, ToDevice
  <2>2. CASE /\ fault_response(op, Start(op), "ENQUEUE_NON_MONOTONIC_REQ_TIME")
             /\ UNCHANGED storeVars
    <3> DEFINE line == [start |-> Start(op), finish |-> Start(op), op |-> op, stall |-> 0,
                        value |-> kInvalidBusOpValue, fault |-> "ENQUEUE_NON_MONOTONIC_REQ_TIME"]
    <3>1. trace' = Append(trace, line) /\ line.op = op
      BY <2>2 DEF fault_response
    <3>2. /\ should_halt' = (should_halt \/ halt_on_fault) /\ halt_on_fault' = halt_on_fault
          /\ memory' = memory
      BY <2>2 DEF fault_response, storeVars
    <3> HIDE DEF line
    <3> QED BY <1>6, <3>1, <3>2
  <2> QED BY <1>5, <2>1, <2>2 DEF commit
<1>8. OpsInv' /\ CallInv'
  BY <1>1, <1>6, <1>7 DEF StaleInv, OpsInv, CallInv
<1>9. \A c \in CpuIds : View(c)' = View(c)
  BY <1>1, <1>6 DEF View, Applied, ResultsFor
<1>10. IsSeq(trace)
  BY DEF StaleInv, CachesInv
<1>11. /\ IsSeq(trace') /\ Len(trace) \in Nat /\ Len(trace') = Len(trace) + 1
       /\ \A i \in 1..Len(trace) : trace'[i] = trace[i]
       /\ trace'[Len(trace) + 1] = line
  BY <1>7, <1>10, AppendAny
<1>12. ASSUME NEW c \in CpuIds, NEW a \in RamAddr, NEW v, Explained(c, a, v)
       PROVE  Explained(c, a, v)'
  <2>1. ~Fills(line, c, a)
    BY <1>4, <1>7 DEF Fills, CpuIds
  <2>2. ASSUME NEW i \in 1..Len(trace),
               \A j \in (i + 1)..Len(trace) : ~Fills(trace[j], c, a)
        PROVE  \A j \in (i + 1)..Len(trace') : ~Fills(trace'[j], c, a)
    <3> TAKE j \in (i + 1)..Len(trace')
    <3>1. j = Len(trace) + 1 \/ (j \in (i + 1)..Len(trace) /\ j \in 1..Len(trace))
      BY <1>11
    <3> QED BY <1>11, <2>1, <2>2, <3>1
  <2>3. \A i \in 1..Len(trace) : i \in 1..Len(trace')
    BY <1>11
  <2> QED BY <1>7, <1>11, <1>12, <2>2, <2>3 DEF Explained
<1>13. ASSUME NEW c \in CpuIds, NEW a \in RamAddr, Resident(View(c)', a)
       PROVE  Explained(c, a, CachedByte(View(c), a))'
  <2>1. PICK b : b = CachedByte(View(c), a)
    OBVIOUS
  <2>2. b = CachedByte(View(c), a)' /\ Explained(c, a, b)
    BY <1>9, <1>13, <2>1 DEF StaleInv, CachesInv
  <2>3. Explained(c, a, b)'
    BY <1>12, <2>2
  <2> QED BY <2>2, <2>3
<1>14. CachesInv'
  BY <1>7, <1>9, <1>11, <1>13 DEF StaleInv, CachesInv
<1> QED BY <1>8, <1>14

\* The caches are empty when the loop starts.
LEMMA InitExplained ==
    ASSUME WholeImages, Init
    PROVE  StaleInv
<1>1. /\ cores = [c \in CpuIds |-> NewCore(c, 0, ResetSp)]
      /\ p = [c \in CpuIds |-> Nothing] /\ loop = "top" /\ call = IdleCall
      /\ trace = <<>> /\ halt_on_fault = FALSE /\ should_halt = FALSE /\ memory \in Images
  BY DEF Init, ArbInitWith
<1>2. OpsInv
  BY <1>1 DEF OpsInv, Some
<1>3. CallInv
  BY <1>1 DEF CallInv
<1>4. \A c \in CpuIds : View(c) = NewCache
  <2>1. call.committed = <<>>
    BY <1>1 DEF IdleCall
  <2>2. \A c \in CpuIds : ResultsFor(c) = {}
    BY <2>1, EmptyIsSeq DEF ResultsFor
  <2>3. \A c \in CpuIds : cores[c].icache = NewCache
    <3> TAKE c \in CpuIds
    <3> DEFINE core == S!reset(0, ResetSp)
               icache == NewCache
    <3>1. cores[c] = [id |-> c, core |-> core, t |-> 0, executed |-> 0, icache |-> icache]
      BY <1>1 DEF NewCore
    <3> HIDE DEF core, icache
    <3> QED BY <3>1 DEF icache
  <2> QED BY <2>2, <2>3 DEF View, Applied
<1>5. CachesInv
  <2>1. \A a \in RamAddr : ~Resident(NewCache, a)
    BY NewCacheFacts, AddrAssumption
  <2> QED BY <1>1, <1>4, <2>1, NewCacheFacts, EmptyIsSeq DEF CachesInv, WholeImages
<1> QED BY <1>2, <1>3, <1>5, InitIInv DEF StaleInv

\* Every step keeps the caches explained.
LEMMA NextExplained ==
    ASSUME WholeImages, NumberedAddresses, StaleInv, [Next]_vars
    PROVE  StaleInv'
<1>1. IInv'
  BY NextIInv DEF StaleInv
<1>2. ASSUME \/ LoopTop \/ AlreadyPending \/ StartRun \/ Publish
      PROVE  OpsInv' /\ CallInv' /\ CachesInv'
  <2>1. /\ UNCHANGED <<cores, p, memory, trace, halt_on_fault, should_halt, call>>
        /\ loop # "commit" /\ loop' # "commit"
    BY <1>2 DEF LoopTop, AlreadyPending, NextTurn, StartRun, Producing, Publish, arbVars,
                storeVars, traceVars
  <2> QED BY <2>1, QuietExplained
<1>3. ASSUME UNCHANGED vars
      PROVE  OpsInv' /\ CallInv' /\ CachesInv'
  <2>1. UNCHANGED <<cores, p, loop, memory, trace, halt_on_fault, should_halt, call,
                    producer_last_enqueued_req_time>>
    BY <1>3 DEF vars, loopVars, arbVars, storeVars, traceVars
  <2>2. Waiters' = Waiters /\ WaitersOp' = WaitersOp
    BY <2>1 DEF Waiters, WaitersOp
  <2>3. OpsInv'
    BY <2>1 DEF StaleInv, OpsInv
  <2>4. CallInv'
    BY <2>1, <2>2, SMTT(40) DEF StaleInv, CallInv, OnePerCpu, BatchOf, Accepting, Answering
  <2>5. \A c \in CpuIds : View(c)' = View(c)
    BY <2>1 DEF View, Applied, ResultsFor
  <2> QED BY <2>1, <2>3, <2>4, <2>5, SameViews DEF StaleInv
<1>4. OpsInv' /\ CallInv' /\ CachesInv'
  BY <1>2, <1>3, ProduceExplained, HitExplained, CallExplained, BatchExplained, ApplyExplained,
     ProbeExplained DEF Next, Terminated
<1> QED BY <1>1, <1>4 DEF StaleInv

\* A cached instruction byte differs from memory only if a store to it has
\* committed since the line was last filled, whatever the image does, with
\* run-ahead and the batches in between: for every image that fills a memory of
\* whole lines of an even size.  The addresses of the operations have to be
\* numbers, which their C++ type says and the instructions are too abstract here
\* to show.
THEOREM OnlyStoresMakeStale ==
    ASSUME WholeImages
    PROVE  Spec /\ []NumberedAddresses => []StaleOnlyByStore
<1>1. StaleInv => StaleOnlyByStore
  <2> SUFFICES ASSUME StaleInv, NEW c \in CpuIds, NEW a \in RamAddr, call.phase = "idle",
                      Resident(cores[c].icache, a), CacheRead(cores[c].icache, a, 1) # memory[a]
               PROVE  \E i \in 1..Len(trace) :
                        /\ trace[i].op.kind = "Write" /\ Covers(trace[i].op, a)
                        /\ \A j \in (i + 1)..Len(trace) : ~Fills(trace[j], c, a)
    BY DEF StaleOnlyByStore
  <2>1. call = IdleCall
    BY DEF StaleInv, CallInv, OnePerCpu
  <2>2. call.committed = <<>>
    BY <2>1 DEF IdleCall
  <2>3. View(c) = cores[c].icache
    BY <2>2, EmptyIsSeq DEF View, Applied, ResultsFor
  <2>4. CacheRead(cores[c].icache, a, 1) = CachedByte(View(c), a)
    BY <2>3 DEF CacheRead, Assemble, CachedByte
  <2>5. Explained(c, a, CachedByte(View(c), a))
    BY <2>3 DEF StaleInv, CachesInv
  <2> QED BY <2>4, <2>5 DEF Explained
<1>2. Init => StaleInv
  BY InitExplained
<1>3. NumberedAddresses /\ StaleInv /\ [Next]_vars => StaleInv'
  BY NextExplained
<1> QED BY <1>1, <1>2, <1>3, PTL DEF Spec

-----------------------------------------------------------------------------
(* Run-ahead is invisible: BiosPair implements AtomicCores.  The operators  *)
(* of AtomicCores, instantiated, are those of this module: first the        *)
(* instructions.                                                            *)

\* The ALU.
LEMMA SameAlu == \A op, x : Atomic!S!Alu(op, x) = S!Alu(op, x)
BY DEF S!Alu, Atomic!S!Alu, S!SetT, Atomic!S!SetT, S!SetN, Atomic!S!SetN, S!u32_add,
   Atomic!S!u32_add, S!ADDC, Atomic!S!ADDC, S!ADDV, Atomic!S!ADDV, S!u32_sub,
   Atomic!S!u32_sub, S!SUBC, Atomic!S!SUBC, S!SUBV, Atomic!S!SUBV, S!NEGC, Atomic!S!NEGC,
   S!And, Atomic!S!And, S!Xor, Atomic!S!Xor, S!Or, Atomic!S!Or, S!Not, Atomic!S!Not,
   S!Comparisons, Atomic!S!Comparisons, S!Compare, Atomic!S!Compare, S!low, Atomic!S!low,
   S!sext, Atomic!S!sext, S!Macl, Atomic!S!Macl, S!signed, Atomic!S!signed, S!Product,
   Atomic!S!Product, S!DIV0S, Atomic!S!DIV0S, S!DIV1, Atomic!S!DIV1, S!Shifts,
   Atomic!S!Shifts, S!Shift, Atomic!S!Shift, S!truth, Atomic!S!truth, S!WordMod,
   Atomic!S!WordMod, S!add_overflow, Atomic!S!add_overflow, S!sub_overflow,
   Atomic!S!sub_overflow, S!word, Atomic!S!word, S!bits, Atomic!S!bits,
   S!SymmetricDifference, Atomic!S!SymmetricDifference, S!Quarters, Atomic!S!Quarters,
   S!msb, Atomic!S!msb, S!shl, Atomic!S!shl, S!shr, Atomic!S!shr, S!sar, Atomic!S!sar,
   S!ShiftCount, Atomic!S!ShiftCount, S!MapThenSumSet, Atomic!S!MapThenSumSet,
   S!MapThenFoldSet, Atomic!S!MapThenFoldSet

\* The result of an instruction on the registers.
LEMMA SameAluResult == \A ins, r, sys : Atomic!S!AluResult(ins, r, sys) = S!AluResult(ins, r, sys)
BY SameAlu DEF S!AluResult, Atomic!S!AluResult, S!t_flag, Atomic!S!t_flag, S!q_flag,
   Atomic!S!q_flag, S!m_flag, Atomic!S!m_flag

\* The flags of SR.
LEMMA SameWithFlags == \A sr, f : Atomic!S!WithFlags(sr, f) = S!WithFlags(sr, f)
BY DEF S!WithFlags, Atomic!S!WithFlags, S!t_flag, Atomic!S!t_flag, S!q_flag,
   Atomic!S!q_flag, S!m_flag, Atomic!S!m_flag

\* What it leaves in the system registers.
LEMMA SameAluSys == \A ins, r, sys : Atomic!S!AluSys(ins, r, sys) = S!AluSys(ins, r, sys)
<1> TAKE ins, r, sys
<1> DEFINE out == S!AluResult(ins, r, sys)
           flags == S!WithFlags(sys["SR"], out)
<1>1. S!AluSys(ins, r, sys) =
        [sys EXCEPT !["SR"] = flags, !["MACH"] = out.MACH, !["MACL"] = out.MACL]
  BY DEF S!AluSys
<1>2. Atomic!S!AluResult(ins, r, sys) = out
  BY SameAluResult
<1>3. Atomic!S!WithFlags(sys["SR"], out) = flags
  BY SameWithFlags
<1> HIDE DEF out, flags
<1>4. Atomic!S!AluSys(ins, r, sys) =
        [sys EXCEPT !["SR"] = flags, !["MACH"] = out.MACH, !["MACL"] = out.MACL]
  BY <1>2, <1>3 DEF Atomic!S!AluSys
<1> QED BY <1>1, <1>4

\* What it leaves in the general registers.
LEMMA SameAluRegs == \A ins, r, sys : Atomic!S!AluRegs(ins, r, sys) = S!AluRegs(ins, r, sys)
BY SameAluResult DEF S!AluRegs, Atomic!S!AluRegs

\* Moving on to the next instruction.
LEMMA SameAdvance == \A c : Atomic!S!Advance(c) = S!Advance(c)
BY DEF S!Advance, Atomic!S!Advance, S!u32_add, Atomic!S!u32_add, S!WordMod, Atomic!S!WordMod

\* The instructions of the ALU.
LEMMA SameAluOps == Atomic!S!AluOps = S!AluOps
BY DEF S!AluOps, Atomic!S!AluOps, S!Comparisons, Atomic!S!Comparisons, S!Shifts,
   Atomic!S!Shifts

\* The effect of an instruction.
LEMMA SameEffectOf == \A c, ins : Atomic!S!Effect(c, ins) = S!Effect(c, ins)
<1> TAKE c, ins
<1> DEFINE regs == S!AluRegs(ins, c.r, c.sys)
           sys == S!AluSys(ins, c.r, c.sys)
<1>1. Atomic!S!AluRegs(ins, c.r, c.sys) = regs
  BY SameAluRegs
<1>2. Atomic!S!AluSys(ins, c.r, c.sys) = sys
  BY SameAluSys
<1>3. CASE ins.op \in S!AluOps
  <2>1. Atomic!S!Effect(c, ins) =
          Atomic!S!Advance([c EXCEPT !.r = Atomic!S!AluRegs(ins, c.r, c.sys),
                                     !.sys = Atomic!S!AluSys(ins, c.r, c.sys)])
    BY <1>3, SameAluOps DEF S!AluOps, S!Comparisons, S!Shifts, Atomic!S!Effect, Atomic!S!Links
  <2>2. S!Effect(c, ins) = S!Advance([c EXCEPT !.r = regs, !.sys = sys])
    BY <1>3 DEF S!AluOps, S!Comparisons, S!Shifts, S!Effect, S!Links
  <2> QED BY <1>1, <1>2, <2>1, <2>2, SameAdvance
<1>4. CASE ins.op \notin S!AluOps
  BY <1>4, SameAluOps DEF S!Effect, Atomic!S!Effect, S!Advance, Atomic!S!Advance, S!PushTo,
     Atomic!S!PushTo, S!PopFrom, Atomic!S!PopFrom, S!u32_add, Atomic!S!u32_add, S!pc_base,
     Atomic!S!pc_base, S!BranchTaken, Atomic!S!BranchTaken, S!Target, Atomic!S!Target,
     S!Links, Atomic!S!Links, S!BeginReturn, Atomic!S!BeginReturn, S!BeginTrap,
     Atomic!S!BeginTrap, S!u32_sub, Atomic!S!u32_sub, S!MemOp, Atomic!S!MemOp, S!to_phys,
     Atomic!S!to_phys, S!Await, Atomic!S!Await, S!WordMod, Atomic!S!WordMod, S!t_flag,
     Atomic!S!t_flag, S!Some, Atomic!S!Some, S!Access, Atomic!S!Access, S!NoReg,
     Atomic!S!NoReg
<1> QED BY <1>3, <1>4

\* Executing an instruction.
LEMMA SameInstruction ==
    \A c, ins : Atomic!S!execute_instruction(c, ins) = S!execute_instruction(c, ins)
<1> TAKE c, ins
<1> DEFINE d == [c EXCEPT !.pending_branch_target = S!None]
           after == S!Effect(d, ins)
           target == S!next_branch_target(c, ins)
<1>1. /\ Atomic!S!None = S!None /\ Atomic!S!Effect(d, ins) = after
      /\ Atomic!S!next_branch_target(c, ins) = target
  BY SameEffectOf DEF S!next_branch_target, Atomic!S!next_branch_target, S!DelayedBranches,
     Atomic!S!DelayedBranches, S!BranchTaken, Atomic!S!BranchTaken, S!Some, Atomic!S!Some,
     S!Target, Atomic!S!Target, S!None, Atomic!S!None, S!t_flag, Atomic!S!t_flag, S!u32_add,
     Atomic!S!u32_add, S!WordMod, Atomic!S!WordMod
<1>2. /\ Atomic!S!RestoreSr(after) = S!RestoreSr(after)
      /\ Atomic!S!value_of(c.pending_branch_target) = S!value_of(c.pending_branch_target)
  BY DEF S!RestoreSr, Atomic!S!RestoreSr, S!value_of, Atomic!S!value_of
<1>3. S!execute_instruction(c, ins) =
        IF c.pending_branch_target = S!None
          THEN [after EXCEPT !.pending_branch_target = target]
          ELSE [S!RestoreSr(after) EXCEPT !.pc = S!value_of(c.pending_branch_target)]
  BY DEF S!execute_instruction
<1> HIDE DEF after, target
<1>4. Atomic!S!execute_instruction(c, ins) =
        IF c.pending_branch_target = S!None
          THEN [after EXCEPT !.pending_branch_target = target]
          ELSE [S!RestoreSr(after) EXCEPT !.pc = S!value_of(c.pending_branch_target)]
  BY <1>1, <1>2 DEF Atomic!S!execute_instruction
<1> QED BY <1>3, <1>4

\* Decoding an access.
LEMMA SameDecodeMemory == \A c, ins : Atomic!S!decode_memory(c, ins) = S!decode_memory(c, ins)
BY DEF S!decode_memory, Atomic!S!decode_memory, S!Await, Atomic!S!Await, S!Access,
   Atomic!S!Access, S!ReadKind, Atomic!S!ReadKind, S!to_phys, Atomic!S!to_phys, S!Address,
   Atomic!S!Address, S!NoReg, Atomic!S!NoReg, S!u32_sub, Atomic!S!u32_sub, S!StoreKind,
   Atomic!S!StoreKind, S!Truncated, Atomic!S!Truncated, S!PushTo, Atomic!S!PushTo,
   S!PopFrom, Atomic!S!PopFrom, S!RmwOps, Atomic!S!RmwOps, S!RmwReads, Atomic!S!RmwReads,
   S!u32_add, Atomic!S!u32_add, S!pc_base, Atomic!S!pc_base, S!WordMod, Atomic!S!WordMod,
   S!low, Atomic!S!low, S!ByteBits, Atomic!S!ByteBits, S!MemOp, Atomic!S!MemOp

\* The answer to an access.
LEMMA SameApplyPending ==
    \A before, value : Atomic!S!apply_pending(before, value) = S!apply_pending(before, value)
<1> TAKE before, value
<1> DEFINE p0 == before.pending_mem_op
           c == [before EXCEPT !.pending_mem_op = S!NoOp]
           d == [c EXCEPT !.pending_new_pc = value, !.r[15] = S!u32_add(@, 4)]
           reads == {S!RmwReads[op] : op \in S!RmwOps}
           x1 == [S!PushTo(c, 15, "ExceptionPushPc", c.pc) EXCEPT !.pending_mem_op.aux = p0.aux]
           x2 == S!ReadVector(c, "ExceptionVectorRead", p0.aux)
           x3 == S!EnterHandler(c, value)
           x4 == S!PushTo(c, 15, "TrapaPushPc", S!u32_add(c.pc, 2))
           x5 == S!ReadVector(c, "TrapaVectorRead", S!value_of(c.pending_trapa_imm))
           x6 == [S!EnterHandler(c, value) EXCEPT !.pending_trapa_imm = S!None]
           x7 == S!Await(d, S!MemOp("RtePopSr", S!to_phys(d.r[15]), 0))
           x8 == [c EXCEPT !.pending_new_sr = value, !.r[15] = S!u32_add(@, 4),
                           !.pending_rte_restore = TRUE,
                           !.pending_branch_target = S!Some(c.pending_new_pc),
                           !.has_exception_return_context = FALSE]
           x9 == S!Await(c, S!Access("RmwWriteByte", p0.phys_addr, 1,
                   S!RmwResult(S!RmwOp(p0.kind), S!Truncated(value, 1), p0.aux)))
           x0 == S!Retire(S!PostIncrement(S!Loaded(c, p0, value), p0))
           result == CASE p0.kind = "ExceptionPushSr"     -> x1
                       [] p0.kind = "ExceptionPushPc"     -> x2
                       [] p0.kind = "ExceptionVectorRead" -> x3
                       [] p0.kind = "TrapaPushSr"         -> x4
                       [] p0.kind = "TrapaPushPc"         -> x5
                       [] p0.kind = "TrapaVectorRead"     -> x6
                       [] p0.kind = "RtePopPc"            -> x7
                       [] p0.kind = "RtePopSr"            -> x8
                       [] p0.kind \in reads               -> x9
                       [] OTHER                           -> x0
           ac == [before EXCEPT !.pending_mem_op = Atomic!S!NoOp]
<1>1. S!apply_pending(before, value) = result
  BY DEF S!apply_pending
<1>2. ac = c
  BY DEF S!NoOp, Atomic!S!NoOp, S!MemOp, Atomic!S!MemOp, S!Access, Atomic!S!Access, S!NoReg,
     Atomic!S!NoReg
<1>3. [Atomic!S!PushTo(c, 15, "ExceptionPushPc", c.pc) EXCEPT !.pending_mem_op.aux = p0.aux] = x1
  <2>1. Atomic!S!PushTo(c, 15, "ExceptionPushPc", c.pc) = S!PushTo(c, 15, "ExceptionPushPc", c.pc)
    BY DEF S!PushTo, Atomic!S!PushTo, S!u32_sub, Atomic!S!u32_sub, S!MemOp, Atomic!S!MemOp,
       S!to_phys, Atomic!S!to_phys, S!WordMod, Atomic!S!WordMod, S!Access, Atomic!S!Access,
       S!NoReg, Atomic!S!NoReg
  <2> QED BY <2>1
<1>4. Atomic!S!ReadVector(c, "ExceptionVectorRead", p0.aux) = x2
  BY DEF S!ReadVector, Atomic!S!ReadVector, S!Await, Atomic!S!Await, S!MemOp, Atomic!S!MemOp,
     S!to_phys, Atomic!S!to_phys, S!u32_add, Atomic!S!u32_add, S!Access, Atomic!S!Access,
     S!WordMod, Atomic!S!WordMod, S!NoReg, Atomic!S!NoReg
<1>5. Atomic!S!EnterHandler(c, value) = x3
  BY DEF S!EnterHandler, Atomic!S!EnterHandler
<1>6. Atomic!S!PushTo(c, 15, "TrapaPushPc", Atomic!S!u32_add(c.pc, 2)) = x4
  BY DEF S!PushTo, Atomic!S!PushTo, S!u32_sub, Atomic!S!u32_sub, S!MemOp, Atomic!S!MemOp,
     S!to_phys, Atomic!S!to_phys, S!WordMod, Atomic!S!WordMod, S!Access, Atomic!S!Access,
     S!NoReg, Atomic!S!NoReg, S!u32_add, Atomic!S!u32_add
<1>7. Atomic!S!ReadVector(c, "TrapaVectorRead", Atomic!S!value_of(c.pending_trapa_imm)) = x5
  BY DEF S!ReadVector, Atomic!S!ReadVector, S!Await, Atomic!S!Await, S!MemOp, Atomic!S!MemOp,
     S!to_phys, Atomic!S!to_phys, S!u32_add, Atomic!S!u32_add, S!Access, Atomic!S!Access,
     S!WordMod, Atomic!S!WordMod, S!NoReg, Atomic!S!NoReg, S!value_of, Atomic!S!value_of
<1>8. [Atomic!S!EnterHandler(c, value) EXCEPT !.pending_trapa_imm = Atomic!S!None] = x6
  BY DEF S!EnterHandler, Atomic!S!EnterHandler, S!None, Atomic!S!None
<1>9. LET e == [c EXCEPT !.pending_new_pc = value, !.r[15] = Atomic!S!u32_add(@, 4)]
      IN  Atomic!S!Await(e, Atomic!S!MemOp("RtePopSr", Atomic!S!to_phys(e.r[15]), 0)) = x7
  BY DEF S!u32_add, Atomic!S!u32_add, S!WordMod, Atomic!S!WordMod, S!Await, Atomic!S!Await,
     S!to_phys, Atomic!S!to_phys, S!MemOp, Atomic!S!MemOp, S!Access, Atomic!S!Access, S!NoReg,
     Atomic!S!NoReg
<1>10. [c EXCEPT !.pending_new_sr = value, !.r[15] = Atomic!S!u32_add(@, 4),
                 !.pending_rte_restore = TRUE,
                 !.pending_branch_target = Atomic!S!Some(c.pending_new_pc),
                 !.has_exception_return_context = FALSE] = x8
  BY DEF S!u32_add, Atomic!S!u32_add, S!WordMod, Atomic!S!WordMod, S!Some, Atomic!S!Some
<1>11. {Atomic!S!RmwReads[op] : op \in Atomic!S!RmwOps} = reads
  BY DEF S!RmwReads, Atomic!S!RmwReads, S!RmwOps, Atomic!S!RmwOps
<1>12. Atomic!S!Await(c, Atomic!S!Access("RmwWriteByte", p0.phys_addr, 1,
         Atomic!S!RmwResult(Atomic!S!RmwOp(p0.kind), Atomic!S!Truncated(value, 1), p0.aux))) = x9
  BY DEF S!Await, Atomic!S!Await, S!Access, Atomic!S!Access, S!NoReg, Atomic!S!NoReg, S!RmwOp,
     Atomic!S!RmwOp, S!RmwOps, Atomic!S!RmwOps, S!RmwReads, Atomic!S!RmwReads, S!RmwResult,
     Atomic!S!RmwResult, S!And, Atomic!S!And, S!Xor, Atomic!S!Xor, S!Or, Atomic!S!Or, S!word,
     Atomic!S!word, S!bits, Atomic!S!bits, S!SymmetricDifference,
     Atomic!S!SymmetricDifference, S!MapThenSumSet, Atomic!S!MapThenSumSet, S!MapThenFoldSet,
     Atomic!S!MapThenFoldSet, S!Truncated, Atomic!S!Truncated, S!low, Atomic!S!low,
     S!ByteBits, Atomic!S!ByteBits
<1>13. Atomic!S!Retire(Atomic!S!PostIncrement(Atomic!S!Loaded(c, p0, value), p0)) = x0
  <2>1. Atomic!S!Loaded(c, p0, value) = S!Loaded(c, p0, value)
    BY DEF S!Loaded, Atomic!S!Loaded, S!Extended, Atomic!S!Extended, S!sext, Atomic!S!sext,
       S!ByteBits, Atomic!S!ByteBits, S!low, Atomic!S!low, S!WordMod, Atomic!S!WordMod
  <2>2. \A k : Atomic!S!PostIncrement(k, p0) = S!PostIncrement(k, p0)
    BY DEF S!PostIncrement, Atomic!S!PostIncrement, S!u32_add, Atomic!S!u32_add, S!WordMod,
       Atomic!S!WordMod
  <2>3. ASSUME NEW k PROVE Atomic!S!Retire(k) = S!Retire(k)
    <3> DEFINE restored == S!RestoreSr(k)
               next == S!Advance(k)
    <3>1. Atomic!S!RestoreSr(k) = restored /\ Atomic!S!Advance(k) = next
      BY SameAdvance DEF S!RestoreSr, Atomic!S!RestoreSr
    <3>2. /\ Atomic!S!value_of(k.pending_branch_target) = S!value_of(k.pending_branch_target)
          /\ Atomic!S!None = S!None
      BY DEF S!value_of, Atomic!S!value_of, S!None, Atomic!S!None
    <3>3. S!Retire(k) =
            IF k.pending_branch_target = S!None THEN next
            ELSE [restored EXCEPT !.pc = S!value_of(k.pending_branch_target),
                                  !.pending_branch_target = S!None]
      BY DEF S!Retire
    <3> HIDE DEF restored, next
    <3>4. Atomic!S!Retire(k) =
            IF k.pending_branch_target = S!None THEN next
            ELSE [restored EXCEPT !.pc = S!value_of(k.pending_branch_target),
                                  !.pending_branch_target = S!None]
      BY <3>1, <3>2 DEF Atomic!S!Retire
    <3> QED BY <3>3, <3>4
  <2> HIDE DEF c, p0
  <2> QED BY <2>1, <2>2, <2>3 DEF x0
<1> HIDE DEF c, reads, x1, x2, x3, x4, x5, x6, x7, x8, x9, x0
<1>14. Atomic!S!apply_pending(before, value) = result
  BY <1>2, <1>3, <1>4, <1>5, <1>6, <1>7, <1>8, <1>9, <1>10, <1>11, <1>12, <1>13
     DEF Atomic!S!apply_pending
<1> QED BY <1>1, <1>14

\* A core that starts.
LEMMA SameReset == \A entry, sp : Atomic!S!reset(entry, sp) = S!reset(entry, sp)
BY DEF S!reset, Atomic!S!reset, S!SysRegs, Atomic!S!SysRegs, S!NoOp, Atomic!S!NoOp, S!None,
   Atomic!S!None, S!MemOp, Atomic!S!MemOp, S!Access, Atomic!S!Access, S!NoReg,
   Atomic!S!NoReg

\* What the loop takes a cached word for.
LEMMA SameAsDecoded == \A ins : Atomic!S!AsDecoded(ins) = S!AsDecoded(ins)
BY DEF S!AsDecoded, Atomic!S!AsDecoded, S!Xnibble, Atomic!S!Xnibble, S!LowByte,
   Atomic!S!LowByte, S!None, Atomic!S!None, S!R0Store, Atomic!S!R0Store, S!value_of,
   Atomic!S!value_of, S!Some, Atomic!S!Some, S!IllegalInstr, Atomic!S!IllegalInstr, S!word,
   Atomic!S!word, S!MapThenSumSet, Atomic!S!MapThenSumSet, S!MapThenFoldSet,
   Atomic!S!MapThenFoldSet

\* Whether a core waits for an answer, its addresses and the sorts of instructions.
LEMMA SameSorts ==
    /\ \A c : Atomic!S!Waiting(c) <=> S!Waiting(c)
    /\ \A a : Atomic!S!to_phys(a) = S!to_phys(a)
    /\ \A a : Atomic!S!is_uncached_alias(a) <=> S!is_uncached_alias(a)
    /\ Atomic!S!MemoryOps = S!MemoryOps /\ Atomic!S!WriteKinds = S!WriteKinds
BY DEF S!Waiting, Atomic!S!Waiting, S!to_phys, Atomic!S!to_phys, S!is_uncached_alias,
   Atomic!S!is_uncached_alias, S!MemoryOps, Atomic!S!MemoryOps, S!RmwOps, Atomic!S!RmwOps,
   S!WriteKinds, Atomic!S!WriteKinds

-----------------------------------------------------------------------------
(* A core on the bus, in AtomicCores and here *)

\* A core with nothing to do before its next bus operation
OnBus(k) == S!Waiting(k.core) \/ ~Cached(k)

\* That operation, with this number
NextOp(k, n) == IF S!Waiting(k.core) THEN DataOp(k, n) ELSE FetchOp(k, n)

\* Whether the next instruction is cached.
LEMMA SameCached ==
    \A k : /\ Atomic!Phys(k) = Phys(k)
           /\ Atomic!Cacheable(k) <=> Cacheable(k)
           /\ Atomic!Cached(k) <=> Cached(k)
<1> TAKE k
<1>1. Atomic!Phys(k) = Phys(k)
  BY SameSorts DEF Phys, Atomic!Phys
<1>2. Atomic!Cacheable(k) <=> Cacheable(k)
  BY <1>1, SameSorts DEF Cacheable, Atomic!Cacheable, is_mmio, Atomic!is_mmio
<1>3. \A h, a, n : Atomic!Hit(h, a, n) <=> Hit(h, a, n)
  BY Zenon DEF Hit, Resident, CrossesLine, LineIndex, LineBase, Atomic!Hit, Atomic!Resident,
     Atomic!CrossesLine, Atomic!LineIndex, Atomic!LineBase
<1> QED BY <1>1, <1>2, <1>3 DEF Cached, Atomic!Cached

\* The cached instruction.
LEMMA SameCachedInstr ==
    /\ \A k : Atomic!CachedInstr(k) = CachedInstr(k)
    /\ \A ins : Atomic!IsMemory(ins) <=> IsMemory(ins)
<1>1. \A h, a, n : Atomic!CacheRead(h, a, n) = CacheRead(h, a, n)
  BY Zenon DEF CacheRead, Assemble, LineIndex, LineBase, Atomic!CacheRead, Atomic!Assemble,
     Atomic!LineIndex, Atomic!LineBase
<1>2. ASSUME NEW k PROVE Atomic!CachedInstr(k) = CachedInstr(k)
  <2>1. Atomic!CacheRead(k.icache, Atomic!Phys(k), 2) = CacheRead(k.icache, Phys(k), 2)
    BY <1>1, SameCached
  <2> QED BY <2>1, SameAsDecoded DEF CachedInstr, Atomic!CachedInstr
<1>3. \A ins : Atomic!IsMemory(ins) <=> IsMemory(ins)
  BY SameSorts DEF IsMemory, Atomic!IsMemory
<1> QED BY <1>2, <1>3

\* Executing and decoding it.
LEMMA SameLocal ==
    \A k, ins : /\ Atomic!ExecuteCached(k, ins) = ExecuteCached(k, ins)
                /\ Atomic!DecodeCached(k, ins) = DecodeCached(k, ins)
<1> TAKE k, ins
<1>1. Atomic!Cost(ins) = Cost(ins)
  BY DEF Cost, Atomic!Cost
<1>2. \A core, cost : Atomic!Retired(k, core, cost) = Retired(k, core, cost)
  BY DEF Retired, Atomic!Retired
<1>3. Atomic!ExecuteCached(k, ins) = ExecuteCached(k, ins)
  BY <1>1, <1>2, SameInstruction DEF ExecuteCached, Atomic!ExecuteCached
<1>4. Atomic!DecodeCached(k, ins) = DecodeCached(k, ins)
  BY SameDecodeMemory DEF DecodeCached, Atomic!DecodeCached
<1> QED BY <1>3, <1>4

\* The operation it hands over.
LEMMA SameNextOp ==
    ASSUME NEW k
    PROVE  (Atomic!AtBus(k) <=> OnBus(k)) /\ Atomic!OpOf(k) = NextOp(k, 0)
<1>1. Atomic!AtBus(k) <=> OnBus(k)
  BY SameSorts, SameCached DEF Atomic!AtBus, OnBus
<1> DEFINE fetch == FetchOp(k, 0)
           q == k.core.pending_mem_op
           kind == data_access_kind(q.phys_addr, q.kind \in S!WriteKinds)
<1>2. Atomic!FetchOp(k, 0) = fetch
  BY SameCached DEF FetchOp, Atomic!FetchOp
<1>3. Atomic!data_access_kind(q.phys_addr, q.kind \in Atomic!S!WriteKinds) = kind
  BY SameSorts DEF data_access_kind, Atomic!data_access_kind, is_mmio, Atomic!is_mmio
<1>4. DataOp(k, 0) = [fetch EXCEPT !.kind = kind, !.addr = q.phys_addr, !.size = q.size,
                                   !.data = q.value, !.fill = 0]
  BY DEF DataOp
<1> HIDE DEF fetch, kind
<1>5. Atomic!DataOp(k, 0) = [fetch EXCEPT !.kind = kind, !.addr = q.phys_addr, !.size = q.size,
                                          !.data = q.value, !.fill = 0]
  BY <1>2, <1>3 DEF Atomic!DataOp
<1>6. Atomic!OpOf(k) = NextOp(k, 0)
  BY <1>2, <1>4, <1>5, SameSorts DEF Atomic!OpOf, NextOp, fetch
<1> QED BY <1>1, <1>6

\* The answer to it.
LEMMA SameAnswer ==
    \A k, response :
        Atomic!apply_ifetch_and_step(k, response) = apply_ifetch_and_step(k, response)
<1> TAKE k, response
<1> DEFINE value == Answered(response.value)
           s == [k EXCEPT !.t = @ + response.stall]
           ins == Decode(value % (ByteMod * ByteMod))
           f == [s EXCEPT !.icache = IF response.line = <<>> THEN @
                                     ELSE fill_line(@, LineBase(Phys(k)), response.line)]
           af == [s EXCEPT !.icache = IF response.line = <<>> THEN @
                        ELSE Atomic!fill_line(@, Atomic!LineBase(Atomic!Phys(k)), response.line)]
<1>1. apply_ifetch_and_step(k, response) =
        IF S!Waiting(k.core)
          THEN Retired(s, S!apply_pending(k.core, value), 1)
          ELSE Retired(f, S!execute_instruction(k.core, ins), Cost(ins))
  BY DEF apply_ifetch_and_step
<1>2. Atomic!Answered(response.value) = value
  BY DEF Answered, kInvalidBusOpValue, Atomic!Answered, Atomic!kInvalidBusOpValue
<1>3. \A l, core, cost : Atomic!Retired(l, core, cost) = Retired(l, core, cost)
  BY DEF Retired, Atomic!Retired
<1>4. Atomic!Cost(ins) = Cost(ins)
  BY DEF Cost, Atomic!Cost
<1>5. af = f
  <2>1. Atomic!LineBase(Atomic!Phys(k)) = LineBase(Phys(k))
    BY SameCached DEF LineBase, Atomic!LineBase
  <2>2. \A h : Atomic!fill_line(h, LineBase(Phys(k)), response.line) =
               fill_line(h, LineBase(Phys(k)), response.line)
    BY DEF fill_line, LineIndex, Atomic!fill_line, Atomic!LineIndex
  <2> QED BY <2>1, <2>2
<1> DEFINE av == Atomic!Answered(response.value)
           ains == Decode(av % (ByteMod * ByteMod))
<1>6. Atomic!apply_ifetch_and_step(k, response) =
        IF Atomic!S!Waiting(k.core)
          THEN Atomic!Retired(s, Atomic!S!apply_pending(k.core, av), 1)
          ELSE Atomic!Retired(af, Atomic!S!execute_instruction(k.core, ains), Atomic!Cost(ains))
  BY DEF Atomic!apply_ifetch_and_step
<1>7. av = value /\ ains = ins
  BY <1>2
<1> HIDE DEF value, f, s, af, ins, av, ains
<1> QED BY <1>1, <1>3, <1>4, <1>5, <1>6, <1>7, SameSorts, SameApplyPending, SameInstruction

\* A new core.
LEMMA SameNewCore ==
    \A c, pc, sp : Atomic!NewCore(c, pc, sp) = NewCore(c, pc, sp)
BY SameReset DEF NewCore, NewCache, InvalidLine, Atomic!NewCore, Atomic!NewCache,
   Atomic!InvalidLine

-----------------------------------------------------------------------------
(* Operations without sequence numbers *)

OpFields == {"cpu", "req", "seq", "producer", "kind", "addr", "size", "data", "fill", "token"}

\* z is op without its number
Unnumbers(op, z) ==
    /\ DOMAIN op = OpFields
    /\ z = [op EXCEPT !.seq = 0]

\* The number is the only difference.
LEMMA OnlyTheNumber ==
    ASSUME NEW op, NEW z, Unnumbers(op, z)
    PROVE  /\ z.cpu = op.cpu /\ z.req = op.req /\ z.producer = op.producer /\ z.kind = op.kind
           /\ z.addr = op.addr /\ z.size = op.size /\ z.data = op.data /\ z.fill = op.fill
BY DEF Unnumbers, OpFields

\* The next operation of a core, with and without a number.
LEMMA NextOpUnnumbered ==
    ASSUME NEW k, NEW n
    PROVE  Unnumbers(NextOp(k, n), NextOp(k, 0))
<1> DEFINE cpu == k.id
           req == k.t
           addr == Phys(k)
           fill == IF Cacheable(k) THEN LineSize ELSE 0
           Fetch(m) == [cpu |-> cpu, req |-> req, seq |-> m, producer |-> "Auto",
                        kind |-> "IFetch", addr |-> addr, size |-> 2, data |-> 0,
                        fill |-> fill, token |-> 0]
           q == k.core.pending_mem_op
           kind == data_access_kind(q.phys_addr, q.kind \in S!WriteKinds)
           qa == q.phys_addr
           qs == q.size
           qv == q.value
           Data(m) == [cpu |-> cpu, req |-> req, seq |-> m, producer |-> "Auto",
                       kind |-> kind, addr |-> qa, size |-> qs, data |-> qv,
                       fill |-> 0, token |-> 0]
<1>1. \A m : FetchOp(k, m) = Fetch(m)
  BY DEF FetchOp
<1>2. \A m : DataOp(k, m) = [Fetch(m) EXCEPT !.kind = kind, !.addr = qa, !.size = qs,
                                             !.data = qv, !.fill = 0]
  BY <1>1, Zenon DEF DataOp
<1> HIDE DEF cpu, req, addr, fill, kind, qa, qs, qv
<1>3. ASSUME NEW m PROVE DataOp(k, m) = Data(m)
  <2>1. DataOp(k, m) = [Fetch(m) EXCEPT !.kind = kind, !.addr = qa, !.size = qs,
                                        !.data = qv, !.fill = 0]
    BY <1>2, Zenon
  <2> QED BY <2>1
<1>4. Unnumbers(Fetch(n), Fetch(0)) /\ Unnumbers(Data(n), Data(0))
  BY DEF Unnumbers, OpFields
<1> HIDE DEF Fetch, Data
<1> QED BY <1>1, <1>3, <1>4 DEF NextOp

\* A byte of a value.
LEMMA SameByteOf == \A v, s, i : Atomic!ByteOf(v, s, i) = ByteOf(v, s, i)
BY Zenon DEF ByteOf, ShiftedBy, Atomic!ByteOf, Atomic!ShiftedBy

\* Writing a value.
LEMMA SameOverwrite ==
    ASSUME NEW f, NEW a, NEW size, NEW v
    PROVE  Atomic!Overwrite(f, a, size, v) = Overwrite(f, a, size, v)
<1> DEFINE x(s, i) == ByteOf(v, s, i)
           result == CASE size = 1 -> [f EXCEPT ![a] = x(1, 0)]
                       [] size = 2 -> [f EXCEPT ![a] = x(2, 0), ![a + 1] = x(2, 1)]
                       [] size = 4 -> [f EXCEPT ![a] = x(4, 0), ![a + 1] = x(4, 1),
                                                ![a + 2] = x(4, 2), ![a + 3] = x(4, 3)]
<1>1. \A s, i : Atomic!ByteOf(v, s, i) = x(s, i)
  BY SameByteOf
<1>2. /\ Atomic!ByteOf(v, 1, 0) = x(1, 0) /\ Atomic!ByteOf(v, 2, 0) = x(2, 0)
      /\ Atomic!ByteOf(v, 2, 1) = x(2, 1) /\ Atomic!ByteOf(v, 4, 0) = x(4, 0)
      /\ Atomic!ByteOf(v, 4, 1) = x(4, 1) /\ Atomic!ByteOf(v, 4, 2) = x(4, 2)
      /\ Atomic!ByteOf(v, 4, 3) = x(4, 3)
  BY <1>1
<1>3. Overwrite(f, a, size, v) = result
  BY Zenon DEF Overwrite
<1> HIDE DEF x
<1>4. Atomic!Overwrite(f, a, size, v) = result
  BY <1>2, Zenon DEF Atomic!Overwrite
<1> QED BY <1>3, <1>4, Zenon

\* When an operation starts and finishes.
LEMMA SameTiming ==
    ASSUME NEW op, NEW z, Unnumbers(op, z)
    PROVE  Atomic!Start(z) = Start(op) /\ \A tie : Atomic!Finish(z, tie) = Finish(op, tie)
BY OnlyTheNumber, ZenonT(40) DEF Finish, Start, base_latency, contention_extra, is_mmio, None,
   Atomic!Finish, Atomic!Start, Atomic!base_latency, Atomic!contention_extra, Atomic!is_mmio,
   Atomic!None

\* Which operations are well formed, and the slot of their producer.
LEMMA SameValid ==
    ASSUME NEW op, NEW z, Unnumbers(op, z)
    PROVE  /\ Atomic!ValidBusOp(z) <=> ValidBusOp(op)
           /\ Atomic!producer_slot(z) = producer_slot(op)
           /\ Atomic!priority_of(z) = priority_of(op)
BY OnlyTheNumber, ZenonT(40) DEF ValidBusOp, valid_bus_size, is_mmio, is_aligned, AccessSizes,
   producer_slot, priority_of, Atomic!ValidBusOp, Atomic!valid_bus_size, Atomic!is_mmio,
   Atomic!is_aligned, Atomic!AccessSizes, Atomic!producer_slot, Atomic!priority_of

\* Which operations are rejected, and why.
LEMMA SameRejected ==
    ASSUME NEW op, NEW z, Unnumbers(op, z)
    PROVE  /\ Atomic!Rejected(z) <=> Rejected(op)
           /\ Atomic!RejectReason(z) = RejectReason(op)
BY OnlyTheNumber, SameValid DEF Rejected, NonMonotonic, None, RejectReason, Atomic!Rejected,
   Atomic!NonMonotonic, Atomic!None, Atomic!RejectReason

\* The value of an operation.
LEMMA SameValueOf ==
    ASSUME NEW op, NEW z, Unnumbers(op, z)
    PROVE  Atomic!ValueOf(z) = ValueOf(op)
<1>1. \A m, a, size : Atomic!read(m, a, size) = read(m, a, size)
  BY Zenon DEF read, access_in_range, Assemble, Atomic!read, Atomic!access_in_range,
     Atomic!Assemble
<1>2. (Atomic!IsWrite(z) <=> IsWrite(op)) /\ (Atomic!ToDevice(z) <=> ToDevice(op))
  BY OnlyTheNumber DEF IsWrite, ToDevice, is_mmio, Atomic!IsWrite, Atomic!ToDevice, Atomic!is_mmio
<1> QED BY <1>1, <1>2, OnlyTheNumber, Zenon DEF ValueOf, Atomic!ValueOf

\* Its effect.
LEMMA SameEffect ==
    ASSUME NEW op, NEW z, Unnumbers(op, z), Effect(op)
    PROVE  Atomic!Effect(z)
BY OnlyTheNumber, SameOverwrite DEF Effect, IsWrite, ToDevice, write, is_mmio, access_in_range,
   Atomic!Effect, Atomic!IsWrite, Atomic!ToDevice, Atomic!write, Atomic!is_mmio,
   Atomic!access_in_range

\* Its reply.
LEMMA SameResponse ==
    ASSUME NEW op, NEW z, Unnumbers(op, z), NEW tie
    PROVE  Atomic!Response(z, tie) = Response(op, tie)
BY OnlyTheNumber, SameRejected, SameValueOf, SameTiming, ZenonT(40) DEF Response,
   kInvalidBusOpValue, ToDevice, LineData, is_mmio, read_block, access_in_range,
   Atomic!Response, Atomic!kInvalidBusOpValue, Atomic!ToDevice, Atomic!LineData, Atomic!is_mmio,
   Atomic!read_block, Atomic!access_in_range

\* The arbitration policy does not look at the numbers of operations of different
\* CPUs.
LEMMA SameBeats ==
    ASSUME NEW op, NEW z, Unnumbers(op, z), NEW other, NEW y, Unnumbers(other, y),
           op.cpu \in CpuIds, other.cpu \in CpuIds, op.cpu # other.cpu,
           op.producer = "Auto", other.producer = "Auto"
    PROVE  Atomic!Beats(z, y) <=> Beats(op, other)
<1>1. /\ producer_slot(op) = op.cpu /\ producer_slot(other) = other.cpu
  BY DEF producer_slot, CpuIds
<1>2. Atomic!Preferred = Preferred /\ \A c : Atomic!is_cpu(c) <=> is_cpu(c)
  BY DEF Preferred, is_cpu, CpuIds, Atomic!Preferred, Atomic!is_cpu, Atomic!CpuIds
<1>3. /\ z.cpu = op.cpu /\ y.cpu = other.cpu
      /\ Atomic!Start(z) = Start(op) /\ Atomic!Start(y) = Start(other)
      /\ Atomic!producer_slot(z) = op.cpu /\ Atomic!producer_slot(y) = other.cpu
      /\ Atomic!priority_of(z) = priority_of(op) /\ Atomic!priority_of(y) = priority_of(other)
  BY <1>1, OnlyTheNumber, SameTiming, SameValid
<1> QED BY <1>1, <1>2, <1>3, Zenon DEF Beats, Atomic!Beats

\* A new line of the log is a new line without a number.
LEMMA LineUnnumbered ==
    ASSUME IsSeq(trace), NEW line, trace' = Append(trace, line)
    PROVE  Unnumbered' = Append(Unnumbered, [line EXCEPT !.op.seq = 0])
<1>1. /\ IsSeq(trace') /\ Len(trace) \in Nat /\ Len(trace') = Len(trace) + 1
      /\ \A i \in 1..Len(trace) : trace'[i] = trace[i]
      /\ trace'[Len(trace) + 1] = line
  BY AppendAny
<1> DEFINE Z(l) == [l EXCEPT !.op.seq = 0]
<1>2. /\ Unnumbered = [i \in 1..Len(trace) |-> Z(trace[i])]
      /\ Unnumbered' = [i \in 1..Len(trace') |-> Z(trace'[i])]
  BY DEF Unnumbered
<1> HIDE DEF Z
<1> DEFINE R == {Z(trace[i]) : i \in 1..Len(trace)} \cup {Z(line)}
<1>3. Unnumbered \in Seq(R) /\ Len(Unnumbered) = Len(trace) /\ Z(line) \in R
  <2>1. Unnumbered \in [1..Len(trace) -> R]
    BY <1>2
  <2> HIDE DEF R
  <2>2. Unnumbered \in Seq(R) /\ Len(Unnumbered) = Len(trace)
    BY <1>1, <2>1
  <2> QED BY <2>2 DEF R
<1> HIDE DEF R
<1> DEFINE longer == Append(Unnumbered, Z(line))
<1>4. /\ longer \in Seq(R) /\ Len(longer) = Len(trace) + 1
      /\ \A i \in 1..Len(trace) : longer[i] = Unnumbered[i]
      /\ longer[Len(trace) + 1] = Z(line)
  BY <1>1, <1>3
<1> HIDE DEF longer
<1>5. longer = [i \in 1..(Len(trace) + 1) |-> longer[i]]
  BY <1>4
<1>6. ASSUME NEW i \in 1..(Len(trace) + 1) PROVE longer[i] = Z(trace'[i])
  <2>1. CASE i \in 1..Len(trace)
    BY <1>1, <1>2, <1>4, <2>1
  <2>2. CASE i = Len(trace) + 1
    BY <1>1, <1>4, <2>2
  <2> QED BY <1>1, <2>1, <2>2
<1>7. Unnumbered' = longer
  BY <1>1, <1>2, <1>5, <1>6
<1> QED BY <1>7 DEF longer, Z

\* Executing an operation, seen without its number.
LEMMA ExecuteRefines ==
    ASSUME IsSeq(trace), NEW op, NEW z, Unnumbers(op, z), NEW tie, execute_commit(op, tie)
    PROVE  Atomic!execute_commit(z, tie)
<1>1. CASE Rejected(op) /\ Reject(op)
  <2> DEFINE t == Start(op)
             reason == RejectReason(op)
             line == [start |-> t, finish |-> t, op |-> op, stall |-> 0,
                      value |-> kInvalidBusOpValue, fault |-> reason]
             zline == [start |-> t, finish |-> t, op |-> z, stall |-> 0,
                       value |-> kInvalidBusOpValue, fault |-> reason]
  <2>1. trace' = Append(trace, line)
    BY <1>1 DEF Reject, fault_response
  <2>2. /\ should_halt' = (should_halt \/ halt_on_fault) /\ halt_on_fault' = halt_on_fault
        /\ UNCHANGED <<timingVars, storeVars>>
    BY <1>1 DEF Reject, fault_response
  <2>3. Unnumbered' = Append(Unnumbered, [line EXCEPT !.op.seq = 0])
    BY <2>1, LineUnnumbered
  <2>4. Atomic!Start(z) = t /\ Atomic!RejectReason(z) = reason /\ Atomic!Rejected(z)
    BY <1>1, SameTiming, SameRejected
  <2> HIDE DEF t, reason
  <2>5. [line EXCEPT !.op.seq = 0] = zline
    BY DEF Unnumbers
  <2>6. Atomic!fault_response(z, Atomic!Start(z), Atomic!RejectReason(z))
    BY <2>2, <2>3, <2>4, <2>5, Zenon DEF Atomic!fault_response, Atomic!kInvalidBusOpValue,
       kInvalidBusOpValue
  <2>7. Atomic!Reject(z)
    BY <2>2, <2>6 DEF Atomic!Reject, timingVars, storeVars, Atomic!timingVars, Atomic!storeVars
  <2> QED BY <2>4, <2>7 DEF Atomic!execute_commit
<1>2. CASE ~Rejected(op) /\ Grant(op, tie)
  <2> DEFINE s == Start(op)
             f == Finish(op, tie)
             v == ValueOf(op)
             line == [start |-> s, finish |-> f, op |-> op, stall |-> f - op.req,
                      value |-> v, fault |-> "none"]
             zline == [start |-> s, finish |-> f, op |-> z, stall |-> f - op.req,
                       value |-> v, fault |-> "none"]
  <2>1. trace' = Append(trace, line)
    BY <1>2 DEF Grant, add_commit
  <2>2. /\ UNCHANGED <<halt_on_fault, should_halt>>
        /\ producer_last_req_time' = [producer_last_req_time EXCEPT ![producer_slot(op)] = op.req]
        /\ last_addr' = IF op.kind # "Barrier" THEN op.addr ELSE last_addr
        /\ last_grant_cpu' = IF tie /\ is_cpu(op.cpu) THEN op.cpu ELSE last_grant_cpu
        /\ bus_free_time' = f
        /\ Effect(op)
    BY <1>2 DEF Grant, add_commit
  <2>3. Unnumbered' = Append(Unnumbered, [line EXCEPT !.op.seq = 0])
    BY <2>1, LineUnnumbered
  <2>4. /\ Atomic!Start(z) = s /\ Atomic!Finish(z, tie) = f /\ Atomic!ValueOf(z) = v
        /\ ~Atomic!Rejected(z) /\ Atomic!producer_slot(z) = producer_slot(op)
        /\ z.req = op.req /\ z.kind = op.kind /\ z.addr = op.addr /\ z.cpu = op.cpu
    BY <1>2, OnlyTheNumber, SameTiming, SameRejected, SameValueOf, SameValid
  <2>5. Atomic!Effect(z)
    BY <2>2, SameEffect
  <2> HIDE DEF s, f, v
  <2>6. [line EXCEPT !.op.seq = 0] = zline
    BY DEF Unnumbers
  <2>7. Atomic!add_commit(z, Atomic!Start(z), Atomic!Finish(z, tie), Atomic!ValueOf(z))
    BY <2>2, <2>3, <2>4, <2>6, Zenon DEF Atomic!add_commit
  <2>8. Atomic!is_cpu(op.cpu) <=> is_cpu(op.cpu)
    BY DEF is_cpu, CpuIds, Atomic!is_cpu, Atomic!CpuIds
  <2>9. Atomic!Grant(z, tie)
    BY <2>2, <2>4, <2>5, <2>7, <2>8, Zenon DEF Atomic!Grant
  <2> QED BY <2>4, <2>9 DEF Atomic!execute_commit
<1> QED BY <1>1, <1>2 DEF execute_commit

-----------------------------------------------------------------------------
(* What instructions do to the access that a core waits for *)

\* No word that the cores may execute is a TRAPA or an RTE
NoTraps == \A code : Decode(code).op \notin {"TRAPA", "RTE"}

HasPending(core) == "pending_mem_op" \in DOMAIN core

\* An instruction other than an access, a TRAPA and an RTE waits for nothing.
LEMMA EffectPending ==
    ASSUME NEW c, HasPending(c), NEW ins
    PROVE  /\ HasPending(S!Effect(c, ins))
           /\ ins.op \notin S!MemoryOps \cup {"TRAPA", "RTE"} =>
                 S!Effect(c, ins).pending_mem_op = c.pending_mem_op
<1> DEFINE regs == S!AluRegs(ins, c.r, c.sys)
           sys == S!AluSys(ins, c.r, c.sys)
<1>1. CASE ins.op \in S!AluOps
  <2>1. S!Effect(c, ins) = S!Advance([c EXCEPT !.r = regs, !.sys = sys])
    BY <1>1 DEF S!AluOps, S!Comparisons, S!Shifts, S!Effect, S!Links
  <2> HIDE DEF regs, sys
  <2> QED BY <2>1 DEF S!Advance, HasPending
<1>2. CASE ins.op \notin S!AluOps
  BY <1>2 DEF HasPending, S!Effect, S!MemoryOps, S!Advance, S!PushTo, S!PopFrom, S!Await,
     S!BeginReturn, S!BeginTrap, S!Links
<1> QED BY <1>1, <1>2

\* Executing it, in a delay slot or not.
LEMMA ExecutePending ==
    ASSUME NEW c, HasPending(c), NEW ins
    PROVE  /\ HasPending(S!execute_instruction(c, ins))
           /\ ins.op \notin S!MemoryOps \cup {"TRAPA", "RTE"} =>
                 S!execute_instruction(c, ins).pending_mem_op = c.pending_mem_op
<1> DEFINE d == [c EXCEPT !.pending_branch_target = S!None]
           after == S!Effect(d, ins)
<1>1. HasPending(d) /\ d.pending_mem_op = c.pending_mem_op
  BY DEF HasPending
<1>2. /\ HasPending(after)
      /\ ins.op \notin S!MemoryOps \cup {"TRAPA", "RTE"} =>
            after.pending_mem_op = c.pending_mem_op
  <2> HIDE DEF d
  <2> QED BY <1>1, EffectPending
<1>3. S!execute_instruction(c, ins) =
        IF c.pending_branch_target = S!None
          THEN [after EXCEPT !.pending_branch_target = S!next_branch_target(c, ins)]
          ELSE [S!RestoreSr(after) EXCEPT !.pc = S!value_of(c.pending_branch_target)]
  BY DEF S!execute_instruction
<1> HIDE DEF after
<1> QED BY <1>2, <1>3 DEF HasPending, S!RestoreSr

\* Decoding an access leads to waiting for it.
LEMMA DecodePending ==
    ASSUME NEW c, HasPending(c), NEW ins, ins.op \in S!MemoryOps
    PROVE  HasPending(S!decode_memory(c, ins)) /\ S!Waiting(S!decode_memory(c, ins))
<1>1. CASE ins.op = "LOAD"
  BY <1>1 DEF HasPending, S!Waiting, S!decode_memory, S!Await, S!Access, S!ReadKind, S!RmwOps
<1>2. CASE ins.op = "STORE"
  BY <1>2 DEF HasPending, S!Waiting, S!decode_memory, S!Await, S!Access, S!StoreKind, S!RmwOps
<1>3. CASE ins.op = "PUSH"
  BY <1>3 DEF HasPending, S!Waiting, S!decode_memory, S!PushTo, S!MemOp, S!Access, S!RmwOps
<1>4. CASE ins.op = "POP"
  BY <1>4 DEF HasPending, S!Waiting, S!decode_memory, S!PopFrom, S!Await, S!MemOp, S!Access, S!RmwOps
<1>5. CASE ins.op \in S!RmwOps
  <2>1. S!RmwReads[ins.op] # "None" /\ ins.op \notin {"LOAD", "STORE", "PUSH", "POP"}
    BY <1>5 DEF S!RmwReads, S!RmwOps
  <2> QED BY <1>5, <2>1 DEF HasPending, S!Waiting, S!decode_memory, S!Await, S!Access
<1> QED BY <1>1, <1>2, <1>3, <1>4, <1>5 DEF S!MemoryOps

\* A core keeps its members when an access is answered.
LEMMA ApplyPending ==
    ASSUME NEW c, HasPending(c), NEW value
    PROVE  HasPending(S!apply_pending(c, value))
BY DEF HasPending, S!apply_pending, S!PushTo, S!ReadVector, S!Await, S!EnterHandler, S!Retire,
   S!Advance, S!RestoreSr, S!PostIncrement, S!Loaded

\* The loop takes a cached word for a store or for what the decoder makes of it.
LEMMA CachedOp ==
    ASSUME NoTraps, NEW k
    PROVE  CachedInstr(k).op \notin {"TRAPA", "RTE"}
<1>1. \A x, y, size : S!R0Store(x, y, size).op = "STORE"
  BY DEF S!R0Store, S!IllegalInstr
<1>2. \A ins : S!AsDecoded(ins) = ins \/ S!AsDecoded(ins).op = "STORE"
  BY <1>1, Zenon DEF S!AsDecoded
<1> QED BY <1>2 DEF CachedInstr, NoTraps

-----------------------------------------------------------------------------
(* The invariant of the refinement *)

\* What a core holds on the bus is its next operation
HeldInv ==
    \A c \in CpuIds :
        Some(p[c]) => OnBus(cores[c]) /\ p[c] = NextOp(cores[c], p[c].seq)

\* Inside produce_until_bus the core waits for nothing
RunInv == fuel # Idle => ~S!Waiting(cores[turn].core)

ClockInv ==
    /\ bus_free_time \in Nat
    /\ \A c \in CpuIds : cores[c].t \in Nat /\ HasPending(cores[c].core)
    /\ \A i \in 1..Len(call.committed) : call.committed[i].response.stall \in Nat

\* No watermark is ahead of what its core would report now
MarkInv ==
    /\ progress_up_to \in [CpuIds -> Nat]
    /\ loop \in {"call", "commit"} => progress_tracking_enabled
    /\ \A c \in CpuIds : progress_up_to[c] # TickMax => progress_up_to[c] <= Reported(c)

\* The probes come once max_steps is reached, and no DMA before them
ProbeInv ==
    /\ DOMAIN producer_last_enqueued_req_time = Slots
    /\ loop \in {"probe write", "probe read"} => Executed >= MaxSteps
    /\ loop \notin {"probe read", "done"} => producer_last_enqueued_req_time[2] = None
    /\ loop = "probe read" => producer_last_enqueued_req_time[2] = 0

AheadParts ==
    CallInv /\ IsSeq(trace) /\ HeldInv /\ RunInv /\ ClockInv /\ MarkInv /\ ProbeInv

AheadInv == IInv /\ AheadParts

\* The next operation of a core.
LEMMA NextOpFacts ==
    ASSUME NEW k, NEW n
    PROVE  /\ NextOp(k, n).cpu = k.id /\ NextOp(k, n).req = k.t /\ NextOp(k, n).seq = n
           /\ NextOp(k, n).producer = "Auto" /\ NextOp(k, n).kind \in Kinds
<1> DEFINE q == k.core.pending_mem_op
           kind == data_access_kind(q.phys_addr, q.kind \in S!WriteKinds)
           qa == q.phys_addr
           qs == q.size
           qv == q.value
           f == FetchOp(k, n)
<1>1. /\ f.cpu = k.id /\ f.req = k.t /\ f.seq = n /\ f.producer = "Auto" /\ f.kind = "IFetch"
      /\ DOMAIN f = OpFields
  BY DEF FetchOp, OpFields
<1>2. DataOp(k, n) = [f EXCEPT !.kind = kind, !.addr = qa, !.size = qs, !.data = qv, !.fill = 0]
  BY DEF DataOp
<1>3. kind \in Kinds
  BY DEF data_access_kind, Kinds
<1> HIDE DEF f, kind, qa, qs, qv
<1>4. /\ DataOp(k, n).cpu = k.id /\ DataOp(k, n).req = k.t /\ DataOp(k, n).seq = n
      /\ DataOp(k, n).producer = "Auto" /\ DataOp(k, n).kind = kind
  BY <1>1, <1>2 DEF OpFields
<1> QED BY <1>1, <1>3, <1>4 DEF NextOp, f, Kinds

\* Data accesses and fetches are next operations.
LEMMA NextOpIs ==
    ASSUME NEW k, NEW n
    PROVE  /\ S!Waiting(k.core) => NextOp(k, n) = DataOp(k, n)
           /\ ~S!Waiting(k.core) => NextOp(k, n) = FetchOp(k, n)
BY DEF NextOp

\* So what the loop holds asks only for lines that miss.
LEMMA HeldAsks == HeldInv => OpsInv
<1> SUFFICES ASSUME HeldInv, NEW c \in CpuIds, Some(p[c])
             PROVE  p[c].producer = "Auto" /\ AsksOnlyForMisses(cores[c], p[c])
  BY DEF OpsInv
<1>1. PICK k, op, n : k = cores[c] /\ op = p[c] /\ n = p[c].seq
  OBVIOUS
<1>2. OnBus(k) /\ op = NextOp(k, n)
  BY <1>1 DEF HeldInv
<1>3. CASE S!Waiting(k.core)
  <2>1. op.fill = 0 /\ op.producer = "Auto"
    BY <1>2, <1>3, NextOpIs, DataAsks
  <2> QED BY <1>1, <2>1 DEF AsksOnlyForMisses
<1>4. CASE ~S!Waiting(k.core)
  <2>1. op = FetchOp(k, n) /\ ~Cached(k)
    BY <1>2, <1>4, NextOpIs DEF OnBus
  <2> QED BY <1>1, <2>1, FetchAsks
<1> QED BY <1>3, <1>4

\* What a core reports.
LEMMA ReportedIs ==
    ASSUME HeldInv, NEW c \in CpuIds
    PROVE  Reported(c) = IF Some(p[c]) THEN cores[c].t + 1 ELSE cores[c].t
<1>1. CASE Some(p[c])
  <2>1. p[c].req = cores[c].t
    <3>1. PICK k, n : k = cores[c] /\ n = p[c].seq
      OBVIOUS
    <3>2. p[c] = NextOp(k, n)
      BY <1>1, <3>1 DEF HeldInv
    <3> QED BY <3>1, <3>2, NextOpFacts
  <2> QED BY <1>1, <2>1 DEF Reported
<1>2. CASE ~Some(p[c])
  BY <1>2 DEF Reported
<1> QED BY <1>1, <1>2

\* The clock and the members of a core after an instruction.
LEMMA RetiredClock ==
    ASSUME NEW k, HasMembers(k), k.t \in Nat, NEW core, NEW cost \in Nat \ {0}
    PROVE  /\ Retired(k, core, cost).core = core
           /\ Retired(k, core, cost).t \in Nat /\ Retired(k, core, cost).t > k.t
BY DEF HasMembers, Retired

\* Every instruction takes time.
LEMMA CostIs == \A ins : Cost(ins) \in Nat \ {0}
BY DEF Cost

\* A cached instruction.
LEMMA HitClock ==
    ASSUME NoTraps, NEW k, HasMembers(k), k.t \in Nat, HasPending(k.core),
           NEW ins, ins = CachedInstr(k), ~IsMemory(ins)
    PROVE  /\ ExecuteCached(k, ins).t \in Nat /\ ExecuteCached(k, ins).t > k.t
           /\ HasPending(ExecuteCached(k, ins).core)
           /\ S!Waiting(ExecuteCached(k, ins).core) <=> S!Waiting(k.core)
<1>1. PICK core : core = S!execute_instruction(k.core, ins)
  OBVIOUS
<1>2. ins.op \notin S!MemoryOps \cup {"TRAPA", "RTE"}
  BY CachedOp DEF IsMemory
<1>3. HasPending(core) /\ core.pending_mem_op = k.core.pending_mem_op
  BY <1>1, <1>2, ExecutePending
<1>4. ExecuteCached(k, ins) = Retired(k, core, Cost(ins))
  BY <1>1 DEF ExecuteCached
<1>5. /\ ExecuteCached(k, ins).core = core
      /\ ExecuteCached(k, ins).t \in Nat /\ ExecuteCached(k, ins).t > k.t
  BY <1>4, RetiredClock, CostIs
<1> QED BY <1>3, <1>5 DEF S!Waiting

\* A cached access.
LEMMA DecodeClock ==
    ASSUME NEW k, HasMembers(k), HasPending(k.core), NEW ins, IsMemory(ins)
    PROVE  /\ DecodeCached(k, ins).t = k.t
           /\ HasPending(DecodeCached(k, ins).core) /\ S!Waiting(DecodeCached(k, ins).core)
<1>1. PICK core : core = S!decode_memory(k.core, ins)
  OBVIOUS
<1>2. HasPending(core) /\ S!Waiting(core)
  BY <1>1, DecodePending DEF IsMemory
<1>3. DecodeCached(k, ins) = [k EXCEPT !.core = core]
  BY <1>1 DEF DecodeCached
<1>4. DecodeCached(k, ins).core = core /\ DecodeCached(k, ins).t = k.t
  BY <1>3 DEF HasMembers
<1> QED BY <1>2, <1>4

\* An answer.
LEMMA AnswerClock ==
    ASSUME NEW k, HasMembers(k), k.t \in Nat, HasPending(k.core),
           NEW response, response.stall \in Nat
    PROVE  /\ apply_ifetch_and_step(k, response).t \in Nat
           /\ apply_ifetch_and_step(k, response).t > k.t
           /\ HasPending(apply_ifetch_and_step(k, response).core)
<1> DEFINE value == Answered(response.value)
           s == [k EXCEPT !.t = @ + response.stall]
           ins == Decode(value % (ByteMod * ByteMod))
           f == [s EXCEPT !.icache = IF response.line = <<>> THEN @
                                     ELSE fill_line(@, LineBase(Phys(k)), response.line)]
           applied == S!apply_pending(k.core, value)
           executed == S!execute_instruction(k.core, ins)
<1>1. apply_ifetch_and_step(k, response) =
        IF S!Waiting(k.core) THEN Retired(s, applied, 1) ELSE Retired(f, executed, Cost(ins))
  BY DEF apply_ifetch_and_step
<1>2. /\ HasMembers(s) /\ s.t \in Nat /\ s.t >= k.t
      /\ HasMembers(f) /\ f.t \in Nat /\ f.t >= k.t
  BY DEF HasMembers
<1>3. HasPending(applied) /\ HasPending(executed)
  BY ApplyPending, ExecutePending
<1> HIDE DEF s, f, ins, applied, executed
<1>4. /\ Retired(s, applied, 1).core = applied
      /\ Retired(s, applied, 1).t \in Nat /\ Retired(s, applied, 1).t > s.t
  BY <1>2, RetiredClock
<1>5. /\ Retired(f, executed, Cost(ins)).core = executed
      /\ Retired(f, executed, Cost(ins)).t \in Nat /\ Retired(f, executed, Cost(ins)).t > f.t
  BY <1>2, RetiredClock, CostIs
<1> QED BY <1>1, <1>2, <1>3, <1>4, <1>5

-----------------------------------------------------------------------------
(* Every step keeps it *)

\* The members of the cores.
LEMMA CoresOK ==
    ASSUME IInv, NEW c \in CpuIds
    PROVE  HasMembers(cores[c]) /\ cores[c].id = c /\ DOMAIN cores = CpuIds /\ DOMAIN p = CpuIds
BY DEF IInv, TypeOK, CoreOK, HasMembers

\* Outside of commit_batch there are no results.
LEMMA NoResults ==
    ASSUME CallInv, loop # "commit"
    PROVE  call = IdleCall /\ Len(call.committed) = 0 /\ \A c : ResultsFor(c) = {} /\ Applied(c) = cores[c]
<1>1. call = IdleCall /\ call.committed = <<>>
  BY DEF CallInv, IdleCall
<1>2. Len(call.committed) = 0
  BY <1>1, EmptyIsSeq
<1>3. \A c : ResultsFor(c) = {}
  BY <1>2 DEF ResultsFor
<1> QED BY <1>1, <1>2, <1>3 DEF Applied

\* Not less is at least.
LEMMA NotLess == \A m, n \in Nat : ~(m < n) => m >= n
OBVIOUS

\* Steps of the loop alone.
LEMMA QuietAhead ==
    ASSUME AheadInv, IInv', LoopTop \/ AlreadyPending \/ StartRun
    PROVE  AheadParts'
<1>1. /\ UNCHANGED <<bus_free_time, trace, halt_on_fault, should_halt, call, progress_up_to,
                     progress_tracking_enabled, producer_last_enqueued_req_time, cores, p>>
      /\ loop \in {"top", "produce"} /\ loop' \in {"produce", "publish", "probe write"}
  BY DEF LoopTop, AlreadyPending, NextTurn, StartRun, Producing, arbVars, timingVars, traceVars,
         progressVars
<1>2. CallInv' /\ IsSeq(trace')
  BY <1>1 DEF AheadInv, AheadParts, CallInv
<1>3. HeldInv'
  BY <1>1 DEF AheadInv, AheadParts, HeldInv
<1>4. RunInv'
  <2>1. CASE fuel = Idle /\ fuel' = fuel
    BY <2>1 DEF RunInv
  <2>2. CASE StartRun
    BY <1>1, <2>2 DEF StartRun, RunInv
  <2>3. LoopTop \/ AlreadyPending => fuel = Idle /\ fuel' = fuel
    BY DEF LoopTop, AlreadyPending, AheadInv, IInv, LoopInv
  <2> QED BY <2>1, <2>2, <2>3
<1>5. ClockInv'
  BY <1>1 DEF AheadInv, AheadParts, ClockInv
<1>6. MarkInv'
  BY <1>1 DEF AheadInv, AheadParts, MarkInv, Reported
<1>7. ProbeInv'
  <2>1. Executed \in Nat /\ MaxSteps \in Nat
    BY ExecutedType, BiosAssumption DEF AheadInv, IInv
  <2>2. Executed' = Executed
    BY <1>1 DEF Executed
  <2>3. loop' = "probe write" => Executed >= MaxSteps
    <3> SUFFICES ASSUME loop' = "probe write" PROVE Executed >= MaxSteps
      OBVIOUS
    <3>1. ~(Executed < MaxSteps)
      BY DEF LoopTop, AlreadyPending, NextTurn, StartRun, Producing
    <3>2. PICK m, n : m = Executed /\ n = MaxSteps
      OBVIOUS
    <3>3. m \in Nat /\ n \in Nat /\ ~(m < n)
      BY <2>1, <3>1, <3>2
    <3>4. m >= n
      BY <3>3, NotLess
    <3> QED BY <3>2, <3>4
  <2>4. /\ DOMAIN producer_last_enqueued_req_time' = Slots
        /\ producer_last_enqueued_req_time'[2] = None
    BY <1>1 DEF AheadInv, AheadParts, ProbeInv
  <2> QED BY <1>1, <2>2, <2>3, <2>4 DEF ProbeInv
<1> QED BY <1>2, <1>3, <1>4, <1>5, <1>6, <1>7 DEF AheadParts

\* produce_until_bus returns.
LEMMA ProducedAhead ==
    ASSUME AheadInv, Producing, NEW op, Produced(op), NEW k, k = cores'[turn],
           DOMAIN cores' = CpuIds,
           Some(op) => OnBus(k) /\ op = NextOp(k, op.seq),
           k.t = cores[turn].t, HasPending(k.core),
           \A c \in CpuIds \ {turn} : cores'[c] = cores[c]
    PROVE  AheadParts'
<1>1. /\ UNCHANGED <<bus_free_time, trace, halt_on_fault, should_halt, call, progress_up_to,
                     progress_tracking_enabled, producer_last_enqueued_req_time>>
      /\ loop = "produce" /\ loop' \in {"produce", "publish"} /\ fuel' = Idle
      /\ p' = [p EXCEPT ![turn] = op] /\ ~Some(p[turn])
  BY DEF Producing, Produced, NextTurn, arbVars, timingVars, traceVars, progressVars
<1>2. turn \in CpuIds /\ DOMAIN p = CpuIds
  BY DEF AheadInv, IInv, TypeOK
<1>3. p'[turn] = op /\ \A c \in CpuIds \ {turn} : p'[c] = p[c]
  BY <1>1, <1>2
<1>4. CallInv' /\ IsSeq(trace')
  BY <1>1 DEF AheadInv, AheadParts, CallInv
<1>5. HeldInv'
  <2> SUFFICES ASSUME NEW c \in CpuIds, Some(p'[c])
               PROVE  OnBus(cores'[c]) /\ p'[c] = NextOp(cores'[c], p'[c].seq)
    BY DEF HeldInv
  <2>1. CASE c = turn
    BY <1>3, <2>1
  <2>2. CASE c # turn
    <3>1. cores'[c] = cores[c] /\ p'[c] = p[c]
      BY <1>3, <2>2
    <3>2. OnBus(cores[c]) /\ p[c] = NextOp(cores[c], p[c].seq)
      BY <3>1 DEF AheadInv, AheadParts, HeldInv
    <3> QED BY <3>1, <3>2
  <2> QED BY <2>1, <2>2
<1>6. RunInv'
  BY <1>1 DEF RunInv
<1>7. /\ \A c \in CpuIds : cores'[c].t = cores[c].t /\ cores[c].t \in Nat
      /\ \A c \in CpuIds : HasPending(cores'[c].core)
  BY <1>2 DEF AheadInv, AheadParts, ClockInv
<1>8. ClockInv'
  BY <1>1, <1>7 DEF AheadInv, AheadParts, ClockInv
<1>9. MarkInv'
  <2>1. HeldInv
    BY DEF AheadInv, AheadParts
  <2>2. ASSUME NEW c \in CpuIds
        PROVE  Reported(c)' >= Reported(c) /\ Reported(c) \in Nat /\ Reported(c)' \in Nat
    <3>1. Reported(c) = IF Some(p[c]) THEN cores[c].t + 1 ELSE cores[c].t
      BY <2>1, ReportedIs
    <3>2. Reported(c)' = IF Some(p'[c]) THEN cores'[c].t + 1 ELSE cores'[c].t
      <4>1. CASE Some(p'[c])
        <5>1. PICK l, n : l = cores'[c] /\ n = p'[c].seq
          OBVIOUS
        <5>2. p'[c] = NextOp(l, n)
          BY <1>5, <4>1, <5>1 DEF HeldInv
        <5> QED BY <4>1, <5>1, <5>2, NextOpFacts DEF Reported
      <4>2. CASE ~Some(p'[c])
        BY <4>2 DEF Reported
      <4> QED BY <4>1, <4>2
    <3>3. Some(p[c]) => Some(p'[c])
      BY <1>1, <1>3
    <3> QED BY <1>7, <3>1, <3>2, <3>3
  <2> QED BY <1>1, <2>2 DEF AheadInv, AheadParts, MarkInv
<1>10. ProbeInv'
  BY <1>1 DEF AheadInv, AheadParts, ProbeInv
<1> QED BY <1>4, <1>5, <1>6, <1>8, <1>9, <1>10 DEF AheadParts

\* Its four ways to return.
LEMMA ReturnAhead ==
    ASSUME NoTraps, AheadInv, IssuePending \/ RunMemory \/ RunFetch \/ RunEnd
    PROVE  AheadParts'
<1>1. /\ turn \in CpuIds /\ HasMembers(cores[turn]) /\ DOMAIN cores = CpuIds
      /\ HasPending(cores[turn].core) /\ cores[turn].t \in Nat
  BY CoresOK DEF AheadInv, AheadParts, ClockInv, IInv, TypeOK
<1>2. Running => ~S!Waiting(cores[turn].core)
  BY DEF AheadInv, AheadParts, RunInv, Running, Idle
<1>3. CASE IssuePending
  <2>1. /\ Producing /\ Produced(DataOp(cores[turn], seq)) /\ cores' = cores
        /\ S!Waiting(cores[turn].core)
    BY <1>3 DEF IssuePending
  <2>2. PICK k, n, op : k = cores[turn] /\ n = seq /\ op = DataOp(k, n)
    OBVIOUS
  <2>3. op = NextOp(k, n) /\ op.seq = n /\ OnBus(k) /\ k = cores'[turn]
    BY <2>1, <2>2, NextOpIs, NextOpFacts DEF OnBus
  <2> QED BY <1>1, <2>1, <2>2, <2>3, ProducedAhead
<1>4. CASE RunMemory
  <2>1. Producing /\ Produced(DataOp(cores'[turn], seq)) /\ DOMAIN cores' = CpuIds
    BY <1>1, <1>4 DEF RunMemory, Running
  <2>2. PICK ins : IsMemory(ins) /\ cores' = [cores EXCEPT ![turn] = DecodeCached(cores[turn], ins)]
    BY <1>4 DEF RunMemory
  <2>3. PICK k, n, op : k = cores'[turn] /\ n = seq /\ op = DataOp(k, n)
    OBVIOUS
  <2>4. k = DecodeCached(cores[turn], ins)
    BY <1>1, <2>2, <2>3
  <2>5. k.t = cores[turn].t /\ HasPending(k.core) /\ S!Waiting(k.core)
    BY <1>1, <2>2, <2>4, DecodeClock
  <2>6. op = NextOp(k, n) /\ op.seq = n /\ OnBus(k)
    BY <2>3, <2>5, NextOpIs, NextOpFacts DEF OnBus
  <2>7. \A c \in CpuIds \ {turn} : cores'[c] = cores[c]
    BY <1>1, <2>2
  <2> QED BY <2>1, <2>3, <2>5, <2>6, <2>7, ProducedAhead
<1>5. CASE RunFetch
  <2>1. /\ Producing /\ Produced(FetchOp(cores[turn], seq)) /\ cores' = cores
        /\ ~S!Waiting(cores[turn].core) /\ ~Cached(cores[turn])
    BY <1>2, <1>5 DEF RunFetch, Running
  <2>2. PICK k, n, op : k = cores[turn] /\ n = seq /\ op = FetchOp(k, n)
    OBVIOUS
  <2>3. op = NextOp(k, n) /\ op.seq = n /\ OnBus(k) /\ k = cores'[turn]
    BY <2>1, <2>2, NextOpIs, NextOpFacts DEF OnBus
  <2> QED BY <1>1, <2>1, <2>2, <2>3, ProducedAhead
<1>6. CASE RunEnd
  <2>1. Producing /\ Produced(Nothing) /\ cores' = cores /\ ~Some(Nothing)
    BY <1>6 DEF RunEnd, Some
  <2> QED BY <1>1, <2>1, ProducedAhead
<1> QED BY <1>3, <1>4, <1>5, <1>6

\* A cached instruction.
LEMMA HitAhead ==
    ASSUME NoTraps, AheadInv, RunHit
    PROVE  AheadParts'
<1>1. /\ UNCHANGED <<bus_free_time, trace, halt_on_fault, should_halt, call, progress_up_to,
                     progress_tracking_enabled, producer_last_enqueued_req_time, p, loop, turn>>
      /\ loop = "produce" /\ ~Some(p[turn]) /\ fuel > 0
  BY DEF RunHit, Running, Producing, arbVars, timingVars, traceVars, progressVars
<1>2. /\ turn \in CpuIds /\ HasMembers(cores[turn]) /\ DOMAIN cores = CpuIds
      /\ HasPending(cores[turn].core) /\ cores[turn].t \in Nat
      /\ ~S!Waiting(cores[turn].core)
  BY <1>1, CoresOK DEF AheadInv, AheadParts, ClockInv, IInv, TypeOK, RunInv, Idle
<1>3. PICK k, ins : /\ k = cores[turn] /\ ins = CachedInstr(k) /\ ~IsMemory(ins)
                    /\ cores' = [cores EXCEPT ![turn] = ExecuteCached(k, ins)]
  BY DEF RunHit
<1>4. PICK l : l = ExecuteCached(k, ins)
  OBVIOUS
<1>5. l.t \in Nat /\ l.t > k.t /\ HasPending(l.core) /\ ~S!Waiting(l.core)
  BY <1>2, <1>3, <1>4, HitClock
<1>6. cores'[turn] = l /\ \A c \in CpuIds \ {turn} : cores'[c] = cores[c]
  BY <1>2, <1>3, <1>4
<1>7. CallInv' /\ IsSeq(trace')
  BY <1>1 DEF AheadInv, AheadParts, CallInv
<1>8. HeldInv'
  BY <1>1, <1>6 DEF AheadInv, AheadParts, HeldInv
<1>9. RunInv'
  BY <1>1, <1>5, <1>6 DEF RunInv
<1>10. ClockInv'
  BY <1>1, <1>5, <1>6 DEF AheadInv, AheadParts, ClockInv
<1>11. MarkInv'
  <2>1. Reported(turn)' = l.t /\ Reported(turn) = k.t
    BY <1>1, <1>3, <1>6 DEF Reported
  <2>2. \A c \in CpuIds \ {turn} : Reported(c)' = Reported(c)
    BY <1>1, <1>6 DEF Reported
  <2>3. \A c \in CpuIds : progress_up_to[c] \in Nat
    BY DEF AheadInv, AheadParts, MarkInv
  <2> QED BY <1>1, <1>2, <1>3, <1>5, <2>1, <2>2, <2>3 DEF AheadInv, AheadParts, MarkInv
<1>12. ProbeInv'
  BY <1>1 DEF AheadInv, AheadParts, ProbeInv
<1> QED BY <1>7, <1>8, <1>9, <1>10, <1>11, <1>12 DEF AheadParts

\* The loop publishes the watermarks.
LEMMA PublishAhead ==
    ASSUME AheadInv, Publish
    PROVE  AheadParts'
<1>1. /\ UNCHANGED <<bus_free_time, trace, halt_on_fault, should_halt, call,
                     producer_last_enqueued_req_time, cores, p, turn, fuel>>
      /\ loop = "publish" /\ loop' \in {"call", "top"} /\ progress_tracking_enabled'
  BY DEF Publish, timingVars, traceVars
<1>2. CallInv' /\ IsSeq(trace')
  BY <1>1 DEF AheadInv, AheadParts, CallInv
<1>3. HeldInv'
  BY <1>1 DEF AheadInv, AheadParts, HeldInv
<1>4. RunInv' /\ ClockInv'
  BY <1>1 DEF AheadInv, AheadParts, RunInv, ClockInv
<1>5. MarkInv'
  <2>1. PICK a, b : a = Reported(0) /\ b = Reported(1)
    OBVIOUS
  <2>2. a \in Nat /\ b \in Nat
    <3>1. \A c \in CpuIds : cores[c].t \in Nat
      BY DEF AheadInv, AheadParts, ClockInv
    <3>2. \A c \in CpuIds : Reported(c) \in Nat
      BY <3>1, ReportedIs DEF AheadInv, AheadParts
    <3> QED BY <2>1, <3>2 DEF CpuIds
  <2>3. PICK w, x, y : /\ w = progress_up_to /\ x = Advance(w, 0, a) /\ y = Advance(x, 1, b)
    OBVIOUS
  <2>4. progress_up_to' = y
    BY <2>1, <2>3 DEF Publish
  <2>5. w \in [CpuIds -> Nat] /\ 0 \in CpuIds /\ 1 \in CpuIds
    BY <2>3 DEF AheadInv, AheadParts, MarkInv, CpuIds
  <2>6. /\ x \in [CpuIds -> Nat] /\ x[0] \in {a, w[0]}
        /\ \A d \in CpuIds \ {0} : x[d] = w[d]
    <3>1. w \in [CpuIds -> Nat] /\ x = Advance(w, 0, a) /\ a \in Nat /\ 0 \in CpuIds
      BY <2>2, <2>3, <2>5
    <3> HIDE DEF CpuIds
    <3> QED BY ONLY <3>1, AdvanceType
  <2>7. /\ y \in [CpuIds -> Nat] /\ y[1] \in {b, x[1]}
        /\ \A d \in CpuIds \ {1} : y[d] = x[d]
    <3>1. x \in [CpuIds -> Nat] /\ y = Advance(x, 1, b) /\ b \in Nat /\ 1 \in CpuIds
      BY <2>2, <2>3, <2>5, <2>6
    <3> HIDE DEF CpuIds
    <3> QED BY ONLY <3>1, AdvanceType
  <2>8. Reported(0)' = a /\ Reported(1)' = b
    BY <1>1, <2>1 DEF Reported
  <2>9. (w[0] # TickMax => w[0] <= a) /\ (w[1] # TickMax => w[1] <= b)
    BY <2>1, <2>3 DEF AheadInv, AheadParts, MarkInv, CpuIds
  <2>10. (y[0] # TickMax => y[0] <= a) /\ (y[1] # TickMax => y[1] <= b)
    BY <2>2, <2>5, <2>6, <2>7, <2>9
  <2>11. \A c \in CpuIds : progress_up_to'[c] # TickMax => progress_up_to'[c] <= Reported(c)'
    BY <2>4, <2>8, <2>10 DEF CpuIds
  <2> QED BY <1>1, <2>4, <2>7, <2>11 DEF MarkInv
<1>6. ProbeInv'
  BY <1>1 DEF AheadInv, AheadParts, ProbeInv
<1> QED BY <1>2, <1>3, <1>4, <1>5, <1>6 DEF AheadParts

\* The loop calls commit_batch.
LEMMA CallAhead ==
    ASSUME AheadInv, LoopCall
    PROVE  AheadParts'
<1>1. /\ UNCHANGED <<bus_free_time, trace, halt_on_fault, should_halt, progress_up_to,
                     progress_tracking_enabled, cores, p, turn, fuel>>
      /\ loop = "call" /\ loop' = "commit" /\ BatchCall(Fetches)
      /\ producer_last_enqueued_req_time' = [s \in Slots |-> None]
      /\ call' = [IdleCall EXCEPT !.phase = "enqueue", !.ops = Fetches]
  BY DEF LoopCall, BatchCall, timingVars, traceVars, progressVars
<1>2. PICK D, h, ops : D = Waiters /\ h = WaitersOp /\ ops = Fetches
  OBVIOUS
<1>3. OnePerCpu(D, h)'
  <2>1. TypeOK /\ OpsInv
    BY HeldAsks DEF AheadInv, AheadParts, IInv
  <2>2. D \in SUBSET CpuIds
    BY <1>2, <2>1, FetchesFacts
  <2>3. \A c \in D : h[c].cpu = c /\ h[c].producer = "Auto"
    BY <1>2, <2>1, FetchesFacts
  <2>4. ops \in Seq(Ops(D, h)) /\ BatchCall(ops)
    BY <1>1, <1>2, <2>1, FetchesFacts
  <2>5. \A i, j \in 1..Len(ops) : ops[i].cpu = ops[j].cpu => i = j
    BY <1>2, <2>1, FetchesFacts
  <2>6. \A c \in D : \E i \in 1..Len(ops) : ops[i] = h[c]
    BY <1>2, <2>1, FetchesFacts
  <2> QED BY <2>2, <2>3, <2>4, <2>5, <2>6, OneCall
<1>4. D = Waiters' /\ h = WaitersOp'
  BY <1>1, <1>2 DEF Waiters, WaitersOp
<1>5. CallInv' /\ IsSeq(trace')
  BY <1>1, <1>3, <1>4 DEF AheadInv, AheadParts, CallInv
<1>6. HeldInv'
  BY <1>1 DEF AheadInv, AheadParts, HeldInv
<1>7. RunInv'
  BY <1>1 DEF AheadInv, AheadParts, RunInv
<1>8. call'.committed = <<>> /\ Len(call'.committed) = 0
  BY <1>1, EmptyIsSeq DEF IdleCall
<1>9. ClockInv'
  BY <1>1, <1>8 DEF AheadInv, AheadParts, ClockInv
<1>10. MarkInv'
  BY <1>1 DEF AheadInv, AheadParts, MarkInv, Reported
<1>11. ProbeInv'
  BY <1>1 DEF ProbeInv, Slots
<1> QED BY <1>5, <1>6, <1>7, <1>9, <1>10, <1>11 DEF AheadParts

\* What holds before and after a step of commit_batch.
LEMMA InBatchAhead ==
    ASSUME AheadInv, loop = "commit", UNCHANGED loopVars, UNCHANGED progressVars,
           CallInv', IsSeq(trace'), bus_free_time' \in Nat,
           \A i \in 1..Len(call'.committed) : call'.committed[i].response.stall \in Nat,
           DOMAIN producer_last_enqueued_req_time' = Slots,
           producer_last_enqueued_req_time'[2] = producer_last_enqueued_req_time[2]
    PROVE  AheadParts'
<1>1. UNCHANGED <<cores, p, seq, loop, turn, fuel, progress_up_to, progress_tracking_enabled>>
  BY DEF loopVars, progressVars
<1>2. HeldInv' /\ RunInv'
  BY <1>1 DEF AheadInv, AheadParts, HeldInv, RunInv
<1>3. ClockInv'
  BY <1>1 DEF AheadInv, AheadParts, ClockInv
<1>4. MarkInv'
  BY <1>1 DEF AheadInv, AheadParts, MarkInv, Reported
<1>5. ProbeInv'
  BY <1>1 DEF AheadInv, AheadParts, ProbeInv
<1> QED BY <1>2, <1>3, <1>4, <1>5 DEF AheadParts

\* Steps of commit_batch that execute nothing: they leave the log, the bus and the
\* results alone.
LEMMA BatchQuiet ==
    ASSUME AheadInv, loop = "commit", BatchEnqueue \/ BatchEnqueued \/ BatchReturn,
           UNCHANGED loopVars
    PROVE  /\ AheadParts'
           /\ UNCHANGED <<timingVars, storeVars, trace>>
           /\ call'.committed = call.committed
<1>1. /\ UNCHANGED <<cores, p, loop>> /\ UNCHANGED <<timingVars, storeVars, progressVars>>
      /\ ~should_halt /\ ~halt_on_fault /\ IsSeq(trace)
      /\ DOMAIN producer_last_enqueued_req_time = Slots
      /\ \A i \in 1..Len(call.committed) : call.committed[i].response.stall \in Nat
      /\ bus_free_time \in Nat
  BY DEF loopVars, AheadInv, AheadParts, CallInv, BatchEnqueue, BatchEnqueued, BatchReturn, ProbeInv,
         ClockInv
<1>2. PICK D, h : D = Waiters /\ h = WaitersOp /\ OnePerCpu(D, h)
  BY DEF AheadInv, AheadParts, CallInv
<1>3. D = Waiters' /\ h = WaitersOp'
  BY <1>1, <1>2 DEF Waiters, WaitersOp
<1>4. CASE BatchEnqueue
  <2>1. OnePerCpu(D, h)' /\ UNCHANGED traceVars
    BY <1>2, <1>4, OneEnqueue
  <2>2. call.phase = "enqueue" /\ call'.phase = "enqueue"
    BY <1>2, <1>4 DEF BatchEnqueue, OnePerCpu, BatchOf
  <2>3. call.committed = <<>> /\ call'.committed = <<>>
    BY <1>2, <2>1, <2>2 DEF OnePerCpu, Accepting
  <2>4. PICK op : op = call.ops[call.next]
    OBVIOUS
  <2>5. producer_slot(op) \in {0, 1}
    <3>1. op \in Ops(D, h)
      BY <1>2, <1>4, <2>4 DEF BatchEnqueue, OnePerCpu, BatchOf
    <3>2. producer_slot(op) \in D
      BY <1>2, <3>1, OpOfBatch DEF OnePerCpu
    <3> QED BY <1>2, <3>2 DEF OnePerCpu, CpuIds
  <2>6. \/ producer_last_enqueued_req_time' = producer_last_enqueued_req_time
        \/ producer_last_enqueued_req_time' =
             [producer_last_enqueued_req_time EXCEPT ![producer_slot(op)] = op.req]
    BY <1>4, <2>4 DEF BatchEnqueue
  <2>7. /\ DOMAIN producer_last_enqueued_req_time' = Slots
        /\ producer_last_enqueued_req_time'[2] = producer_last_enqueued_req_time[2]
    BY <1>1, <2>5, <2>6 DEF Slots
  <2>8. CallInv'
    BY <1>1, <1>3, <2>1 DEF CallInv, traceVars
  <2>9. AheadParts'
    BY <1>1, <2>1, <2>3, <2>7, <2>8, InBatchAhead DEF traceVars, timingVars
  <2> QED BY <1>1, <2>1, <2>3, <2>9 DEF traceVars
<1>5. CASE BatchEnqueued
  <2>1. OnePerCpu(D, h)' /\ UNCHANGED <<traceVars, producer_last_enqueued_req_time>>
    BY <1>1, <1>2, <1>5, OneEnqueued DEF BatchEnqueued
  <2>2. call'.committed = call.committed
    BY <1>2, <1>5 DEF BatchEnqueued, OnePerCpu, BatchOf
  <2>3. CallInv'
    BY <1>1, <1>3, <2>1 DEF CallInv, traceVars
  <2>4. AheadParts'
    BY <1>1, <2>1, <2>2, <2>3, InBatchAhead DEF traceVars, timingVars
  <2> QED BY <1>1, <2>1, <2>2, <2>4 DEF traceVars
<1>6. CASE BatchReturn
  <2>1. /\ OnePerCpu(D, h)' /\ call'.committed = call.committed
        /\ UNCHANGED <<traceVars, producer_last_enqueued_req_time>>
    BY <1>2, <1>6, OneReturn DEF BatchReturn
  <2>2. CallInv'
    BY <1>1, <1>3, <2>1 DEF CallInv, traceVars
  <2>3. AheadParts'
    BY <1>1, <2>1, <2>2, InBatchAhead DEF traceVars, timingVars
  <2> QED BY <1>1, <2>1, <2>3 DEF traceVars
<1> QED BY <1>4, <1>5, <1>6

\* The pending operation w is the one of CPU c, and the iteration executes it
Serving(c, w) ==
    /\ c \in CpuIds /\ Some(p[c])
    /\ call.phase = "commit" /\ w \in Committable /\ call.pending[w].op = p[c]
    /\ w = pick_next(PendingOps, Committable)
    /\ execute_commit(p[c], HadTie(w))

\* The results that the iteration leaves.
LEMMA OneMoreResult ==
    ASSUME NEW c, NEW e, e.op.cpu = c, ResultsFor(c) = {}, UNCHANGED cores,
           Len(call.committed) \in Nat, Len(call'.committed) = Len(call.committed) + 1,
           \A i \in 1..Len(call.committed) : call'.committed[i] = call.committed[i],
           call'.committed[Len(call.committed) + 1] = e
    PROVE  /\ Applied(c)' = apply_ifetch_and_step(cores[c], e.response)
           /\ \A d : d # c => Applied(d)' = Applied(d)
<1>1. \A i \in 1..Len(call'.committed) : i \in 1..Len(call.committed) \/ i = Len(call.committed) + 1
  OBVIOUS
<1>2. \A i \in 1..Len(call.committed) : i \in 1..Len(call'.committed)
  OBVIOUS
<1>3. ResultsFor(c)' = {Len(call.committed) + 1}
  <2>1. \A i \in 1..Len(call.committed) : call'.committed[i].op.cpu # c
    BY DEF ResultsFor
  <2>2. Len(call.committed) + 1 \in 1..Len(call'.committed)
    OBVIOUS
  <2> QED BY <1>1, <2>1, <2>2 DEF ResultsFor
<1>4. Applied(c)' = apply_ifetch_and_step(cores[c], e.response)
  <2> DEFINE i == CHOOSE i \in ResultsFor(c)' : TRUE
  <2>1. i = Len(call.committed) + 1
    BY <1>3
  <2>2. call'.committed[i].response = e.response
    BY <2>1
  <2>3. Applied(c)' = apply_ifetch_and_step(cores'[c], call'.committed[i].response)
    BY <1>3 DEF Applied
  <2> HIDE DEF i
  <2> QED BY <2>2, <2>3
<1>5. ASSUME NEW d, d # c PROVE Applied(d)' = Applied(d)
  <2>1. ResultsFor(d)' = ResultsFor(d)
    BY <1>1, <1>2, <1>5 DEF ResultsFor
  <2>2. CASE ResultsFor(d) = {}
    BY <2>1, <2>2 DEF Applied
  <2>3. CASE ResultsFor(d) # {}
    <3> DEFINE i == CHOOSE k \in ResultsFor(d) : TRUE
               j == CHOOSE k \in ResultsFor(d)' : TRUE
    <3>1. i \in ResultsFor(d) /\ j = i
      BY <2>1, <2>3
    <3>2. i \in 1..Len(call.committed)
      BY <3>1 DEF ResultsFor
    <3>3. call'.committed[j] = call.committed[i]
      BY <3>1, <3>2
    <3>4. /\ Applied(d) = apply_ifetch_and_step(cores[d], call.committed[i].response)
          /\ Applied(d)' = apply_ifetch_and_step(cores'[d], call'.committed[j].response)
      BY <2>1, <2>3 DEF Applied
    <3> HIDE DEF i, j
    <3> QED BY <3>3, <3>4
  <2> QED BY <2>2, <2>3
<1> QED BY <1>4, <1>5

\* An iteration of the second loop of commit_batch.
LEMMA CommitAhead ==
    ASSUME AheadInv, loop = "commit", BatchCommit, UNCHANGED loopVars
    PROVE  /\ AheadParts'
           /\ \E c, w : /\ Serving(c, w) /\ ResultsFor(c) = {}
                        /\ Applied(c)' = apply_ifetch_and_step(cores[c], Response(p[c], HadTie(w)))
                        /\ \A d : d # c => Applied(d)' = Applied(d)
<1>1. /\ UNCHANGED <<cores, p, loop>> /\ UNCHANGED progressVars
      /\ UNCHANGED producer_last_enqueued_req_time
      /\ ~halt_on_fault /\ ~should_halt /\ IsSeq(trace) /\ bus_free_time \in Nat
      /\ DOMAIN producer_last_enqueued_req_time = Slots
      /\ \A i \in 1..Len(call.committed) : call.committed[i].response.stall \in Nat
  BY DEF loopVars, BatchCommit, AheadInv, AheadParts, CallInv, ClockInv, ProbeInv
<1>2. PICK D, g : D = Waiters /\ g = WaitersOp /\ OnePerCpu(D, g)
  BY DEF AheadInv, AheadParts, CallInv
<1>3. PICK w \in Committable :
        /\ w = pick_next(PendingOps, Committable)
        /\ execute_commit(call.pending[w].op, HadTie(w))
        /\ Serves(w, [index |-> call.pending[w].index, op |-> call.pending[w].op,
                      response |-> Response(call.pending[w].op, HadTie(w))])
  BY DEF BatchCommit, Serves
<1>4. PICK tie : tie = HadTie(w)
  OBVIOUS
<1>5. PICK e : e = [index |-> call.pending[w].index, op |-> call.pending[w].op,
                    response |-> Response(call.pending[w].op, tie)]
  OBVIOUS
<1>6. /\ e.op = call.pending[w].op /\ e.response = Response(e.op, tie)
      /\ execute_commit(e.op, tie) /\ Serves(w, e) /\ w \in 1..Len(call.pending)
      /\ call.phase = "commit" /\ tie \in BOOLEAN
  BY <1>3, <1>4, <1>5 DEF Committable, BatchCommit, HadTie
<1>7. /\ OnePerCpu(D, g)'
      /\ e.op.cpu \in D /\ e.op = g[e.op.cpu]
      /\ Len(call.committed) \in Nat /\ Len(call'.committed) = Len(call.committed) + 1
      /\ \A i \in 1..Len(call.committed) : call'.committed[i] = call.committed[i]
      /\ call'.committed[Len(call.committed) + 1] = e
  BY <1>2, <1>6, OneCommit
<1>8. D = Waiters' /\ g = WaitersOp'
  BY <1>1, <1>2 DEF Waiters, WaitersOp
<1>9. PICK c : c = e.op.cpu
  OBVIOUS
<1>10. c \in CpuIds /\ Some(p[c]) /\ e.op = p[c]
  BY <1>2, <1>7, <1>9 DEF Waiters, WaitersOp
<1>11. e.op.kind \in Kinds /\ e.op.req \in Nat
  <2>1. PICK k, n : k = cores[c] /\ n = p[c].seq
    OBVIOUS
  <2>2. e.op = NextOp(k, n) /\ k.t \in Nat
    BY <1>10, <2>1 DEF AheadInv, AheadParts, HeldInv, ClockInv
  <2> QED BY <2>2, NextOpFacts
<1>12. /\ bus_free_time' \in Nat /\ ~halt_on_fault' /\ ~should_halt'
       /\ \E line : line.op = e.op /\ trace' = Append(trace, line)
  BY <1>1, <1>6, <1>11, ExecuteFacts
<1>13. IsSeq(trace')
  BY <1>1, <1>12, AppendAny
<1>14. CallInv'
  BY <1>1, <1>7, <1>8, <1>12 DEF AheadInv, AheadParts, CallInv
<1>15. e.response.stall \in Nat
  BY <1>1, <1>6, <1>11, Times
<1>16. \A i \in 1..Len(call'.committed) : call'.committed[i].response.stall \in Nat
  <2>1. \A i \in 1..Len(call'.committed) : i \in 1..Len(call.committed) \/ i = Len(call.committed) + 1
    BY <1>7
  <2> QED BY <1>1, <1>7, <1>15, <2>1
<1>17. AheadParts'
  BY <1>1, <1>12, <1>13, <1>14, <1>16, InBatchAhead
<1>18. ResultsFor(c) = {}
  <2>1. Answering(D, g)
    BY <1>2, <1>6 DEF OnePerCpu
  <2> QED BY <1>6, <1>9, <2>1 DEF ResultsFor, Answering
<1>19. /\ Applied(c)' = apply_ifetch_and_step(cores[c], e.response)
       /\ \A d : d # c => Applied(d)' = Applied(d)
  BY <1>1, <1>7, <1>9, <1>18, OneMoreResult
<1>20. Serving(c, w)
  BY <1>3, <1>4, <1>6, <1>10 DEF Serving
<1>21. e.response = Response(p[c], HadTie(w))
  BY <1>4, <1>6, <1>10
<1> QED BY <1>17, <1>18, <1>19, <1>20, <1>21

\* A core with its result has its members and is later than before.
LEMMA AppliedClock ==
    ASSUME AheadInv, NEW c \in CpuIds
    PROVE  /\ Applied(c).t \in Nat /\ HasPending(Applied(c).core)
           /\ IF ResultsFor(c) = {} THEN Applied(c) = cores[c] ELSE Applied(c).t > cores[c].t
<1>1. HasMembers(cores[c]) /\ cores[c].t \in Nat /\ HasPending(cores[c].core)
  BY CoresOK DEF AheadInv, AheadParts, ClockInv
<1>2. CASE ResultsFor(c) = {}
  BY <1>1, <1>2 DEF Applied
<1>3. CASE ResultsFor(c) # {}
  <2> DEFINE i == CHOOSE i \in ResultsFor(c) : TRUE
  <2>1. i \in 1..Len(call.committed)
    BY <1>3 DEF ResultsFor
  <2>2. Applied(c) = apply_ifetch_and_step(cores[c], call.committed[i].response)
    BY <1>3 DEF Applied
  <2> HIDE DEF i
  <2>3. PICK r : r = call.committed[i].response
    OBVIOUS
  <2>4. r.stall \in Nat
    BY <2>1, <2>3 DEF AheadInv, AheadParts, ClockInv
  <2> QED BY <1>1, <1>3, <2>2, <2>3, <2>4, AnswerClock
<1> QED BY <1>2, <1>3

\* The loop applies the results.
LEMMA ApplyAhead ==
    ASSUME AheadInv, LoopApply
    PROVE  AheadParts'
<1>1. /\ UNCHANGED <<bus_free_time, trace, halt_on_fault, should_halt, progress_up_to,
                     progress_tracking_enabled, producer_last_enqueued_req_time, turn, fuel>>
      /\ loop = "commit" /\ loop' = "top" /\ call' = IdleCall
      /\ cores' = [c \in CpuIds |-> Applied(c)]
      /\ p' = [c \in CpuIds |-> IF ResultsFor(c) # {} THEN Nothing ELSE p[c]]
  BY DEF LoopApply, BatchFinish, timingVars, traceVars, progressVars
<1>2. CallInv' /\ IsSeq(trace')
  BY <1>1 DEF AheadInv, AheadParts, CallInv
<1>3. \A c \in CpuIds : cores'[c].t \in Nat /\ HasPending(cores'[c].core)
  BY <1>1, AppliedClock
<1>4. ASSUME NEW c \in CpuIds, ResultsFor(c) = {} PROVE cores'[c] = cores[c] /\ p'[c] = p[c]
  BY <1>1, <1>4 DEF Applied
<1>5. ASSUME NEW c \in CpuIds, ResultsFor(c) # {}
      PROVE  cores'[c].t > cores[c].t /\ ~Some(p'[c]) /\ Some(p[c])
  BY <1>1, <1>5, AppliedClock, ResultsAreAwaited DEF AheadInv, Some
<1>6. HeldInv'
  <2> SUFFICES ASSUME NEW c \in CpuIds, Some(p'[c])
               PROVE  OnBus(cores'[c]) /\ p'[c] = NextOp(cores'[c], p'[c].seq)
    BY DEF HeldInv
  <2>1. cores'[c] = cores[c] /\ p'[c] = p[c]
    BY <1>4, <1>5
  <2>2. OnBus(cores[c]) /\ p[c] = NextOp(cores[c], p[c].seq)
    BY <2>1 DEF AheadInv, AheadParts, HeldInv
  <2> QED BY <2>1, <2>2
<1>7. RunInv'
  BY <1>1 DEF AheadInv, IInv, LoopInv, RunInv
<1>8. ClockInv'
  <2>1. call'.committed = <<>> /\ Len(call'.committed) = 0
    BY <1>1, EmptyIsSeq DEF IdleCall
  <2> QED BY <1>1, <1>3, <2>1 DEF AheadInv, AheadParts, ClockInv
<1>9. MarkInv'
  <2>1. ASSUME NEW c \in CpuIds
        PROVE  Reported(c)' >= Reported(c) /\ Reported(c) \in Nat /\ Reported(c)' \in Nat
    <3>1. Reported(c) = IF Some(p[c]) THEN cores[c].t + 1 ELSE cores[c].t
      BY ReportedIs DEF AheadInv, AheadParts
    <3>2. cores[c].t \in Nat
      BY DEF AheadInv, AheadParts, ClockInv
    <3>3. CASE ResultsFor(c) = {}
      <4>1. Reported(c)' = Reported(c)
        BY <1>4, <3>3 DEF Reported
      <4> QED BY <3>1, <3>2, <4>1
    <3>4. CASE ResultsFor(c) # {}
      <4>1. cores'[c].t > cores[c].t /\ ~Some(p'[c]) /\ Some(p[c]) /\ cores'[c].t \in Nat
        BY <1>3, <1>5, <3>4
      <4>2. Reported(c)' = cores'[c].t
        BY <4>1 DEF Reported
      <4>3. Reported(c) = cores[c].t + 1
        BY <3>1, <4>1
      <4> QED BY <3>2, <4>1, <4>2, <4>3
    <3> QED BY <3>3, <3>4
  <2> QED BY <1>1, <2>1 DEF AheadInv, AheadParts, MarkInv
<1>10. ProbeInv'
  BY <1>1 DEF AheadInv, AheadParts, ProbeInv
<1> QED BY <1>2, <1>6, <1>7, <1>8, <1>9, <1>10 DEF AheadParts

\* The operation of a probe, as commit_dma passes it on
DmaOp(kind, req, data) ==
    [cpu |-> DmaId, req |-> req, seq |-> seq, producer |-> "Dma", kind |-> kind,
     addr |-> ProbeAddr, size |-> 4, data |-> data, fill |-> 0, token |-> 0]

\* The probe is accepted and executes op
Probes(op) ==
    /\ execute_commit(op, FALSE)
    /\ producer_last_enqueued_req_time' = [producer_last_enqueued_req_time EXCEPT ![2] = op.req]
    /\ \/ /\ loop = "probe write" /\ loop' = "probe read"
          /\ op = DmaOp("MmioWrite", 0, 1) /\ op.req = 0 /\ op.kind = "MmioWrite"
       \/ /\ loop = "probe read" /\ loop' = "done"
          /\ op = DmaOp("MmioRead", 1, 0) /\ op.req = 1 /\ op.kind = "MmioRead"
    /\ UNCHANGED progressVars
    /\ UNCHANGED <<call, cores, p, turn, fuel>>

\* The probes are accepted in order.
LEMMA ProbeSteps ==
    ASSUME AheadInv, Probe
    PROVE  \E op : Probes(op)
<1>1. UNCHANGED <<cores, p, turn, fuel>>
  BY DEF Probe
<1>2. \A kind, req, data :
        [ProbeOp(kind, req, data) EXCEPT !.cpu = DmaId, !.producer = "Dma"] = DmaOp(kind, req, data)
  <2> SUFFICES ASSUME NEW kind, NEW req, NEW data
               PROVE  [ProbeOp(kind, req, data) EXCEPT !.cpu = DmaId, !.producer = "Dma"] =
                        DmaOp(kind, req, data)
    OBVIOUS
  <2> DEFINE n == seq
             zero == 0
             four == 4
             auto == "Auto"
             dma == "Dma"
             r == [cpu |-> zero, req |-> req, seq |-> n, producer |-> auto, kind |-> kind,
                   addr |-> ProbeAddr, size |-> four, data |-> data, fill |-> zero, token |-> zero]
             q == [cpu |-> DmaId, req |-> req, seq |-> n, producer |-> dma, kind |-> kind,
                   addr |-> ProbeAddr, size |-> four, data |-> data, fill |-> zero, token |-> zero]
  <2>1. ProbeOp(kind, req, data) = r /\ DmaOp(kind, req, data) = q
    BY DEF ProbeOp, DmaOp
  <2> HIDE DEF n, zero, four, auto, dma
  <2>2. [r EXCEPT !.cpu = DmaId, !.producer = dma] = q
    <3> DEFINE s == [cpu |-> DmaId, req |-> req, seq |-> n, producer |-> auto, kind |-> kind,
                     addr |-> ProbeAddr, size |-> four, data |-> data, fill |-> zero, token |-> zero]
    <3>1. [r EXCEPT !.cpu = DmaId] = s
      OBVIOUS
    <3>2. [s EXCEPT !.producer = dma] = q
      OBVIOUS
    <3>3. [r EXCEPT !.cpu = DmaId, !.producer = dma] = [[r EXCEPT !.cpu = DmaId] EXCEPT !.producer = dma]
      OBVIOUS
    <3> HIDE DEF r, s, q
    <3> QED BY <3>1, <3>2, <3>3
  <2>3. dma = "Dma"
    BY DEF dma
  <2> HIDE DEF r, q
  <2> QED BY <2>1, <2>2, <2>3
<1>3. \A kind, req, data : /\ producer_slot(DmaOp(kind, req, data)) = 2
                           /\ DmaOp(kind, req, data).req = req /\ DmaOp(kind, req, data).kind = kind
  BY DEF DmaOp, producer_slot, DmaId
<1>4. CASE loop = "probe write" /\ commit_dma(ProbeOp("MmioWrite", 0, 1)) /\ loop' = "probe read"
  <2>1. PICK op : op = DmaOp("MmioWrite", 0, 1)
    OBVIOUS
  <2>2. /\ producer_slot(op) = 2 /\ op.req = 0 /\ op.kind = "MmioWrite"
    BY <1>3, <2>1
  <2>3. commit(op)
    BY <1>2, <1>4, <2>1 DEF commit_dma
  <2>4. EnqueueOk(op)
    <3>1. producer_last_enqueued_req_time[2] = None
      BY <1>4 DEF AheadInv, AheadParts, ProbeInv
    <3> QED BY <2>2, <3>1 DEF EnqueueOk
  <2>5. /\ execute_commit(op, FALSE)
        /\ producer_last_enqueued_req_time' = [producer_last_enqueued_req_time EXCEPT ![2] = op.req]
        /\ UNCHANGED progressVars /\ UNCHANGED call
    BY <2>2, <2>3, <2>4 DEF commit
  <2>6. Probes(op)
    BY <1>1, <1>4, <2>1, <2>2, <2>5 DEF Probes
  <2> QED BY <2>6
<1>5. CASE loop = "probe read" /\ commit_dma(ProbeOp("MmioRead", 1, 0)) /\ loop' = "done"
  <2>1. PICK op : op = DmaOp("MmioRead", 1, 0)
    OBVIOUS
  <2>2. /\ producer_slot(op) = 2 /\ op.req = 1 /\ op.kind = "MmioRead"
    BY <1>3, <2>1
  <2>3. commit(op)
    BY <1>2, <1>5, <2>1 DEF commit_dma
  <2>4. EnqueueOk(op)
    <3>1. producer_last_enqueued_req_time[2] = 0
      BY <1>5 DEF AheadInv, AheadParts, ProbeInv
    <3> QED BY <2>2, <3>1 DEF EnqueueOk
  <2>5. /\ execute_commit(op, FALSE)
        /\ producer_last_enqueued_req_time' = [producer_last_enqueued_req_time EXCEPT ![2] = op.req]
        /\ UNCHANGED progressVars /\ UNCHANGED call
    BY <2>2, <2>3, <2>4 DEF commit
  <2>6. Probes(op)
    BY <1>1, <1>5, <2>1, <2>2, <2>5 DEF Probes
  <2> QED BY <2>6
<1> QED BY <1>4, <1>5 DEF Probe

\* The DMA probes.
LEMMA ProbeAhead ==
    ASSUME AheadInv, Probe
    PROVE  AheadParts'
<1>0. PICK op : Probes(op)
  BY ProbeSteps
<1>1. /\ execute_commit(op, FALSE)
      /\ \/ loop = "probe write" /\ loop' = "probe read" /\ op.req = 0
         \/ loop = "probe read" /\ loop' = "done" /\ op.req = 1
      /\ op.kind \in Kinds /\ op.req \in Nat
      /\ UNCHANGED progressVars
      /\ UNCHANGED <<call, cores, p, turn, fuel>>
  <2>1. execute_commit(op, FALSE) /\ UNCHANGED progressVars /\ UNCHANGED <<call, cores, p, turn, fuel>>
    BY <1>0 DEF Probes
  <2>2. \/ loop = "probe write" /\ loop' = "probe read" /\ op.req = 0 /\ op.kind = "MmioWrite"
        \/ loop = "probe read" /\ loop' = "done" /\ op.req = 1 /\ op.kind = "MmioRead"
    BY <1>0 DEF Probes
  <2>3. op.kind \in Kinds
    BY <2>2, Zenon DEF Kinds
  <2>4. op.req \in Nat
    <3>1. op.req = 0 \/ op.req = 1
      BY <2>2, Zenon
    <3> QED BY <3>1
  <2> QED BY <2>1, <2>2, <2>3, <2>4, Zenon
<1>2. /\ UNCHANGED <<progress_up_to, progress_tracking_enabled, call, cores, p, turn, fuel>>
      /\ ~halt_on_fault /\ ~should_halt /\ IsSeq(trace) /\ bus_free_time \in Nat
      /\ call = IdleCall /\ DOMAIN producer_last_enqueued_req_time = Slots
      /\ Executed >= MaxSteps
  BY <1>1 DEF progressVars, AheadInv, AheadParts, CallInv, ClockInv, ProbeInv
<1>3. /\ bus_free_time' \in Nat /\ ~halt_on_fault' /\ ~should_halt'
      /\ \E line : line.op = op /\ trace' = Append(trace, line)
  BY <1>1, <1>2, ExecuteFacts
<1>4. IsSeq(trace')
  BY <1>2, <1>3, AppendAny
<1>5. CallInv'
  BY <1>1, <1>2, <1>3 DEF CallInv
<1>6. HeldInv' /\ RunInv'
  BY <1>2 DEF AheadInv, AheadParts, HeldInv, RunInv
<1>7. ClockInv'
  BY <1>2, <1>3 DEF AheadInv, AheadParts, ClockInv
<1>8. MarkInv'
  BY <1>1, <1>2 DEF AheadInv, AheadParts, MarkInv, Reported
<1>9. ProbeInv'
  <2>1. Executed' = Executed
    BY <1>2 DEF Executed
  <2>2. DOMAIN producer_last_enqueued_req_time' = Slots /\ producer_last_enqueued_req_time'[2] = op.req
    <3>1. producer_last_enqueued_req_time' = [producer_last_enqueued_req_time EXCEPT ![2] = op.req]
      BY <1>0 DEF Probes
    <3> QED BY <1>2, <3>1 DEF Slots
  <2>3. loop' \in {"probe write", "probe read"} => (Executed >= MaxSteps)'
    BY <1>2, <2>1
  <2> QED BY <1>1, <2>2, <2>3 DEF ProbeInv
<1> QED BY <1>4, <1>5, <1>6, <1>7, <1>8, <1>9 DEF AheadParts

\* A step that changes nothing.
LEMMA IdleAhead ==
    ASSUME AheadInv, UNCHANGED vars
    PROVE  AheadParts'
<1>1. UNCHANGED <<cores, p, loop, turn, fuel, trace, halt_on_fault, should_halt, call, bus_free_time,
                  progress_up_to, progress_tracking_enabled, producer_last_enqueued_req_time>>
  BY DEF vars, loopVars, arbVars, timingVars, traceVars, progressVars
<1>2. Waiters' = Waiters /\ WaitersOp' = WaitersOp
  BY <1>1 DEF Waiters, WaitersOp
<1>3. CallInv'
  BY <1>1, <1>2, SMTT(40) DEF AheadInv, AheadParts, CallInv, OnePerCpu, BatchOf, Accepting, Answering
<1>4. IsSeq(trace') /\ HeldInv' /\ RunInv'
  BY <1>1 DEF AheadInv, AheadParts, HeldInv, RunInv
<1>5. ClockInv'
  BY <1>1 DEF AheadInv, AheadParts, ClockInv
<1>6. MarkInv'
  BY <1>1 DEF AheadInv, AheadParts, MarkInv, Reported
<1>7. ProbeInv'
  BY <1>1 DEF AheadInv, AheadParts, ProbeInv, Executed
<1> QED BY <1>3, <1>4, <1>5, <1>6, <1>7 DEF AheadParts

\* Where the program starts.
LEMMA InitAhead ==
    ASSUME Init
    PROVE  AheadInv
<1>1. /\ cores = [c \in CpuIds |-> NewCore(c, 0, ResetSp)]
      /\ p = [c \in CpuIds |-> Nothing] /\ loop = "top" /\ fuel = Idle /\ call = IdleCall
      /\ trace = <<>> /\ halt_on_fault = FALSE /\ should_halt = FALSE /\ bus_free_time = 0
      /\ progress_up_to = [c \in CpuIds |-> TickMax]
      /\ producer_last_enqueued_req_time = [s \in Slots |-> None]
  BY DEF Init, ArbInitWith
<1>2. CallInv /\ IsSeq(trace)
  BY <1>1, EmptyIsSeq DEF CallInv
<1>3. HeldInv /\ RunInv
  BY <1>1 DEF HeldInv, RunInv, Some
<1>4. ClockInv
  <2>1. call.committed = <<>> /\ Len(call.committed) = 0
    BY <1>1, EmptyIsSeq DEF IdleCall
  <2>2. ASSUME NEW c \in CpuIds PROVE cores[c].t \in Nat /\ HasPending(cores[c].core)
    <3> DEFINE core == S!reset(0, ResetSp)
               icache == NewCache
    <3>1. cores[c] = [id |-> c, core |-> core, t |-> 0, executed |-> 0, icache |-> icache]
      BY <1>1 DEF NewCore
    <3>2. HasPending(core)
      BY DEF HasPending, S!reset
    <3> HIDE DEF core, icache
    <3> QED BY <3>1, <3>2
  <2> QED BY <1>1, <2>1, <2>2 DEF ClockInv
<1>5. MarkInv
  BY <1>1, TickMaxAssumption DEF MarkInv
<1>6. ProbeInv
  BY <1>1 DEF ProbeInv, Slots
<1> QED BY <1>2, <1>3, <1>4, <1>5, <1>6, InitIInv DEF AheadInv, AheadParts

\* Every step keeps the invariant.
LEMMA NextAhead ==
    ASSUME NoTraps, AheadInv, [Next]_vars
    PROVE  AheadInv'
<1>1. IInv'
  BY NextIInv DEF AheadInv
<1>2. InBatch => AheadParts'
  BY BatchQuiet, CommitAhead DEF InBatch
<1>3. AheadParts'
  BY <1>1, <1>2, QuietAhead, ReturnAhead, HitAhead, PublishAhead, CallAhead, ApplyAhead,
     ProbeAhead, IdleAhead DEF Next, Terminated
<1> QED BY <1>1, <1>3 DEF AheadInv

-----------------------------------------------------------------------------
(* Every step is a step of AtomicCores, or one that it does not see *)

\* The cores as AtomicCores sees them
AtomicView == [c \in CpuIds |-> Applied(c)]

\* What AtomicCores does not see.
LEMMA Invisible ==
    ASSUME UNCHANGED <<timingVars, storeVars, trace>>,
           \A c \in CpuIds : Applied(c)' = Applied(c)
    PROVE  UNCHANGED Atomic!abstractVars
<1>1. [c \in CpuIds |-> Applied(c)]' = [c \in CpuIds |-> Applied(c)]
  OBVIOUS
<1>2. Unnumbered' = Unnumbered
  BY DEF Unnumbered
<1> QED BY <1>1, <1>2 DEF Atomic!abstractVars, Atomic!timingVars, Atomic!storeVars, timingVars,
        storeVars

\* Steps that neither execute nor answer anything.
LEMMA QuietInvisible ==
    ASSUME UNCHANGED <<timingVars, storeVars, trace, cores>>, call'.committed = call.committed
    PROVE  UNCHANGED Atomic!abstractVars
BY Invisible DEF Applied, ResultsFor

\* Outside of commit_batch the cores are what they are.
LEMMA NoResultsNext ==
    ASSUME CallInv', loop' # "commit"
    PROVE  \A c : Applied(c)' = cores'[c]
<1>1. call' = IdleCall /\ call'.committed = <<>>
  BY DEF CallInv, IdleCall
<1>2. Len(call'.committed) = 0
  BY <1>1, EmptyIsSeq
<1>3. \A c : ResultsFor(c)' = {}
  BY <1>2 DEF ResultsFor
<1> QED BY <1>3 DEF Applied

\* The loop delivers the answers later than AtomicCores does.
LEMMA ApplyInvisible ==
    ASSUME AheadInv', LoopApply
    PROVE  UNCHANGED Atomic!abstractVars
<1>1. /\ UNCHANGED <<timingVars, storeVars, trace>> /\ loop' = "top"
      /\ cores' = [c \in CpuIds |-> Applied(c)]
  BY DEF LoopApply, BatchFinish, traceVars
<1>2. \A c : Applied(c)' = cores'[c]
  BY <1>1, NoResultsNext DEF AheadInv, AheadParts
<1>3. \A c \in CpuIds : Applied(c)' = Applied(c)
  BY <1>1, <1>2
<1> QED BY <1>1, <1>3, Invisible

\* Run-ahead is a local step.
LEMMA RunIsLocal ==
    ASSUME AheadInv, AheadInv', RunHit \/ RunMemory
    PROVE  Atomic!Next
<1>1. /\ UNCHANGED <<timingVars, storeVars, trace>> /\ loop = "produce" /\ loop' # "commit"
      /\ fuel > 0 /\ Cached(cores[turn])
  BY DEF RunHit, RunMemory, Running, Producing, Produced, NextTurn, arbVars, traceVars
<1>2. turn \in CpuIds /\ DOMAIN cores = CpuIds
  BY DEF AheadInv, IInv, TypeOK
<1>3. \A c : Applied(c) = cores[c] /\ Applied(c)' = cores'[c]
  BY <1>1, NoResults, NoResultsNext DEF AheadInv, AheadParts
<1>4. ~OnBus(cores[turn])
  BY <1>1 DEF AheadInv, AheadParts, RunInv, Idle, OnBus
<1>5. PICK k, ins, l : /\ k = cores[turn] /\ ins = CachedInstr(k)
                       /\ l = IF IsMemory(ins) THEN DecodeCached(k, ins) ELSE ExecuteCached(k, ins)
  OBVIOUS
<1>6. cores' = [cores EXCEPT ![turn] = l]
  BY <1>5 DEF RunHit, RunMemory
<1>7. /\ ~Atomic!AtBus(k) /\ ins = Atomic!CachedInstr(k)
      /\ l = IF Atomic!IsMemory(ins) THEN Atomic!DecodeCached(k, ins)
                                     ELSE Atomic!ExecuteCached(k, ins)
  BY <1>4, <1>5, SameNextOp, SameCachedInstr, SameLocal
<1>8. AtomicView[turn] = k /\ AtomicView' = [AtomicView EXCEPT ![turn] = l]
  <2>1. \A c \in CpuIds : AtomicView[c] = cores[c] /\ AtomicView'[c] = cores'[c]
    BY <1>3 DEF AtomicView
  <2>2. \A c \in CpuIds : cores'[c] = IF c = turn THEN l ELSE cores[c]
    BY <1>2, <1>6
  <2>3. /\ AtomicView = [c \in CpuIds |-> AtomicView[c]]
        /\ AtomicView' = [c \in CpuIds |-> AtomicView'[c]]
    BY DEF AtomicView
  <2> QED BY <1>2, <1>5, <2>1, <2>2, <2>3
<1>9. Unnumbered' = Unnumbered
  BY <1>1 DEF Unnumbered
<1>10. UNCHANGED <<Atomic!timingVars, Atomic!storeVars, Unnumbered>>
  BY <1>1, <1>9 DEF Atomic!timingVars, Atomic!storeVars, timingVars, storeVars
<1>11. Atomic!Local(turn)
  BY <1>7, <1>8, <1>10, Zenon DEF Atomic!Local, AtomicView
<1> QED BY <1>2, <1>11 DEF Atomic!Next, Atomic!CpuIds, CpuIds

\* The probes are those of AtomicCores.
LEMMA ProbeRefines ==
    ASSUME AheadInv, AheadInv', Probe
    PROVE  Atomic!Next
<1>1. PICK op : Probes(op)
  BY ProbeSteps
<1>2. /\ execute_commit(op, FALSE) /\ loop \in {"probe write", "probe read"} /\ loop' # "commit"
      /\ UNCHANGED cores
      /\ op = DmaOp("MmioWrite", 0, 1) \/ op = DmaOp("MmioRead", 1, 0)
  BY <1>1 DEF Probes
<1>3. \A c : Applied(c) = cores[c] /\ Applied(c)' = cores'[c]
  BY <1>2, NoResults, NoResultsNext DEF AheadInv, AheadParts
<1>4. AtomicView' = AtomicView /\ AtomicView[0] = cores[0] /\ AtomicView[1] = cores[1]
  BY <1>2, <1>3 DEF AtomicView, CpuIds
<1>5. AtomicView[0].executed + AtomicView[1].executed >= MaxSteps
  BY <1>2, <1>4 DEF AheadInv, AheadParts, ProbeInv, Executed
<1>6. \A kind, req, data : Unnumbers(DmaOp(kind, req, data), Atomic!ProbeOp(kind, req, data))
  <2> SUFFICES ASSUME NEW kind, NEW req, NEW data
               PROVE  Unnumbers(DmaOp(kind, req, data), Atomic!ProbeOp(kind, req, data))
    OBVIOUS
  <2>1. DOMAIN DmaOp(kind, req, data) = OpFields
    BY DEF DmaOp, OpFields
  <2>2. Atomic!ProbeOp(kind, req, data) = [DmaOp(kind, req, data) EXCEPT !.seq = 0]
    BY DEF DmaOp, Atomic!ProbeOp, DmaId, Atomic!DmaId
  <2> QED BY <2>1, <2>2 DEF Unnumbers
<1>7. PICK z : /\ z \in {Atomic!ProbeOp("MmioWrite", 0, 1), Atomic!ProbeOp("MmioRead", 1, 0)}
               /\ Unnumbers(op, z)
  BY <1>2, <1>6
<1>8. Atomic!execute_commit(z, FALSE)
  BY <1>2, <1>7, ExecuteRefines DEF AheadInv, AheadParts
<1>9. Atomic!Probe
  BY <1>4, <1>5, <1>7, <1>8, Zenon DEF Atomic!Probe, AtomicView
<1> QED BY <1>9 DEF Atomic!Next

\* The program starts as AtomicCores does.
LEMMA InitRefines == Init => Atomic!Init
<1> SUFFICES ASSUME Init PROVE Atomic!Init
  OBVIOUS
<1>1. PICK image \in Images : ArbInitWith(image)
  BY DEF Init
<1>2. cores = [c \in CpuIds |-> NewCore(c, 0, ResetSp)] /\ halt_on_fault = FALSE
  BY DEF Init
<1>3. call = IdleCall /\ trace = <<>> /\ call.committed = <<>>
  BY <1>1 DEF ArbInitWith, IdleCall
<1>4. \A c : Applied(c) = cores[c]
  BY <1>3, EmptyIsSeq DEF Applied, ResultsFor
<1>5. AtomicView = [c \in CpuIds |-> NewCore(c, 0, ResetSp)]
  BY <1>2, <1>4 DEF AtomicView
<1>6. AtomicView = [c \in Atomic!CpuIds |-> Atomic!NewCore(c, 0, ResetSp)]
  BY <1>5, SameNewCore DEF CpuIds, Atomic!CpuIds
<1>7. Unnumbered = <<>>
  BY <1>3, EmptyIsSeq DEF Unnumbered
<1>8. Atomic!ArbInitWith(image)
  BY <1>1, <1>7 DEF ArbInitWith, IdleCall, None, Slots, CpuIds, Atomic!ArbInitWith,
     Atomic!IdleCall, Atomic!None, Atomic!Slots, Atomic!CpuIds
<1> QED BY <1>2, <1>6, <1>8 DEF Atomic!Init, AtomicView

\* The operation that a core waits for.
LEMMA HeldOp ==
    ASSUME AheadInv, NEW c \in CpuIds, Some(p[c])
    PROVE  /\ OnBus(cores[c]) /\ Unnumbers(p[c], NextOp(cores[c], 0))
           /\ p[c].cpu = c /\ p[c].producer = "Auto" /\ p[c].req = cores[c].t
           /\ cores[c].t \in Nat /\ c \in Waiters /\ WaitersOp[c] = p[c]
           /\ Reported(c) = p[c].req + 1
<1>1. PICK k, n : k = cores[c] /\ n = p[c].seq
  OBVIOUS
<1>2. p[c] = NextOp(k, n) /\ OnBus(k)
  BY <1>1 DEF AheadInv, AheadParts, HeldInv
<1>3. Unnumbers(p[c], NextOp(k, 0)) /\ p[c].producer = "Auto" /\ p[c].req = k.t
  BY <1>2, NextOpFacts, NextOpUnnumbered
<1>4. p[c].cpu = c /\ cores[c].t \in Nat
  BY DEF AheadInv, AheadParts, ClockInv, IInv, TypeOK
<1>5. c \in Waiters /\ WaitersOp[c] = p[c] /\ Reported(c) = p[c].req + 1
  BY DEF Waiters, WaitersOp, Reported
<1> QED BY <1>1, <1>2, <1>3, <1>4, <1>5

\* The winner w against the peer, as AtomicCores sees both
WinsAs(w, k, peer) == Atomic!Wins(k, peer) /\ (HadTie(w) <=> Atomic!Tied(k, peer))

\* A peer whose clock has passed.
LEMMA PassedPeer ==
    ASSUME NEW w, ~HadTie(w), NEW k, NEW peer, k.t \in Nat, peer.t \in Nat, k.t < peer.t
    PROVE  WinsAs(w, k, peer)
BY DEF WinsAs, Atomic!Wins, Atomic!Tied

\* The operation that the arbiter picks is the one that AtomicCores lets go first,
\* tied exactly when AtomicCores says so.  It is within the horizon, so the other
\* core has passed it, or waits with an operation that is not earlier.
LEMMA PicksTheNext ==
    ASSUME AheadInv, loop = "commit", NEW c, NEW w, Serving(c, w), ResultsFor(c) = {}
    PROVE  WinsAs(w, cores[c], Applied(1 - c))
<1>1. PICK d, k, op, od, peer : /\ d = 1 - c /\ k = cores[c] /\ op = p[c] /\ od = p[d]
                                /\ peer = Applied(d)
  OBVIOUS
<1>2. PICK D, h : D = Waiters /\ h = WaitersOp /\ OnePerCpu(D, h)
  BY DEF AheadInv, AheadParts, CallInv
<1>3. /\ c \in CpuIds /\ Some(op) /\ OnBus(k) /\ Unnumbers(op, NextOp(k, 0)) /\ op.cpu = c
      /\ op.producer = "Auto" /\ op.req = k.t /\ k.t \in Nat /\ Reported(c) = op.req + 1
  BY <1>1, HeldOp DEF Serving
<1>4. d \in CpuIds /\ d # c /\ \A x \in CpuIds : x = c \/ x = d
  BY <1>1, <1>3 DEF CpuIds
<1>5. /\ w \in Committable /\ w \in 1..Len(call.pending) /\ call.pending[w].op = op
      /\ CommitSafe(op) /\ w = pick_next(PendingOps, Committable) /\ call.phase = "commit"
  BY <1>1 DEF Serving, Committable
<1>6. /\ Answering(D, h) /\ call.pending \in Seq([index : Nat, op : Ops(D, h)])
      /\ Len(call.pending) \in Nat
  BY <1>2, <1>5 DEF OnePerCpu, BatchOf
<1>7. /\ progress_tracking_enabled /\ progress_up_to \in [CpuIds -> Nat]
      /\ \A x \in CpuIds : progress_up_to[x] # TickMax => progress_up_to[x] <= Reported(x)
      /\ bus_free_time \in Nat
  BY DEF AheadInv, AheadParts, MarkInv, ClockInv
<1>8. op.req < Reported(d) /\ Reported(d) \in Nat
  <2>1. op.req < progress_up_to[d] /\ progress_up_to[d] # TickMax
    BY <1>3, <1>4, <1>5, <1>7, WithinHorizon
  <2>2. progress_up_to[d] \in Nat /\ progress_up_to[d] <= Reported(d)
    BY <1>4, <1>7, <2>1
  <2>3. Reported(d) \in Nat
    <3>1. cores[d].t \in Nat
      BY <1>4 DEF AheadInv, AheadParts, ClockInv
    <3> QED BY <1>4, <3>1, ReportedIs DEF AheadInv, AheadParts
  <2> QED BY <1>3, <2>1, <2>2, <2>3
<1>9. ASSUME NEW i \in 1..Len(call.pending), i # w
      PROVE  Some(od) /\ call.pending[i].op = od /\ call.pending[i].op.cpu = d
  <2>1. call.pending[i] \in [index : Nat, op : Ops(D, h)]
    BY <1>6, ElementType
  <2>2. call.pending[i].op \in Ops(D, h)
    BY <2>1
  <2>3. PICK x \in Waiters : call.pending[i].op = p[x]
    BY <1>2, <2>2 DEF Ops, Waiters, WaitersOp
  <2>4. x \in CpuIds /\ p[x].cpu = x /\ Some(p[x])
    BY DEF Waiters, AheadInv, IInv, TypeOK
  <2>5. x # c
    BY <1>3, <1>5, <1>6, <1>9, <2>3, <2>4 DEF Answering
  <2> QED BY <1>1, <1>4, <2>3, <2>4, <2>5
<1>10. peer.t \in Nat /\ (ResultsFor(d) # {} => peer.t > cores[d].t)
       /\ (ResultsFor(d) = {} => peer = cores[d])
  BY <1>1, <1>4, AppliedClock
<1>11. CASE ~Some(od)
  <2>1. ~HadTie(w)
    BY <1>9, <1>11 DEF HadTie, Committable
  <2>2. ResultsFor(d) = {}
    BY <1>1, <1>4, <1>11, ResultsAreAwaited DEF AheadInv
  <2>3. Reported(d) = peer.t
    BY <1>1, <1>10, <1>11, <2>2 DEF Reported
  <2>4. k.t < peer.t
    BY <1>3, <1>8, <2>3
  <2> QED BY <1>1, <1>3, <1>10, <2>1, <2>4, PassedPeer
<1>12. ASSUME Some(od)
       PROVE  /\ OnBus(cores[d]) /\ Unnumbers(od, NextOp(cores[d], 0)) /\ od.cpu = d
              /\ od.producer = "Auto" /\ od.req = cores[d].t /\ cores[d].t \in Nat
              /\ op.req <= od.req /\ d \in D /\ h[d] = od
  <2>1. /\ OnBus(cores[d]) /\ Unnumbers(od, NextOp(cores[d], 0)) /\ od.cpu = d
        /\ od.producer = "Auto" /\ od.req = cores[d].t /\ cores[d].t \in Nat
        /\ Reported(d) = od.req + 1 /\ d \in D /\ h[d] = od
    BY <1>1, <1>2, <1>4, <1>12, HeldOp
  <2> QED BY <1>3, <1>8, <2>1
<1>13. CASE Some(od) /\ ResultsFor(d) # {}
  <2>1. PICK j \in 1..Len(call.committed) : call.committed[j].op.cpu = d
    BY <1>13 DEF ResultsFor
  <2>2. ~HadTie(w)
    <3>1. ASSUME NEW i \in 1..Len(call.pending), i # w PROVE FALSE
      BY <1>6, <1>9, <2>1, <3>1 DEF Answering
    <3> QED BY <3>1 DEF HadTie, Committable
  <2>3. k.t < peer.t
    <3>1. op.req <= cores[d].t /\ cores[d].t \in Nat
      BY <1>12, <1>13
    <3> QED BY <1>3, <1>10, <1>13, <3>1
  <2> QED BY <1>1, <1>3, <1>10, <2>2, <2>3, PassedPeer
<1>14. CASE Some(od) /\ ResultsFor(d) = {}
  <2>1. /\ peer = cores[d] /\ OnBus(peer) /\ Unnumbers(od, NextOp(peer, 0)) /\ od.cpu = d
        /\ od.producer = "Auto" /\ od.req = peer.t /\ peer.t \in Nat
        /\ op.req <= od.req /\ d \in D /\ h[d] = od
    BY <1>10, <1>12, <1>14
  <2>2. PICK i \in 1..Len(call.pending) : call.pending[i].op = od /\ i # w
    <3>1. \/ \E i \in 1..Len(call.pending) : call.pending[i].op = od
          \/ \E i \in 1..Len(call.committed) : call.committed[i].op = od
      BY <1>6, <2>1 DEF Answering
    <3>2. ~\E i \in 1..Len(call.committed) : call.committed[i].op = od
      BY <1>14, <2>1 DEF ResultsFor
    <3>3. PICK i \in 1..Len(call.pending) : call.pending[i].op = od
      BY <3>1, <3>2
    <3>4. i # w
      BY <1>3, <1>4, <1>5, <2>1, <3>3
    <3> QED BY <3>3, <3>4
  <2>3. \A j \in 1..Len(call.pending) : j = w \/ j = i
    <3> SUFFICES ASSUME NEW j \in 1..Len(call.pending), j # w PROVE j = i
      OBVIOUS
    <3>1. call.pending[j].op.cpu = d /\ call.pending[i].op.cpu = d
      BY <1>9, <2>1, <2>2
    <3> QED BY <1>6, <3>1 DEF Answering
  <2>4. \A j \in Committable \ {w} : j = i
    BY <2>3 DEF Committable
  <2>5. CASE op.req < od.req
    <3>1. i \notin Committable
      <4> SUFFICES ASSUME CommitSafe(od) PROVE FALSE
        BY <2>2 DEF Committable
      <4>1. od.req < progress_up_to[c] /\ progress_up_to[c] # TickMax
        BY <1>3, <1>7, <2>1, WithinHorizon
      <4>2. progress_up_to[c] \in Nat /\ progress_up_to[c] <= op.req + 1
        BY <1>3, <1>7, <4>1
      <4> QED BY <1>3, <2>1, <2>5, <4>1, <4>2
    <3>2. ~HadTie(w)
      BY <2>4, <3>1 DEF HadTie
    <3> QED BY <1>1, <1>3, <2>1, <2>5, <3>2, PassedPeer
  <2>6. CASE op.req = od.req
    <3>1. i \in Committable
      BY <1>5, <2>2, <2>6 DEF Committable, CommitSafe
    <3>2. Start(op) = Start(od) /\ Start(op) \in Nat
      BY <1>3, <1>7, <2>6 DEF Start
    <3>3. HadTie(w) <=> priority_of(op) = priority_of(od)
      BY <1>5, <2>2, <2>4, <3>1, <3>2 DEF HadTie
    <3>4. /\ Len(PendingOps) = Len(call.pending) /\ PendingOps[w] = op /\ PendingOps[i] = od
      BY <1>5, <1>6, <2>2 DEF PendingOps
    <3>5. Len(call.pending) \in {1, 2}
      <4>1. ~(Len(call.pending) >= 3)
        <5> SUFFICES ASSUME Len(call.pending) >= 3 PROVE FALSE
          OBVIOUS
        <5>1. 1 \in 1..Len(call.pending) /\ 2 \in 1..Len(call.pending) /\ 3 \in 1..Len(call.pending)
          BY <1>6
        <5> QED BY <2>3, <5>1
      <4> DEFINE n == Len(call.pending)
      <4>2. n \in Nat /\ 1 <= n /\ ~(n >= 3)
        BY <1>5, <1>6, <4>1
      <4> HIDE DEF n
      <4>3. n \in {1, 2}
        BY <4>2
      <4> QED BY <4>3 DEF n
    <3>6. Beats(op, od)
      <4> DEFINE ops == PendingOps
                 C == Committable
      <4>1. Len(ops) \in {1, 2} /\ C \in SUBSET (1..Len(ops)) /\ C # {} /\ w = pick_next(ops, C)
        BY <1>5, <3>4, <3>5 DEF Committable
      <4>2. ops[w] = op /\ ops[i] = od /\ i \in C \ {w} /\ i \in Nat /\ w \in Nat
        BY <1>5, <2>2, <3>1, <3>4
      <4> HIDE DEF ops, C
      <4>3. IF i < w THEN Beats(ops[w], ops[i]) ELSE ~Beats(ops[i], ops[w])
        BY <4>1, <4>2, PickOfTwo
      <4>4. Beats(op, od) \/ ~Beats(od, op)
        BY <4>2, <4>3
      <4>5. Beats(op, od) <=> ~Beats(od, op)
        BY <1>3, <1>4, <2>1, <3>2, OneBeats
      <4> QED BY <4>4, <4>5
    <3>7. WinsAs(w, k, peer)
      <4>1. Atomic!OpOf(k) = NextOp(k, 0) /\ Atomic!OpOf(peer) = NextOp(peer, 0) /\ Atomic!AtBus(peer)
        BY <2>1, SameNextOp
      <4>2. Atomic!Beats(Atomic!OpOf(k), Atomic!OpOf(peer))
        BY <1>3, <1>4, <2>1, <3>6, <4>1, SameBeats
      <4>3. /\ Atomic!priority_of(Atomic!OpOf(k)) = priority_of(op)
            /\ Atomic!priority_of(Atomic!OpOf(peer)) = priority_of(od)
        BY <1>3, <2>1, <4>1, SameValid
      <4>4. peer.t = k.t
        BY <1>3, <2>1, <2>6
      <4> QED BY <3>3, <4>1, <4>2, <4>3, <4>4 DEF WinsAs, Atomic!Wins, Atomic!Tied
    <3> QED BY <1>1, <3>7
  <2> QED BY <1>3, <2>1, <2>5, <2>6
<1> QED BY <1>11, <1>13, <1>14

\* An iteration of the second loop is a commit of AtomicCores.
LEMMA CommitRefines ==
    ASSUME AheadInv, loop = "commit", BatchCommit, UNCHANGED loopVars
    PROVE  Atomic!Next
<1>1. PICK c, w : /\ Serving(c, w) /\ ResultsFor(c) = {}
                  /\ Applied(c)' = apply_ifetch_and_step(cores[c], Response(p[c], HadTie(w)))
                  /\ \A d : d # c => Applied(d)' = Applied(d)
  BY CommitAhead
<1>2. PICK tie, k, op, z, peer, l :
        /\ tie = HadTie(w) /\ k = cores[c] /\ op = p[c] /\ z = NextOp(k, 0)
        /\ peer = Applied(1 - c) /\ l = apply_ifetch_and_step(k, Response(op, tie))
  OBVIOUS
<1>3. c \in CpuIds /\ execute_commit(op, tie) /\ OnBus(k) /\ Unnumbers(op, z)
  BY <1>1, <1>2, HeldOp DEF Serving
<1>4. Atomic!AtBus(k) /\ Atomic!OpOf(k) = z
  BY <1>2, <1>3, SameNextOp
<1>5. WinsAs(w, k, peer)
  BY <1>1, <1>2, PicksTheNext
<1>6. Atomic!Wins(k, peer) /\ tie = Atomic!Tied(k, peer)
  <2>1. Atomic!Wins(k, peer) /\ (tie <=> Atomic!Tied(k, peer))
    BY <1>2, <1>5 DEF WinsAs
  <2>2. tie \in BOOLEAN
    BY <1>2 DEF HadTie
  <2>3. Atomic!Tied(k, peer) \in BOOLEAN
    BY DEF Atomic!Tied
  <2> QED BY <2>1, <2>2, <2>3
<1>7. Atomic!execute_commit(z, tie)
  BY <1>3, ExecuteRefines DEF AheadInv, AheadParts
<1>8. l = Atomic!apply_ifetch_and_step(k, Atomic!Response(z, tie))
  BY <1>2, <1>3, SameResponse, SameAnswer
<1>9. /\ AtomicView[c] = k /\ AtomicView[1 - c] = peer
      /\ AtomicView' = [AtomicView EXCEPT ![c] = l]
  <2>1. 1 - c \in CpuIds /\ Applied(c) = k /\ Applied(c)' = l
    BY <1>1, <1>2, <1>3 DEF CpuIds, Applied
  <2>2. \A d \in CpuIds : Applied(d)' = IF d = c THEN l ELSE Applied(d)
    BY <1>1, <2>1
  <2>3. /\ AtomicView = [d \in CpuIds |-> Applied(d)]
        /\ AtomicView' = [d \in CpuIds |-> Applied(d)']
    BY DEF AtomicView
  <2> QED BY <1>2, <1>3, <2>1, <2>2, <2>3
<1>10. Atomic!Commit(c)
  BY <1>4, <1>6, <1>7, <1>8, <1>9, Zenon DEF Atomic!Commit, AtomicView
<1> QED BY <1>3, <1>10 DEF Atomic!Next, Atomic!CpuIds, CpuIds

\* A step of the loop is an instruction, a commit or a probe of AtomicCores, or
\* nothing that it sees.
LEMMA NextRefines ==
    ASSUME AheadInv, AheadInv', [Next]_vars
    PROVE  [Atomic!Next]_(Atomic!abstractVars)
<1>1. CASE LoopTop \/ AlreadyPending \/ IssuePending \/ StartRun \/ RunFetch \/ RunEnd \/ Publish
  <2>1. UNCHANGED <<timingVars, storeVars, trace, cores, call>>
    BY <1>1 DEF LoopTop, AlreadyPending, IssuePending, StartRun, RunFetch, RunEnd, Publish, Produced,
                arbVars, traceVars
  <2> QED BY <2>1, QuietInvisible
<1>2. CASE RunHit \/ RunMemory
  BY <1>2, RunIsLocal
<1>3. CASE LoopCall
  <2>1. UNCHANGED <<timingVars, storeVars, trace, cores>> /\ loop = "call"
    BY <1>3 DEF LoopCall, BatchCall, traceVars
  <2>2. call.committed = <<>>
    BY <2>1 DEF AheadInv, AheadParts, CallInv, IdleCall
  <2>3. call'.committed = <<>>
    BY <1>3 DEF LoopCall, BatchCall, IdleCall
  <2> QED BY <2>1, <2>2, <2>3, QuietInvisible
<1>4. CASE InBatch
  <2>1. loop = "commit" /\ UNCHANGED loopVars /\ UNCHANGED cores
    BY <1>4 DEF InBatch, loopVars
  <2>2. CASE BatchEnqueue \/ BatchEnqueued \/ BatchReturn
    <3>1. UNCHANGED <<timingVars, storeVars, trace>> /\ call'.committed = call.committed
      BY <2>1, <2>2, BatchQuiet
    <3> QED BY <2>1, <3>1, QuietInvisible
  <2>3. CASE BatchCommit
    BY <2>1, <2>3, CommitRefines
  <2> QED BY <1>4, <2>2, <2>3 DEF InBatch
<1>5. CASE LoopApply
  BY <1>5, ApplyInvisible
<1>6. CASE Probe
  BY <1>6, ProbeRefines
<1>7. CASE Terminated \/ UNCHANGED vars
  <2>1. UNCHANGED <<timingVars, storeVars, trace, cores, call>>
    BY <1>7 DEF Terminated, vars, arbVars, loopVars, traceVars
  <2> QED BY <2>1, QuietInvisible
<1> QED BY <1>1, <1>2, <1>3, <1>4, <1>5, <1>6, <1>7 DEF Next

\* For every image, every instruction set without TRAPA and RTE, all latencies,
\* devices, budgets and step limits: run_bios_trace does what AtomicCores
\* prescribes.  Every step of the loop is one instruction of one core, the commit
\* of the access that is next in time, one of the two probes, or nothing: run-ahead,
\* its budget, the watermarks, the batches and the moment at which the answers are
\* delivered leave no mark in the log, the memory or the cores (run_bios_trace,
\* emulator.cpp:470-518).
THEOREM RunAheadLeavesNoMark ==
    ASSUME NoTraps
    PROVE  Spec => RunAheadInvisible
<1>1. Init => AheadInv
  BY InitAhead
<1>2. AheadInv /\ [Next]_vars => AheadInv'
  BY NextAhead
<1>3. AheadInv /\ AheadInv' /\ [Next]_vars => [Atomic!Next]_(Atomic!abstractVars)
  BY NextRefines
<1> QED BY <1>1, <1>2, <1>3, InitRefines, PTL DEF Spec, RunAheadInvisible, Atomic!Spec
=============================================================================
