----------------------------- MODULE PairProofs -----------------------------
(***************************************************************************)
(* Proofs about the threaded runner, for all scripts, latencies, devices   *)
(* and interleavings.                                                      *)
(***************************************************************************)
EXTENDS ScriptedPairMT, HostProofs

-----------------------------------------------------------------------------
(* The inductive invariant: what links CPU c, its producer and its three   *)
(* mailboxes to what the coordinator holds of it                           *)

CpuOK(c, k) == k.script \in Seq(ScriptOp) /\ IsCpu(k, c, k.script) /\ k.local_time \in Nat

\* The operation w that the producer waits for is the last one its CPU issued
WaitOK(c, k, w) ==
    /\ Has(w) =>
         /\ w.index \in 1..Len(k.script)
         /\ k.pc = w.index + 1
         /\ IsOpFor(w.op, c, k.script[w.index], k.local_time)
    /\ ~Has(w) => w = NoOp

\* Where a producer has an operation under way, and where its script has ended
Awaiting == {"send_progress", "send_notify", "poll", "wait"}
Ending == {"end_done", "end_notify", "ended"}

AtOK(k, w, a) ==
    /\ Has(w) <=> a \in Awaiting
    /\ a \in Ending => k.pc = Len(k.script) + 1

\* That operation is in one of the mailboxes rq and rs or held by the coordinator
FlightOK(w, rq, rs, held) ==
    /\ IsSeq(rq) /\ IsSeq(rs)
    /\ Len(rq) + Len(rs) + (IF Has(held) THEN 1 ELSE 0) = (IF Has(w) THEN 1 ELSE 0)
    /\ \A i \in 1..Len(rq) : rq[i] = w
    /\ IF Has(held) THEN held = w ELSE held = NoOp
    /\ \A i \in 1..Len(rs) :
          rs[i].index = w.index /\ rs[i].token = w.op.token /\ rs[i].response.stall \in Nat

\* No watermark, under way or applied, is ahead of what the CPU promises
MarksOK(k, pg, mark) ==
    /\ IsSeq(pg)
    /\ \A i \in 1..Len(pg) : pg[i] \in Nat /\ pg[i] <= k.local_time + 1
    /\ mark # TickMax => mark <= k.local_time + 1

\* No line of the log is later than the CPU
LogOK(k, log) == \A i \in 1..Len(log) : log[i].op.req \in Nat /\ log[i].op.req <= k.local_time

LinkInv ==
    \A c \in CpuIds :
        /\ CpuOK(c, cpu[c])
        /\ WaitOK(c, cpu[c], waiting[c])
        /\ AtOK(cpu[c], waiting[c], at[c])
        /\ FlightOK(waiting[c], req[c], resp[c], p[c])
        /\ MarksOK(cpu[c], progress[c], progress_up_to[c])
        /\ LogOK(cpu[c], trace)

DomInv ==
    /\ DOMAIN cpu = CpuIds /\ DOMAIN waiting = CpuIds /\ DOMAIN at = CpuIds
    /\ DOMAIN req = CpuIds /\ DOMAIN resp = CpuIds /\ DOMAIN progress = CpuIds
    /\ DOMAIN p = CpuIds
    /\ progress_up_to \in [CpuIds -> Nat]

\* The CPUs whose operation the coordinator holds, and the operation of each
Holding == {c \in CpuIds : Has(p[c])}
HeldOp == [c \in CpuIds |-> p[c].op]

\* The batch is that of the operations held
CallInv ==
    /\ coord = "batch" => \E D, h : D = Holding /\ h = HeldOp /\ OnePerCpu(D, h)
    /\ coord # "batch" => call = IdleCall
    /\ \A i \in 1..Len(call.committed) : call.committed[i].response.stall \in Nat

\* No producer runs and no watermark is applied before the threads start
StartInv ==
    IF coord = "start" THEN \A c \in CpuIds : at[c] = "unborn" ELSE progress_tracking_enabled

ArbInv ==
    /\ bus_free_time \in Nat
    /\ ~halt_on_fault /\ ~should_halt
    /\ IsSeq(trace)
    /\ RequestTimeOrder

IInv == LinkInv /\ DomInv /\ CallInv /\ StartInv /\ ArbInv

-----------------------------------------------------------------------------
(* The producer threads keep it *)

\* Before the threads start there is no request anywhere and no batch.
LEMMA InitIInv == Init => IInv
<1> SUFFICES ASSUME Init PROVE IInv
  OBVIOUS
<1>1. PICK s \in Scripts : cpu = [c \in CpuIds |-> NewCpu(c, s[c + 1])]
  BY DEF Init
<1>2. /\ waiting = [c \in CpuIds |-> NoOp] /\ at = [c \in CpuIds |-> "unborn"]
      /\ req = [c \in CpuIds |-> <<>>] /\ resp = [c \in CpuIds |-> <<>>]
      /\ progress = [c \in CpuIds |-> <<>>] /\ p = [c \in CpuIds |-> NoOp]
      /\ progress_up_to = [c \in CpuIds |-> TickMax] /\ trace = <<>>
  BY DEF Init, ArbInit, ArbInitWith
<1>3. ASSUME NEW c \in CpuIds PROVE CpuOK(c, cpu[c])
  <2> DEFINE script == s[c + 1]
  <2>1. script \in Seq(ScriptOp)
    BY ScriptsAssumption DEF CpuIds
  <2>2. cpu[c] = NewCpu(c, script)
    BY <1>1
  <2> HIDE DEF script
  <2>3. IsCpu(NewCpu(c, script), c, script) /\ NewCpu(c, script).local_time = 0
    BY <2>1, NewCpuFacts, Zenon
  <2>4. NewCpu(c, script).script = script
    BY <2>3 DEF IsCpu
  <2> QED BY <2>1, <2>2, <2>3, <2>4 DEF CpuOK
<1>4. ~Has(NoOp) /\ "unborn" \notin Awaiting /\ "unborn" \notin Ending
  BY DEF Has, NoOp, Awaiting, Ending
<1>5. LinkInv
  BY <1>2, <1>3, <1>4, EmptyIsSeq DEF LinkInv, WaitOK, AtOK, FlightOK, MarksOK, LogOK
<1>6. DomInv
  BY <1>1, <1>2, TickMaxAssumption DEF DomInv
<1>7. CallInv /\ StartInv /\ ArbInv
  BY <1>2, EmptyIsSeq
     DEF CallInv, StartInv, ArbInv, RequestTimeOrder, Init, ArbInit, ArbInitWith, IdleCall
<1> QED BY <1>5, <1>6, <1>7 DEF IInv

\* g is f but for its value v at CPU c
Sets(f, g, c, v) ==
    DOMAIN g = CpuIds /\ g[c] = v /\ \A d \in CpuIds \ {c} : g[d] = f[d]

\* An assignment does that, and so does leaving f as it is.
LEMMA SetsFacts ==
    ASSUME NEW c \in CpuIds, NEW f, DOMAIN f = CpuIds, NEW v
    PROVE  Sets(f, [f EXCEPT ![c] = v], c, v) /\ Sets(f, f, c, f[c])
BY DEF Sets

\* A step of producer c that keeps the links of CPU c.
LEMMA ProducerLink ==
    ASSUME IInv, NEW c \in CpuIds, UNCHANGED <<arbVars, coordVars>>, at[c] # "unborn",
           NEW k, NEW w, NEW a, NEW rq, NEW rs, NEW pg,
           Sets(cpu, cpu', c, k), Sets(waiting, waiting', c, w), Sets(at, at', c, a),
           Sets(req, req', c, rq), Sets(resp, resp', c, rs), Sets(progress, progress', c, pg),
           CpuOK(c, k), WaitOK(c, k, w), AtOK(k, w, a), FlightOK(w, rq, rs, p[c]),
           MarksOK(k, pg, progress_up_to[c]), LogOK(k, trace)
    PROVE  IInv'
<1>1. DomInv /\ LinkInv /\ coord # "start"
  BY DEF IInv, StartInv
<1>2. /\ UNCHANGED <<p, call, coord, trace, bus_free_time, halt_on_fault, should_halt>>
      /\ UNCHANGED <<progress_up_to, progress_tracking_enabled>>
  BY DEF arbVars, coordVars, timingVars, traceVars, progressVars
<1>3. /\ cpu'[c] = k /\ waiting'[c] = w /\ at'[c] = a /\ req'[c] = rq /\ resp'[c] = rs
      /\ progress'[c] = pg /\ DomInv'
  BY <1>1, <1>2 DEF DomInv, Sets
<1>4. ASSUME NEW d \in CpuIds, d # c
      PROVE  /\ cpu'[d] = cpu[d] /\ waiting'[d] = waiting[d] /\ at'[d] = at[d]
             /\ req'[d] = req[d] /\ resp'[d] = resp[d] /\ progress'[d] = progress[d]
  BY <1>4 DEF Sets
<1>5. LinkInv'
  <2> SUFFICES ASSUME NEW d \in CpuIds
               PROVE  /\ CpuOK(d, cpu'[d]) /\ WaitOK(d, cpu'[d], waiting'[d])
                      /\ AtOK(cpu'[d], waiting'[d], at'[d])
                      /\ FlightOK(waiting'[d], req'[d], resp'[d], p'[d])
                      /\ MarksOK(cpu'[d], progress'[d], progress_up_to'[d])
                      /\ LogOK(cpu'[d], trace')
    BY DEF LinkInv
  <2>1. CASE d = c
    BY <1>2, <1>3, <2>1
  <2>2. CASE d # c
    BY <1>1, <1>2, <1>4, <2>2 DEF LinkInv
  <2> QED BY <2>1, <2>2
<1>6. CallInv'
  <2>1. CallInv /\ UNCHANGED producer_last_enqueued_req_time
    BY DEF IInv, arbVars
  <2>2. Holding' = Holding /\ HeldOp' = HeldOp
    BY <1>2 DEF Holding, HeldOp
  <2>3. \A D, h : OnePerCpu(D, h) => OnePerCpu(D, h)'
    BY <1>2, <2>1 DEF OnePerCpu, BatchOf, Accepting, Answering
  <2> QED BY <1>2, <2>1, <2>2, <2>3 DEF CallInv
<1>7. StartInv' /\ ArbInv'
  BY <1>1, <1>2 DEF IInv, StartInv, ArbInv, RequestTimeOrder
<1> QED BY <1>3, <1>5, <1>6, <1>7 DEF IInv

\* The links of a CPU whose producer runs.
LEMMA Links ==
    ASSUME IInv, NEW c \in CpuIds
    PROVE  /\ CpuOK(c, cpu[c]) /\ WaitOK(c, cpu[c], waiting[c])
           /\ AtOK(cpu[c], waiting[c], at[c])
           /\ FlightOK(waiting[c], req[c], resp[c], p[c])
           /\ MarksOK(cpu[c], progress[c], progress_up_to[c])
           /\ LogOK(cpu[c], trace)
BY DEF IInv, LinkInv

\* A move of the producer.
LEMMA Goes ==
    ASSUME IInv, NEW c \in CpuIds, NEW from, NEW to, Go(c, from, to)
    PROVE  at[c] = from /\ Sets(at, at', c, to)
BY SetsFacts DEF Go, IInv, DomInv

\* An operation is in one place only.
LEMMA OnePlace ==
    ASSUME NEW w, NEW rq, NEW rs, NEW held, FlightOK(w, rq, rs, held)
    PROVE  /\ ~Has(w) => Len(rq) = 0 /\ Len(rs) = 0 /\ ~Has(held)
           /\ rq # <<>> =>
                /\ Has(w) /\ Len(rs) = 0 /\ ~Has(held)
                /\ IsSeq(Tail(rq)) /\ Len(Tail(rq)) = 0 /\ Head(rq) = w
           /\ rs # <<>> =>
                /\ Has(w) /\ Len(rq) = 0 /\ ~Has(held)
                /\ IsSeq(Tail(rs)) /\ Len(Tail(rs)) = 0
                /\ Head(rs).index = w.index /\ Head(rs).token = w.op.token
                /\ Head(rs).response.stall \in Nat
           /\ Has(held) => Has(w) /\ Len(rq) = 0 /\ Len(rs) = 0
<1> DEFINE m == Len(rq)
           n == Len(rs)
           x == IF Has(held) THEN 1 ELSE 0
           y == IF Has(w) THEN 1 ELSE 0
<1>1. /\ IsSeq(rq) /\ IsSeq(rs) /\ m \in Nat /\ n \in Nat /\ x \in {0, 1} /\ y \in {0, 1}
      /\ m + n + x = y
      /\ Has(held) <=> x = 1
      /\ Has(w) <=> y = 1
  BY LenNat DEF FlightOK
<1>2. rq # <<>> =>
        /\ IsSeq(Tail(rq)) /\ Len(Tail(rq)) = m - 1 /\ Head(rq) = rq[1] /\ 1 \in 1..m
  BY <1>1, TailAny
<1>3. rs # <<>> =>
        /\ IsSeq(Tail(rs)) /\ Len(Tail(rs)) = n - 1 /\ Head(rs) = rs[1] /\ 1 \in 1..n
  BY <1>1, TailAny
<1>4. (rq # <<>> => Head(rq) = w)
      /\ (rs # <<>> => /\ Head(rs).index = w.index /\ Head(rs).token = w.op.token
                       /\ Head(rs).response.stall \in Nat)
  BY <1>2, <1>3 DEF FlightOK
<1> HIDE DEF m, n, x, y
<1>5. /\ ~Has(w) => m = 0 /\ n = 0 /\ ~Has(held)
      /\ rq # <<>> => Has(w) /\ n = 0 /\ ~Has(held) /\ m = 1
      /\ rs # <<>> => Has(w) /\ m = 0 /\ ~Has(held) /\ n = 1
      /\ Has(held) => Has(w) /\ m = 0 /\ n = 0
  BY <1>1, <1>2, <1>3
<1> QED BY <1>2, <1>3, <1>4, <1>5 DEF m, n

\* A watermark that keeps the promise may follow the others.
LEMMA PushMark ==
    ASSUME NEW k, NEW pg, NEW mark, MarksOK(k, pg, mark), NEW t \in Nat, t <= k.local_time + 1
    PROVE  MarksOK(k, Append(pg, t), mark)
<1> DEFINE s == Append(pg, t)
<1>1. /\ IsSeq(pg) /\ IsSeq(s) /\ Len(pg) \in Nat /\ Len(s) = Len(pg) + 1
      /\ \A i \in 1..Len(pg) : s[i] = pg[i]
      /\ s[Len(pg) + 1] = t
  BY AppendAny DEF MarksOK
<1> HIDE DEF s
<1>2. ASSUME NEW i \in 1..Len(s) PROVE s[i] \in Nat /\ s[i] <= k.local_time + 1
  <2>1. i \in 1..Len(pg) \/ i = Len(pg) + 1
    BY <1>1
  <2> QED BY <1>1, <2>1 DEF MarksOK
<1> QED BY <1>1, <1>2 DEF MarksOK, s

\* Watermarks and log lines do not outrun a CPU whose time moves on.
LEMMA TimeMovesOn ==
    ASSUME NEW k, NEW l, k.local_time \in Nat, l.local_time \in Nat,
           k.local_time <= l.local_time,
           NEW pg, NEW mark \in Nat, MarksOK(k, pg, mark), NEW log, LogOK(k, log)
    PROVE  MarksOK(l, pg, mark) /\ LogOK(l, log)
BY DEF MarksOK, LogOK

\* A step of a producer thread that moves no request: progress, and its end.
LEMMA QuietProducer ==
    ASSUME IInv, NEW c \in CpuIds, UNCHANGED <<arbVars, coordVars>>,
           \/ SendProgress(c) \/ SendNotify(c) \/ PollEmpty(c) \/ ProducerWait(c)
           \/ ReplyProgress(c) \/ ReplyNotify(c) \/ EndDone(c) \/ EndNotify(c)
    PROVE  IInv'
<1>1. UNCHANGED <<cpu, waiting, req, resp>>
  BY DEF SendProgress, SendNotify, PollEmpty, ProducerWait, ReplyProgress, ReplyNotify, EndDone,
         EndNotify, boxVars
<1>2. DomInv /\ progress_up_to[c] \in Nat
  BY DEF IInv, DomInv
<1>3. PICK from, to : /\ Go(c, from, to) /\ from # "unborn"
                      /\ from \in Awaiting <=> to \in Awaiting
                      /\ to \in Ending => from \in Ending
  <2>1. \/ Go(c, "send_progress", "send_notify") \/ Go(c, "send_notify", "poll")
        \/ Go(c, "poll", "wait") \/ Go(c, "wait", "poll")
        \/ Go(c, "reply_progress", "reply_notify") \/ Go(c, "reply_notify", "top")
        \/ Go(c, "end_done", "end_notify") \/ Go(c, "end_notify", "ended")
    BY DEF SendProgress, SendNotify, PollEmpty, ProducerWait, ReplyProgress, ReplyNotify, EndDone,
           EndNotify
  <2> QED BY <2>1 DEF Awaiting, Ending
<1>4. at[c] = from /\ Sets(at, at', c, to)
  BY <1>3, Goes
<1>5. /\ Sets(cpu, cpu', c, cpu[c]) /\ Sets(waiting, waiting', c, waiting[c])
      /\ Sets(req, req', c, req[c]) /\ Sets(resp, resp', c, resp[c])
  BY <1>1, <1>2, SetsFacts DEF DomInv
<1>6. AtOK(cpu[c], waiting[c], to)
  BY <1>3, <1>4, Links DEF AtOK
<1>7. \E pg : Sets(progress, progress', c, pg) /\ MarksOK(cpu[c], pg, progress_up_to[c])
  <2>1. CASE progress' = progress
    BY <1>2, <2>1, SetsFacts, Links DEF DomInv
  <2>2. ASSUME NEW t \in Nat, t <= cpu[c].local_time + 1, progress' = push(progress, c, t)
        PROVE  \E pg : Sets(progress, progress', c, pg) /\ MarksOK(cpu[c], pg, progress_up_to[c])
    <3>1. Sets(progress, progress', c, Append(progress[c], t))
      BY <1>2, <2>2, SetsFacts DEF push, DomInv
    <3>2. MarksOK(cpu[c], Append(progress[c], t), progress_up_to[c])
      BY <2>2, Links, PushMark
    <3> QED BY <3>1, <3>2
  <2>3. cpu[c].local_time \in Nat
    BY Links DEF CpuOK
  <2>4. CASE SendProgress(c)
    <3>1. Has(waiting[c])
      BY <2>4, Links, Goes DEF SendProgress, AtOK, Awaiting
    <3>2. waiting[c].op.req = cpu[c].local_time
      BY <3>1, Links DEF WaitOK, IsOpFor
    <3> QED BY <2>2, <2>3, <2>4, <3>2 DEF SendProgress, OpWatermark
  <2>5. CASE ReplyProgress(c)
    BY <2>2, <2>3, <2>5 DEF ReplyProgress
  <2> QED BY <2>1, <2>4, <2>5 DEF SendNotify, PollEmpty, ProducerWait, ReplyNotify, EndDone,
                                  EndNotify, boxVars
<1>8. at[c] # "unborn"
  BY <1>3, <1>4
<1> QED BY <1>4, <1>5, <1>6, <1>7, <1>8, Links, ProducerLink

\* A producer runs its CPU on, to an operation or to the end of the script.
LEMMA ProducesLink ==
    ASSUME IInv, NEW c \in CpuIds, NEW q, q = produce(cpu[c])
    PROVE  /\ CpuOK(c, q.cpu) /\ WaitOK(c, q.cpu, q.op)
           /\ ~Has(q.op) => q.cpu.pc = Len(q.cpu.script) + 1
           /\ MarksOK(q.cpu, progress[c], progress_up_to[c]) /\ LogOK(q.cpu, trace)
<1> DEFINE k == cpu[c]
           script == k.script
<1>1. script \in Seq(ScriptOp) /\ IsCpu(k, c, script) /\ k.local_time \in Nat
  BY Links DEF CpuOK
<1>2. MarksOK(k, progress[c], progress_up_to[c]) /\ LogOK(k, trace) /\ progress_up_to[c] \in Nat
  BY Links DEF IInv, DomInv
<1> HIDE DEF script, k
<1>3. Produces(k, q, c, script)
  BY <1>1, ProduceFacts DEF k
<1>4. /\ IsCpu(q.cpu, c, script) /\ q.cpu.local_time \in Nat /\ k.local_time <= q.cpu.local_time
      /\ ~Has(q.op) => q.op = NoOp /\ q.cpu.pc = Len(script) + 1
      /\ Has(q.op) => /\ q.op.index \in 1..Len(script) /\ q.cpu.pc = q.op.index + 1
                      /\ IsOpFor(q.op.op, c, script[q.op.index], q.cpu.local_time)
  BY <1>1, <1>3, Zenon DEF Produces
<1>5. q.cpu.script = script
  BY <1>4 DEF IsCpu
<1>6. MarksOK(q.cpu, progress[c], progress_up_to[c]) /\ LogOK(q.cpu, trace)
  BY <1>1, <1>2, <1>4, TimeMovesOn
<1>7. CpuOK(c, q.cpu)
  BY <1>1, <1>4, <1>5 DEF CpuOK
<1>8. WaitOK(c, q.cpu, q.op)
  BY <1>4, <1>5, Zenon DEF WaitOK
<1> QED BY <1>4, <1>5, <1>6, <1>7, <1>8

\* A producer whose script is finished publishes its last progress.
LEMMA EndProgressKeeps ==
    ASSUME IInv, NEW c \in CpuIds, UNCHANGED <<arbVars, coordVars>>, EndProgress(c)
    PROVE  IInv'
<1> DEFINE q == produce(cpu[c])
<1>1. /\ UNCHANGED <<waiting, req, resp>> /\ Go(c, "top", "end_done")
      /\ ~Has(q.op)
      /\ cpu' = [cpu EXCEPT ![c] = q.cpu]
      /\ progress' = push(progress, c, q.cpu.local_time)
  BY DEF EndProgress
<1>2. /\ CpuOK(c, q.cpu) /\ q.cpu.pc = Len(q.cpu.script) + 1
      /\ MarksOK(q.cpu, progress[c], progress_up_to[c]) /\ LogOK(q.cpu, trace)
  BY <1>1, ProducesLink
<1> HIDE DEF q
<1>3. at[c] = "top" /\ Sets(at, at', c, "end_done")
  BY <1>1, Goes
<1>4. ~Has(waiting[c]) /\ waiting[c] = NoOp
  BY <1>3, Links DEF AtOK, WaitOK, Awaiting
<1>5. /\ Sets(cpu, cpu', c, q.cpu) /\ Sets(waiting, waiting', c, waiting[c])
      /\ Sets(req, req', c, req[c]) /\ Sets(resp, resp', c, resp[c])
      /\ Sets(progress, progress', c, Append(progress[c], q.cpu.local_time))
  BY <1>1, SetsFacts DEF IInv, DomInv, push
<1>6. MarksOK(q.cpu, Append(progress[c], q.cpu.local_time), progress_up_to[c])
  BY <1>2, PushMark DEF CpuOK
<1>7. WaitOK(c, q.cpu, waiting[c]) /\ AtOK(q.cpu, waiting[c], "end_done")
  BY <1>2, <1>4 DEF WaitOK, AtOK, Awaiting
<1> QED BY <1>2, <1>3, <1>5, <1>6, <1>7, Links, ProducerLink

\* A producer posts its operation and starts to await the reply.
LEMMA SendRequestKeeps ==
    ASSUME IInv, NEW c \in CpuIds, UNCHANGED <<arbVars, coordVars>>, SendRequest(c)
    PROVE  IInv'
<1> DEFINE q == produce(cpu[c])
           rq == Append(req[c], q.op)
<1>1. /\ UNCHANGED <<resp, progress>> /\ Go(c, "top", "send_progress")
      /\ Has(q.op)
      /\ cpu' = [cpu EXCEPT ![c] = q.cpu]
      /\ waiting' = [waiting EXCEPT ![c] = q.op]
      /\ req' = push(req, c, q.op)
  BY DEF SendRequest
<1>2. /\ CpuOK(c, q.cpu) /\ WaitOK(c, q.cpu, q.op)
      /\ MarksOK(q.cpu, progress[c], progress_up_to[c]) /\ LogOK(q.cpu, trace)
  BY ProducesLink
<1> HIDE DEF q
<1>3. at[c] = "top" /\ Sets(at, at', c, "send_progress")
  BY <1>1, Goes
<1>4. ~Has(waiting[c])
  BY <1>3, Links DEF AtOK, Awaiting
<1>5. /\ Sets(cpu, cpu', c, q.cpu) /\ Sets(waiting, waiting', c, q.op)
      /\ Sets(req, req', c, rq) /\ Sets(resp, resp', c, resp[c])
      /\ Sets(progress, progress', c, progress[c])
  BY <1>1, SetsFacts DEF IInv, DomInv, push
<1>6. AtOK(q.cpu, q.op, "send_progress")
  BY <1>1 DEF AtOK, Awaiting, Ending
<1>7. FlightOK(q.op, rq, resp[c], p[c])
  <2>1. /\ IsSeq(req[c]) /\ IsSeq(resp[c]) /\ ~Has(p[c]) /\ p[c] = NoOp
        /\ Len(req[c]) = 0 /\ Len(resp[c]) = 0
    <3>1. FlightOK(waiting[c], req[c], resp[c], p[c])
      BY Links
    <3>2. ~Has(p[c]) /\ Len(req[c]) = 0 /\ Len(resp[c]) = 0
      BY <1>4, <3>1, OnePlace
    <3> QED BY <3>1, <3>2 DEF FlightOK
  <2>2. /\ IsSeq(rq) /\ Len(rq) = 1 /\ rq[1] = q.op
    BY <2>1, AppendAny
  <2> HIDE DEF rq
  <2>3. \A i \in 1..Len(rq) : rq[i] = q.op
    BY <2>2
  <2> QED BY <1>1, <2>1, <2>2, <2>3 DEF FlightOK
<1> QED BY <1>2, <1>3, <1>5, <1>6, <1>7, ProducerLink

\* A producer takes its reply: nothing of its is in flight any more.
LEMMA TakeResponseKeeps ==
    ASSUME IInv, NEW c \in CpuIds, UNCHANGED <<arbVars, coordVars>>, TakeResponse(c)
    PROVE  IInv'
<1> DEFINE r == Head(resp[c])
           k == cpu[c]
           l == apply_response(k, r.index, r.response, r.token)
<1>1. /\ UNCHANGED <<req, progress>> /\ Go(c, "poll", "reply_progress")
      /\ cpu' = [cpu EXCEPT ![c] = l]
      /\ waiting' = [waiting EXCEPT ![c] = NoOp]
      /\ resp' = pop(resp, c)
      /\ resp[c] # <<>>
  BY DEF TakeResponse
<1>2. at[c] = "poll" /\ Sets(at, at', c, "reply_progress")
  BY <1>1, Goes
<1>3. Has(waiting[c])
  BY <1>2, Links DEF AtOK, Awaiting
<1>4. /\ IsSeq(req[c]) /\ IsSeq(Tail(resp[c])) /\ ~Has(p[c]) /\ p[c] = NoOp
      /\ Len(req[c]) = 0 /\ Len(Tail(resp[c])) = 0
      /\ r.index = waiting[c].index /\ r.response.stall \in Nat
  <2>1. FlightOK(waiting[c], req[c], resp[c], p[c])
    BY Links
  <2>2. /\ ~Has(p[c]) /\ Len(req[c]) = 0 /\ IsSeq(Tail(resp[c])) /\ Len(Tail(resp[c])) = 0
        /\ r.index = waiting[c].index /\ r.response.stall \in Nat
    BY <1>1, <2>1, OnePlace
  <2> QED BY <2>1, <2>2 DEF FlightOK
<1>6. /\ k.script \in Seq(ScriptOp) /\ IsCpu(k, c, k.script) /\ k.local_time \in Nat
      /\ r.index \in 1..Len(k.script) /\ k.script[r.index].kind \in BusKinds
  BY <1>3, <1>4, Links DEF CpuOK, WaitOK, IsOpFor
<1>7. IsCpu(l, c, k.script) /\ l.local_time = k.local_time + r.response.stall
  <2> DEFINE script == k.script
             index == r.index
             response == r.response
             token == r.token
  <2>1. /\ script \in Seq(ScriptOp) /\ IsCpu(k, c, script)
        /\ index \in 1..Len(script) /\ script[index].kind \in BusKinds
        /\ l = apply_response(k, index, response, token)
    BY <1>6
  <2> HIDE DEF script, index, response, token, k, r, l
  <2>2. IsCpu(l, c, script) /\ Replies(k, l, script[index], response, token)
    BY <2>1, ReplyFacts
  <2> QED BY <2>2, Zenon DEF Replies, response, script
<1>8. /\ Sets(cpu, cpu', c, l) /\ Sets(waiting, waiting', c, NoOp)
      /\ Sets(req, req', c, req[c]) /\ Sets(resp, resp', c, Tail(resp[c]))
      /\ Sets(progress, progress', c, progress[c])
  BY <1>1, SetsFacts DEF IInv, DomInv, pop
<1>9. MarksOK(k, progress[c], progress_up_to[c]) /\ LogOK(k, trace) /\ progress_up_to[c] \in Nat
  BY Links DEF IInv, DomInv
<1> HIDE DEF r, l, k
<1>10. l.local_time \in Nat /\ k.local_time <= l.local_time
  BY <1>4, <1>6, <1>7
<1>11. CpuOK(c, l)
  BY <1>6, <1>7, <1>10 DEF CpuOK, IsCpu
<1>12. MarksOK(l, progress[c], progress_up_to[c]) /\ LogOK(l, trace)
  BY <1>6, <1>9, <1>10, TimeMovesOn
<1>13. ~Has(NoOp)
  BY DEF Has, NoOp
<1>14. WaitOK(c, l, NoOp) /\ AtOK(l, NoOp, "reply_progress")
  BY <1>13 DEF WaitOK, AtOK, Awaiting, Ending
<1>15. FlightOK(NoOp, req[c], Tail(resp[c]), p[c])
  BY <1>4, <1>13 DEF FlightOK
<1> QED BY <1>2, <1>8, <1>11, <1>12, <1>14, <1>15, ProducerLink

\* Each step of a producer thread.
LEMMA ProducerKeeps == \A c \in CpuIds : IInv /\ Producer(c) => IInv'
<1> SUFFICES ASSUME NEW c \in CpuIds, IInv, Producer(c) PROVE IInv'
  OBVIOUS
<1>1. UNCHANGED <<arbVars, coordVars>>
  BY DEF Producer
<1>2. CASE SendRequest(c)
  BY <1>1, <1>2, SendRequestKeeps
<1>3. CASE TakeResponse(c)
  BY <1>1, <1>3, TakeResponseKeeps
<1>4. CASE EndProgress(c)
  BY <1>1, <1>4, EndProgressKeeps
<1>5. CASE \/ SendProgress(c) \/ SendNotify(c) \/ PollEmpty(c) \/ ProducerWait(c)
           \/ ReplyProgress(c) \/ ReplyNotify(c) \/ EndDone(c) \/ EndNotify(c)
  BY <1>1, <1>5, QuietProducer
<1> QED BY <1>2, <1>3, <1>4, <1>5 DEF Producer

-----------------------------------------------------------------------------
(* The coordinator keeps it *)

\* A step of the coordinator leaves the CPUs and what their producers wait for.
LEMMA CoordLink ==
    ASSUME IInv, UNCHANGED <<cpu, waiting, at>>, DomInv', CallInv', StartInv', ArbInv',
           \A c \in CpuIds : FlightOK(waiting[c], req'[c], resp'[c], p'[c]),
           \A c \in CpuIds : MarksOK(cpu[c], progress'[c], progress_up_to'[c]),
           \A c \in CpuIds : LogOK(cpu[c], trace')
    PROVE  IInv'
<1>1. LinkInv'
  BY DEF IInv, LinkInv
<1> QED BY <1>1 DEF IInv

\* A step that moves neither requests and replies nor watermarks, and logs nothing.
LEMMA QuietCoord ==
    ASSUME IInv, UNCHANGED <<cpu, waiting, at, req, resp, progress, p>>,
           UNCHANGED <<progress_up_to, progress_tracking_enabled, trace>>,
           UNCHANGED <<bus_free_time, halt_on_fault, should_halt>>,
           coord # "start", coord' # "start", CallInv'
    PROVE  IInv'
<1>1. DomInv' /\ StartInv' /\ ArbInv'
  BY DEF IInv, DomInv, StartInv, ArbInv, RequestTimeOrder
<1>2. \A c \in CpuIds : /\ FlightOK(waiting[c], req'[c], resp'[c], p'[c])
                        /\ MarksOK(cpu[c], progress'[c], progress_up_to'[c])
                        /\ LogOK(cpu[c], trace')
  BY Links
<1> QED BY <1>1, <1>2, CoordLink

\* The coordinator moves on between two batches.
LEMMA MovesOn ==
    ASSUME IInv, \/ \E c \in CpuIds : ProgressEmpty(c)
                 \/ Classify \/ CoordNotify \/ Check \/ CoordWait \/ Join
    PROVE  IInv'
<1>1. /\ UNCHANGED <<arbVars, cpu, waiting, at, req, resp, progress, p>>
      /\ coord \notin {"start", "batch"} /\ coord' \notin {"start", "batch"}
  BY DEF ProgressEmpty, Classify, CoordNotify, Check, CoordWait, Join, producerVars, boxVars, CpuIds
<1>2. CallInv'
  BY <1>1 DEF IInv, CallInv, arbVars
<1> QED BY <1>1, <1>2, QuietCoord DEF arbVars, timingVars, progressVars, traceVars

\* A watermark that keeps the promise of CPU c is applied.
LEMMA MarksAdvance ==
    ASSUME IInv, NEW c \in CpuIds, NEW t \in Nat, t <= cpu[c].local_time + 1,
           NEW w, w = Advance(progress_up_to, c, t)
    PROVE  /\ w \in [CpuIds -> Nat]
           /\ \A d \in CpuIds : MarksOK(cpu[d], progress[d], w[d])
<1>1. progress_up_to \in [CpuIds -> Nat]
  BY DEF IInv, DomInv
<1>2. /\ w \in [CpuIds -> Nat] /\ w[c] \in {t, progress_up_to[c]}
      /\ \A d \in CpuIds \ {c} : w[d] = progress_up_to[d]
  BY <1>1, AdvanceType
<1>3. ASSUME NEW d \in CpuIds PROVE MarksOK(cpu[d], progress[d], w[d])
  <2>1. MarksOK(cpu[d], progress[d], progress_up_to[d])
    BY Links
  <2>2. w[d] = progress_up_to[d] \/ (w[d] = t /\ d = c)
    BY <1>2
  <2> QED BY <2>1, <2>2 DEF MarksOK
<1> QED BY <1>2, <1>3

\* The coordinator registers the CPUs and starts the threads.
LEMMA StartThreadsKeeps == IInv /\ StartThreads => IInv'
<1> SUFFICES ASSUME IInv, StartThreads PROVE IInv'
  OBVIOUS
<1> DEFINE v == Advance(progress_up_to, 0, 0)
           w == Advance(v, 1, 0)
<1>1. /\ UNCHANGED <<cpu, waiting, req, resp, progress, p, call, trace, bus_free_time>>
      /\ UNCHANGED <<halt_on_fault, should_halt>>
      /\ coord = "start" /\ coord' = "req0" /\ at' = [c \in CpuIds |-> "top"]
      /\ progress_tracking_enabled' = TRUE
      /\ progress_up_to' = w
  BY DEF StartThreads, boxVars, timingVars, traceVars
<1>2. \A c \in CpuIds : 0 <= cpu[c].local_time + 1
  BY Links DEF CpuOK
<1>3. v \in [CpuIds -> Nat] /\ \A d \in CpuIds : MarksOK(cpu[d], progress[d], v[d])
  BY <1>2, MarksAdvance DEF CpuIds
<1> HIDE DEF v
<1>4. /\ w \in [CpuIds -> Nat]
      /\ \A d \in CpuIds \ {1} : w[d] = v[d]
      /\ w[1] \in {0, v[1]}
  BY <1>3, AdvanceType, ZenonT(40) DEF CpuIds
<1> HIDE DEF w
<1>5. ASSUME NEW d \in CpuIds PROVE MarksOK(cpu[d], progress[d], w[d])
  <2>1. w[d] = v[d] \/ w[d] = 0
    BY <1>4
  <2> QED BY <1>2, <1>3, <2>1 DEF MarksOK
<1>6. ASSUME NEW c \in CpuIds PROVE AtOK(cpu[c], waiting[c], "top")
  <2>1. at[c] = "unborn"
    BY <1>1 DEF IInv, StartInv
  <2> QED BY <2>1, Links DEF AtOK, Awaiting, Ending
<1>7. LinkInv'
  <2> SUFFICES ASSUME NEW c \in CpuIds
               PROVE  /\ CpuOK(c, cpu'[c]) /\ WaitOK(c, cpu'[c], waiting'[c])
                      /\ AtOK(cpu'[c], waiting'[c], at'[c])
                      /\ FlightOK(waiting'[c], req'[c], resp'[c], p'[c])
                      /\ MarksOK(cpu'[c], progress'[c], progress_up_to'[c])
                      /\ LogOK(cpu'[c], trace')
    BY DEF LinkInv
  <2> QED BY <1>1, <1>5, <1>6, Links
<1>8. DomInv'
  BY <1>1, <1>4 DEF IInv, DomInv
<1>9. CallInv' /\ StartInv' /\ ArbInv'
  BY <1>1 DEF IInv, CallInv, StartInv, ArbInv, RequestTimeOrder
<1> QED BY <1>7, <1>8, <1>9 DEF IInv

\* The coordinator applies a watermark.
LEMMA PopProgressKeeps == \A c \in CpuIds : IInv /\ PopProgress(c) => IInv'
<1> SUFFICES ASSUME NEW c \in CpuIds, IInv, PopProgress(c) PROVE IInv'
  OBVIOUS
<1> DEFINE t == Head(progress[c])
           w == Advance(progress_up_to, c, t)
<1>1. /\ UNCHANGED <<cpu, waiting, at, req, resp, p, call, coord, trace, bus_free_time>>
      /\ UNCHANGED <<halt_on_fault, should_halt>>
      /\ coord \notin {"start", "batch"} /\ progress[c] # <<>>
      /\ progress' = [progress EXCEPT ![c] = Tail(@)]
      /\ progress_tracking_enabled' = TRUE
      /\ progress_up_to' = w
  BY DEF PopProgress, update_progress, producerVars, timingVars, traceVars, pop
<1>2. DOMAIN progress = CpuIds /\ MarksOK(cpu[c], progress[c], progress_up_to[c])
  BY Links DEF IInv, DomInv
<1>3. /\ IsSeq(Tail(progress[c])) /\ t = progress[c][1] /\ 1 \in 1..Len(progress[c])
      /\ \A i \in 1..Len(Tail(progress[c])) :
            i + 1 \in 1..Len(progress[c]) /\ Tail(progress[c])[i] = progress[c][i + 1]
  BY <1>1, <1>2, TailAny DEF MarksOK
<1>4. t \in Nat /\ t <= cpu[c].local_time + 1
  BY <1>2, <1>3 DEF MarksOK
<1> HIDE DEF t
<1>5. w \in [CpuIds -> Nat] /\ \A d \in CpuIds : MarksOK(cpu[d], progress[d], w[d])
  BY <1>4, MarksAdvance
<1> HIDE DEF w
<1>6. ASSUME NEW d \in CpuIds PROVE MarksOK(cpu[d], progress'[d], progress_up_to'[d])
  <2>1. CASE d = c
    <3>1. progress'[c] = Tail(progress[c])
      BY <1>1, <1>2
    <3>2. MarksOK(cpu[c], Tail(progress[c]), w[c])
      BY <1>3, <1>5 DEF MarksOK
    <3> QED BY <1>1, <2>1, <3>1, <3>2
  <2>2. CASE d # c
    BY <1>1, <1>2, <1>5, <2>2
  <2> QED BY <2>1, <2>2
<1>7. DomInv'
  BY <1>1, <1>5 DEF IInv, DomInv
<1>8. CallInv' /\ StartInv' /\ ArbInv'
  BY <1>1 DEF IInv, CallInv, StartInv, ArbInv, RequestTimeOrder
<1>9. \A d \in CpuIds : FlightOK(waiting[d], req'[d], resp'[d], p'[d]) /\ LogOK(cpu[d], trace')
  BY <1>1, Links
<1> QED BY <1>1, <1>6, <1>7, <1>8, <1>9, CoordLink

\* The coordinator takes a request out of a mailbox and holds it.
LEMMA PopRequestKeeps == \A c \in CpuIds : IInv /\ PopRequest(c) => IInv'
<1> SUFFICES ASSUME NEW c \in CpuIds, IInv, PopRequest(c) PROVE IInv'
  OBVIOUS
<1>1. /\ UNCHANGED <<arbVars, cpu, waiting, at, resp, progress>>
      /\ coord \notin {"start", "batch"} /\ coord' \notin {"start", "batch"}
  BY DEF PopRequest, producerVars, CpuIds
<1>2. /\ UNCHANGED <<call, trace, bus_free_time, progress_up_to, progress_tracking_enabled>>
      /\ UNCHANGED <<halt_on_fault, should_halt>>
  BY <1>1 DEF arbVars, timingVars, traceVars, progressVars
<1>3. CallInv'
  BY <1>1, <1>2 DEF IInv, CallInv
<1>4. CASE UNCHANGED <<p, req>>
  BY <1>1, <1>2, <1>3, <1>4, QuietCoord
<1>5. CASE /\ ~Has(p[c]) /\ req[c] # <<>>
           /\ p' = [p EXCEPT ![c] = Head(req[c])]
           /\ req' = [req EXCEPT ![c] = Tail(@)]
  <2>1. FlightOK(waiting[c], req[c], resp[c], p[c])
    BY Links
  <2>2. /\ Has(waiting[c]) /\ Len(resp[c]) = 0 /\ IsSeq(resp[c])
        /\ IsSeq(Tail(req[c])) /\ Len(Tail(req[c])) = 0 /\ Head(req[c]) = waiting[c]
    <3>1. /\ Has(waiting[c]) /\ Len(resp[c]) = 0
          /\ IsSeq(Tail(req[c])) /\ Len(Tail(req[c])) = 0 /\ Head(req[c]) = waiting[c]
      BY <1>5, <2>1, OnePlace
    <3> QED BY <2>1, <3>1 DEF FlightOK
  <2>3. FlightOK(waiting[c], Tail(req[c]), resp[c], Head(req[c]))
    <3> DEFINE rq == Tail(req[c])
    <3>1. IsSeq(rq) /\ Len(rq) = 0
      BY <2>2
    <3> HIDE DEF rq
    <3>2. FlightOK(waiting[c], rq, resp[c], waiting[c])
      BY <2>2, <3>1 DEF FlightOK
    <3> QED BY <2>2, <3>2 DEF rq
  <2>4. /\ Sets(req, req', c, Tail(req[c])) /\ Sets(p, p', c, Head(req[c]))
    BY <1>5, SetsFacts DEF IInv, DomInv
  <2>5. ASSUME NEW d \in CpuIds PROVE FlightOK(waiting[d], req'[d], resp'[d], p'[d])
    <3>1. CASE d = c
      BY <1>1, <2>3, <2>4, <3>1 DEF Sets
    <3>2. CASE d # c
      BY <1>1, <2>4, <3>2, Links DEF Sets
    <3> QED BY <3>1, <3>2
  <2>6. DomInv' /\ StartInv' /\ ArbInv'
    BY <1>1, <1>2, <2>4 DEF IInv, DomInv, StartInv, ArbInv, RequestTimeOrder, Sets
  <2>7. \A d \in CpuIds : /\ MarksOK(cpu[d], progress'[d], progress_up_to'[d])
                          /\ LogOK(cpu[d], trace')
    BY <1>1, <1>2, Links
  <2> QED BY <1>1, <1>3, <2>5, <2>6, <2>7, CoordLink
<1> QED BY <1>4, <1>5 DEF PopRequest, pop

\* What is known of an operation that the coordinator holds.
LEMMA OpHeld ==
    ASSUME IInv, NEW c \in CpuIds, Has(p[c])
    PROVE  /\ c \in Holding /\ HeldOp[c] = p[c].op /\ p[c] = waiting[c]
           /\ p[c].op.cpu = c /\ p[c].op.producer = "Auto"
           /\ p[c].op.kind \in Kinds /\ p[c].op.req = cpu[c].local_time /\ p[c].op.req \in Nat
           /\ producer_slot(p[c].op) = c
           /\ Has(waiting[c]) /\ Len(req[c]) = 0 /\ Len(resp[c]) = 0
<1>1. p[c] = waiting[c] /\ cpu[c].local_time \in Nat
  BY Links DEF FlightOK, CpuOK
<1>2. IsOpFor(p[c].op, c, cpu[c].script[p[c].index], cpu[c].local_time)
  BY <1>1, Links DEF WaitOK
<1>3. p[c].op.kind \in Kinds
  BY <1>2, OpKind
<1>4. p[c].op.cpu = c /\ p[c].op.producer = "Auto" /\ p[c].op.req = cpu[c].local_time
  BY <1>2 DEF IsOpFor
<1>5. producer_slot(p[c].op) = c
  BY <1>4 DEF producer_slot, CpuIds
<1>6. Has(waiting[c]) /\ Len(req[c]) = 0 /\ Len(resp[c]) = 0
  BY Links, OnePlace
<1> QED BY <1>1, <1>3, <1>4, <1>5, <1>6 DEF Holding, HeldOp

\* The batch of the operations held.
LEMMA HeldBatch ==
    ASSUME IInv, coord = "batch"
    PROVE  \E D, h : D = Holding /\ h = HeldOp /\ OnePerCpu(D, h)
BY DEF IInv, CallInv

\* The vector that the coordinator passes.
LEMMA BatchOpsFacts ==
    ASSUME IInv
    PROVE  /\ Holding \in SUBSET CpuIds
           /\ \A c \in Holding : HeldOp[c].cpu = c /\ HeldOp[c].producer = "Auto"
           /\ BatchOps \in Seq(Ops(Holding, HeldOp))
           /\ \A i, j \in 1..Len(BatchOps) : BatchOps[i].cpu = BatchOps[j].cpu => i = j
           /\ \A c \in Holding : \E i \in 1..Len(BatchOps) : BatchOps[i] = HeldOp[c]
<1>1. \A c \in CpuIds : Has(p[c]) => p[c].op.cpu = c /\ p[c].op.producer = "Auto"
  BY OpHeld
<1>2. Holding = Holders(p) /\ HeldOp = OpsBy(p) /\ BatchOps = OpsOf(p)
  BY Zenon DEF Holding, Holders, HeldOp, OpsBy, BatchOps, OpsOf
<1> QED BY <1>1, <1>2, OpsOfFacts

\* The coordinator hands the operations it holds to commit_batch.
LEMMA CallBatchKeeps == IInv /\ CallBatch => IInv'
<1> SUFFICES ASSUME IInv, CallBatch PROVE IInv'
  OBVIOUS
<1>1. /\ UNCHANGED <<cpu, waiting, at, req, resp, progress, p>>
      /\ coord = "call" /\ coord' = "batch" /\ BatchCall(BatchOps)
      /\ UNCHANGED <<bus_free_time, trace, halt_on_fault, should_halt>>
      /\ UNCHANGED <<progress_tracking_enabled, progress_up_to>>
  BY DEF CallBatch, BatchCall, producerVars, boxVars, timingVars, traceVars, progressVars
<1>2. CallInv'
  <2>1. PICK D, h, ops : D = Holding /\ h = HeldOp /\ ops = BatchOps
    OBVIOUS
  <2>2. /\ D \in SUBSET CpuIds /\ \A c \in D : h[c].cpu = c /\ h[c].producer = "Auto"
        /\ ops \in Seq(Ops(D, h)) /\ BatchCall(ops)
        /\ \A i, j \in 1..Len(ops) : ops[i].cpu = ops[j].cpu => i = j
        /\ \A c \in D : \E i \in 1..Len(ops) : ops[i] = h[c]
    BY <1>1, <2>1, BatchOpsFacts
  <2>3. OnePerCpu(D, h)'
    BY <2>2, OneCall, SMTT(60)
  <2>4. D = Holding' /\ h = HeldOp'
    BY <1>1, <2>1 DEF Holding, HeldOp
  <2>5. call'.committed = <<>>
    BY <2>2, BatchCallOf
  <2> QED BY <1>1, <2>3, <2>4, <2>5, EmptyIsSeq DEF CallInv
<1> QED BY <1>1, <1>2, QuietCoord

\* An iteration of the second loop: the operation of CPU c is executed.
CommitOf(c, w, e) ==
    /\ w \in Committable /\ w = pick_next(PendingOps, Committable)
    /\ c \in CpuIds /\ Has(p[c]) /\ call.pending[w].op = p[c].op
    /\ execute_commit(p[c].op, HadTie(w))
    /\ e = [index |-> call.pending[w].index, op |-> p[c].op,
            response |-> Response(p[c].op, HadTie(w))]
    /\ Serves(w, e)

LEMMA CommitFacts ==
    ASSUME IInv, coord = "batch", BatchCommit
    PROVE  \E c, w, e : CommitOf(c, w, e)
<1>1. PICK D, h : D = Holding /\ h = HeldOp /\ OnePerCpu(D, h)
  BY HeldBatch
<1>2. PICK w \in Committable :
        /\ w = pick_next(PendingOps, Committable)
        /\ execute_commit(call.pending[w].op, HadTie(w))
        /\ Serves(w, [index |-> call.pending[w].index, op |-> call.pending[w].op,
                      response |-> Response(call.pending[w].op, HadTie(w))])
  BY DEF BatchCommit, Serves
<1>3. w \in 1..Len(call.pending) /\ call.pending \in Seq([index : Nat, op : Ops(D, h)])
  BY <1>1 DEF Committable, OnePerCpu, BatchOf
<1>4. call.pending[w] \in [index : Nat, op : Ops(D, h)]
  BY <1>3, ElementType
<1>5. call.pending[w].op \in Ops(D, h)
  BY <1>4
<1>6. PICK c \in CpuIds : Has(p[c]) /\ call.pending[w].op = p[c].op
  BY <1>1, <1>5 DEF Ops, Holding, HeldOp
<1> DEFINE e == [index |-> call.pending[w].index, op |-> p[c].op,
                 response |-> Response(p[c].op, HadTie(w))]
<1>7. CommitOf(c, w, e)
  BY <1>2, <1>6, Zenon DEF CommitOf
<1> QED BY <1>7

\* An operation within the horizon is not later than either CPU.
LEMMA NotAhead ==
    ASSUME IInv, coord = "batch", NEW op, op.req \in Nat, CommitSafe(op), NEW c \in CpuIds
    PROVE  op.req <= cpu[c].local_time /\ cpu[c].local_time \in Nat
<1>1. progress_tracking_enabled /\ progress_up_to \in [CpuIds -> Nat] /\ cpu[c].local_time \in Nat
  BY Links DEF IInv, StartInv, DomInv, CpuOK
<1>2. op.req < progress_up_to[c] /\ progress_up_to[c] # TickMax /\ progress_up_to[c] \in Nat
  BY <1>1, WithinHorizon
<1>3. progress_up_to[c] <= cpu[c].local_time + 1
  BY <1>2, Links DEF MarksOK
<1> QED BY <1>1, <1>2, <1>3

\* An iteration of the second loop.
LEMMA CommitKeeps ==
    ASSUME IInv, InBatch, BatchCommit
    PROVE  IInv'
<1>1. /\ coord = "batch" /\ UNCHANGED <<cpu, waiting, at, req, resp, progress, p, coord>>
      /\ UNCHANGED <<progress_tracking_enabled, progress_up_to>> /\ call.phase = "commit"
  BY DEF InBatch, BatchCommit, producerVars, boxVars, coordVars, progressVars
<1>2. PICK D, h : D = Holding /\ h = HeldOp /\ OnePerCpu(D, h)
  BY <1>1, HeldBatch
<1>3. D = Holding' /\ h = HeldOp'
  BY <1>1, <1>2 DEF Holding, HeldOp
<1>4. PICK c, w, e : CommitOf(c, w, e)
  BY <1>1, CommitFacts
<1> DEFINE op == p[c].op
<1>5. /\ c \in CpuIds /\ op.kind \in Kinds /\ op.req = cpu[c].local_time /\ op.req \in Nat
  BY <1>4, OpHeld DEF CommitOf
<1>6. /\ execute_commit(op, HadTie(w)) /\ e.op = op /\ e.response = Response(op, HadTie(w))
      /\ w \in 1..Len(call.pending) /\ call.pending[w].op = op /\ Serves(w, e)
      /\ CommitSafe(op)
  BY <1>4 DEF CommitOf, Committable
<1>7. HadTie(w) \in BOOLEAN
  BY DEF HadTie
<1>8. bus_free_time \in Nat /\ ~halt_on_fault /\ ~should_halt /\ IsSeq(trace)
  BY DEF IInv, ArbInv
<1> HIDE DEF op
<1>9. e.response.stall \in Nat
  BY <1>5, <1>6, <1>7, <1>8, Times
<1>10. OnePerCpu(D, h)'
  BY <1>1, <1>2, <1>6, OneCommit
<1>11. /\ Len(call.committed) \in Nat /\ Len(call'.committed) = Len(call.committed) + 1
       /\ \A i \in 1..Len(call.committed) : call'.committed[i] = call.committed[i]
       /\ call'.committed[Len(call.committed) + 1] = e
  BY <1>1, <1>2, <1>6, OneCommit
<1>12. CallInv'
  <2>1. ASSUME NEW i \in 1..Len(call'.committed) PROVE call'.committed[i].response.stall \in Nat
    <3>1. i \in 1..Len(call.committed) \/ i = Len(call.committed) + 1
      BY <1>11
    <3> QED BY <1>9, <1>11, <3>1 DEF IInv, CallInv
  <2> QED BY <1>1, <1>3, <1>10, <2>1 DEF CallInv
<1>13. /\ bus_free_time' \in Nat /\ ~halt_on_fault' /\ ~should_halt'
       /\ \E line : line.op = op /\ trace' = Append(trace, line)
  BY <1>5, <1>6, <1>7, <1>8, ExecuteFacts
<1>14. PICK line : line.op = op /\ trace' = Append(trace, line)
  BY <1>13
<1>15. /\ IsSeq(trace') /\ Len(trace) \in Nat /\ Len(trace') = Len(trace) + 1
       /\ \A i \in 1..Len(trace) : trace'[i] = trace[i]
       /\ trace'[Len(trace) + 1] = line
  BY <1>8, <1>14, AppendAny
<1>16. \A i \in 1..Len(trace') : i \in 1..Len(trace) \/ (i = Len(trace) + 1 /\ trace'[i].op = op)
  BY <1>14, <1>15
<1>17. ASSUME NEW d \in CpuIds PROVE LogOK(cpu[d], trace')
  <2>1. op.req <= cpu[d].local_time
    BY <1>1, <1>5, <1>6, NotAhead
  <2> QED BY <1>5, <1>15, <1>16, <2>1, Links DEF LogOK
<1>18. RequestTimeOrder'
  <2> SUFFICES ASSUME NEW i \in 1..Len(trace'), NEW j \in 1..Len(trace'), i < j
               PROVE  trace'[i].op.req <= trace'[j].op.req
    BY DEF RequestTimeOrder
  <2>1. i \in 1..Len(trace) /\ trace'[i] = trace[i]
    BY <1>15, <1>16
  <2>2. CASE j \in 1..Len(trace)
    BY <1>15, <2>1, <2>2 DEF IInv, ArbInv, RequestTimeOrder
  <2>3. CASE trace'[j].op = op
    BY <1>5, <2>1, <2>3, Links DEF LogOK
  <2> QED BY <1>16, <2>2, <2>3
<1>19. ArbInv'
  BY <1>13, <1>15, <1>18 DEF ArbInv
<1>20. DomInv' /\ StartInv'
  BY <1>1 DEF IInv, DomInv, StartInv
<1>21. \A d \in CpuIds : /\ FlightOK(waiting[d], req'[d], resp'[d], p'[d])
                         /\ MarksOK(cpu[d], progress'[d], progress_up_to'[d])
  BY <1>1, Links
<1> QED BY <1>1, <1>12, <1>17, <1>19, <1>20, <1>21, CoordLink

\* A step of commit_batch: the batch still answers only what is held.
LEMMA InBatchKeeps == IInv /\ InBatch => IInv'
<1> SUFFICES ASSUME IInv, InBatch PROVE IInv'
  OBVIOUS
<1>1. /\ coord = "batch" /\ UNCHANGED <<cpu, waiting, at, req, resp, progress, p, coord>>
      /\ BatchEnqueue \/ BatchEnqueued \/ BatchCommit \/ BatchReturn
  BY DEF InBatch, producerVars, boxVars, coordVars
<1>2. PICK D, h : D = Holding /\ h = HeldOp /\ OnePerCpu(D, h)
  BY <1>1, HeldBatch
<1>3. D = Holding' /\ h = HeldOp'
  BY <1>1, <1>2 DEF Holding, HeldOp
<1>4. ~should_halt /\ BatchOf(Ops(D, h))
  BY <1>2 DEF IInv, ArbInv, OnePerCpu
<1>5. ASSUME OnePerCpu(D, h)', call'.committed = call.committed, UNCHANGED traceVars,
             UNCHANGED timingVars, UNCHANGED progressVars
      PROVE  IInv'
  <2>1. CallInv'
    BY <1>1, <1>3, <1>5 DEF IInv, CallInv
  <2> QED BY <1>1, <1>5, <2>1, QuietCoord DEF traceVars, timingVars, progressVars
<1>6. CASE BatchEnqueue
  <2>1. OnePerCpu(D, h)' /\ UNCHANGED traceVars
    BY <1>2, <1>6, OneEnqueue
  <2>2. call'.committed = call.committed
    BY <1>4, <1>6, BatchEnqueueOf
  <2> QED BY <1>5, <1>6, <2>1, <2>2 DEF BatchEnqueue
<1>7. CASE BatchEnqueued
  <2>1. OnePerCpu(D, h)'
    BY <1>2, <1>4, <1>7, OneEnqueued
  <2>2. call'.committed = call.committed
    BY <1>4, <1>7, BatchPhaseOf
  <2> QED BY <1>5, <1>7, <2>1, <2>2 DEF BatchEnqueued
<1>8. CASE BatchReturn
  <2>1. OnePerCpu(D, h)' /\ call'.committed = call.committed
    BY <1>2, <1>8, OneReturn
  <2> QED BY <1>5, <1>8, <2>1 DEF BatchReturn
<1>9. CASE BatchCommit
  BY <1>9, CommitKeeps
<1> QED BY <1>1, <1>6, <1>7, <1>8, <1>9

\* A result of the batch answers a request that the coordinator holds.
LEMMA ResultsAreHeld ==
    ASSUME IInv, NEW c \in CpuIds, ResultsFor(c) # {}
    PROVE  coord = "batch" /\ Has(p[c]) /\ Reply(c).response.stall \in Nat
<1>1. PICK k : k = CHOOSE i \in ResultsFor(c) : TRUE
  OBVIOUS
<1>2. k \in 1..Len(call.committed) /\ call.committed[k].op.cpu = c
  BY <1>1 DEF ResultsFor
<1>3. coord = "batch"
  BY <1>2, EmptyIsSeq DEF IInv, CallInv, IdleCall
<1>4. PICK D, h : D = Holding /\ h = HeldOp /\ OnePerCpu(D, h)
  BY <1>3, HeldBatch
<1>5. call.committed[k].op \in Ops(D, h)
  BY <1>2, <1>4 DEF OnePerCpu, BatchOf
<1>6. PICK d \in CpuIds : Has(p[d]) /\ call.committed[k].op = p[d].op
  BY <1>4, <1>5 DEF Ops, Holding, HeldOp
<1>7. d = c
  BY <1>2, <1>6, OpHeld
<1>8. Reply(c).response = call.committed[k].response
  BY <1>1, Zenon DEF Reply
<1>9. call.committed[k].response.stall \in Nat
  BY <1>2 DEF IInv, CallInv
<1> QED BY <1>3, <1>6, <1>7, <1>8, <1>9

\* The coordinator posts the replies and holds those operations no more.
LEMMA RespondKeeps == IInv /\ Respond => IInv'
<1> SUFFICES ASSUME IInv, Respond PROVE IInv'
  OBVIOUS
<1>1. /\ UNCHANGED <<cpu, waiting, at, req, progress>>
      /\ coord = "batch" /\ coord' \notin {"start", "batch"} /\ call' = IdleCall
      /\ resp' = [c \in CpuIds |-> IF ResultsFor(c) # {} THEN Append(resp[c], Reply(c)) ELSE resp[c]]
      /\ p' = [c \in CpuIds |-> IF ResultsFor(c) # {} THEN NoOp ELSE p[c]]
      /\ UNCHANGED <<bus_free_time, trace, halt_on_fault, should_halt>>
      /\ UNCHANGED <<progress_tracking_enabled, progress_up_to>>
  BY DEF Respond, Unanswered, producerVars, BatchFinish, timingVars, traceVars, progressVars
<1>2. ASSUME NEW c \in CpuIds PROVE FlightOK(waiting[c], req'[c], resp'[c], p'[c])
  <2>1. CASE ResultsFor(c) = {}
    BY <1>1, <2>1, Links
  <2>2. CASE ResultsFor(c) # {}
    <3> DEFINE r == Reply(c)
               rs == Append(resp[c], r)
    <3>1. Has(p[c]) /\ r.response.stall \in Nat
      BY <2>2, ResultsAreHeld
    <3>2. p[c] = waiting[c] /\ Has(waiting[c]) /\ Len(req[c]) = 0 /\ Len(resp[c]) = 0
      BY <3>1, OpHeld
    <3>3. r.index = p[c].index /\ r.token = p[c].op.token
      BY DEF Reply
    <3>4. IsSeq(req[c]) /\ IsSeq(resp[c])
      BY Links DEF FlightOK
    <3> HIDE DEF r
    <3>5. IsSeq(rs) /\ Len(rs) = 1 /\ rs[1] = r
      BY <3>2, <3>4, AppendAny
    <3> HIDE DEF rs
    <3>6. \A i \in 1..Len(rs) : rs[i] = r
      BY <3>5
    <3>7. ~Has(NoOp)
      BY DEF Has, NoOp
    <3>8. FlightOK(waiting[c], req[c], rs, NoOp)
      BY <3>1, <3>2, <3>3, <3>4, <3>5, <3>6, <3>7 DEF FlightOK
    <3>9. req'[c] = req[c] /\ resp'[c] = rs /\ p'[c] = NoOp
      BY <1>1, <2>2 DEF rs, r
    <3> QED BY <3>8, <3>9
  <2> QED BY <2>1, <2>2
<1>3. DomInv'
  BY <1>1 DEF IInv, DomInv
<1>4. CallInv' /\ StartInv' /\ ArbInv'
  BY <1>1, EmptyIsSeq DEF IInv, CallInv, StartInv, ArbInv, RequestTimeOrder, IdleCall
<1>5. \A c \in CpuIds : /\ MarksOK(cpu[c], progress'[c], progress_up_to'[c])
                        /\ LogOK(cpu[c], trace')
  BY <1>1, Links
<1> QED BY <1>1, <1>2, <1>3, <1>4, <1>5, CoordLink

\* A stuttering step.
LEMMA IdleKeeps == IInv /\ UNCHANGED vars => IInv'
<1> SUFFICES ASSUME IInv, UNCHANGED vars PROVE IInv'
  OBVIOUS
<1>1. /\ UNCHANGED <<cpu, waiting, at, req, resp, progress, p, coord, call, trace>>
      /\ UNCHANGED <<producer_last_enqueued_req_time, progress_tracking_enabled, progress_up_to>>
      /\ UNCHANGED <<bus_free_time, halt_on_fault, should_halt>>
  BY DEF vars, arbVars, producerVars, boxVars, coordVars, timingVars, traceVars, progressVars
<1>2. \A D, h : OnePerCpu(D, h) => OnePerCpu(D, h)'
  BY <1>1 DEF OnePerCpu, BatchOf, Accepting, Answering
<1>3. Holding' = Holding /\ HeldOp' = HeldOp
  BY <1>1 DEF Holding, HeldOp
<1>4. CallInv'
  BY <1>1, <1>2, <1>3 DEF IInv, CallInv
<1>5. DomInv' /\ StartInv' /\ ArbInv'
  BY <1>1 DEF IInv, DomInv, StartInv, ArbInv, RequestTimeOrder
<1>6. \A c \in CpuIds : /\ FlightOK(waiting[c], req'[c], resp'[c], p'[c])
                        /\ MarksOK(cpu[c], progress'[c], progress_up_to'[c])
                        /\ LogOK(cpu[c], trace')
  BY <1>1, Links
<1> QED BY <1>1, <1>4, <1>5, <1>6, CoordLink

\* Every step keeps the inductive invariant.
LEMMA NextIInv == IInv /\ [Next]_vars => IInv'
<1> SUFFICES ASSUME IInv, [Next]_vars PROVE IInv'
  OBVIOUS
<1>1. CASE CoordStep
  BY <1>1, StartThreadsKeeps, PopRequestKeeps, PopProgressKeeps, MovesOn, CallBatchKeeps,
     InBatchKeeps, RespondKeeps DEF CoordStep
<1>2. CASE \E c \in CpuIds : Producer(c)
  BY <1>2, ProducerKeeps
<1>3. CASE Terminated \/ UNCHANGED vars
  BY <1>3, IdleKeeps DEF Terminated
<1> QED BY <1>1, <1>2, <1>3 DEF Next

\* However the three threads interleave, for all scripts: while a producer waits,
\* its operation is in exactly one of the request mailbox, the coordinator and
\* the response mailbox, and otherwise in none.
THEOREM ExactlyOneInFlight == Spec => []OneInFlight
<1>1. IInv => OneInFlight
  BY Links DEF OneInFlight, FlightOK
<1> QED BY <1>1, InitIInv, NextIInv, PTL DEF Spec

\* However the three threads interleave, for all scripts, latencies and devices:
\* the coordinator executes operations in the order of their request times, because
\* the horizon never passes a CPU's own clock by more than the request it has posted.
THEOREM BusInRequestOrder == Spec => []RequestTimeOrder
<1>1. IInv => RequestTimeOrder
  BY DEF IInv, ArbInv
<1> QED BY <1>1, InitIInv, NextIInv, PTL DEF Spec

-----------------------------------------------------------------------------
(* The operators of AtomicPair, instantiated, are those of this module     *)

\* A byte of a value.
LEMMA SameByteOf == \A v, s, i : Abstract!ByteOf(v, s, i) = ByteOf(v, s, i)
BY Zenon DEF ByteOf, ShiftedBy, Abstract!ByteOf, Abstract!ShiftedBy

\* Writing a value.
LEMMA SameOverwrite ==
    ASSUME NEW f, NEW a, NEW size, NEW v
    PROVE  Abstract!Overwrite(f, a, size, v) = Overwrite(f, a, size, v)
<1> DEFINE x(s, i) == ByteOf(v, s, i)
           result == CASE size = 1 -> [f EXCEPT ![a] = x(1, 0)]
                       [] size = 2 -> [f EXCEPT ![a] = x(2, 0), ![a + 1] = x(2, 1)]
                       [] size = 4 -> [f EXCEPT ![a] = x(4, 0), ![a + 1] = x(4, 1),
                                                ![a + 2] = x(4, 2), ![a + 3] = x(4, 3)]
<1>1. \A s, i : Abstract!ByteOf(v, s, i) = x(s, i)
  BY SameByteOf
<1>2. /\ Abstract!ByteOf(v, 1, 0) = x(1, 0) /\ Abstract!ByteOf(v, 2, 0) = x(2, 0)
      /\ Abstract!ByteOf(v, 2, 1) = x(2, 1) /\ Abstract!ByteOf(v, 4, 0) = x(4, 0)
      /\ Abstract!ByteOf(v, 4, 1) = x(4, 1) /\ Abstract!ByteOf(v, 4, 2) = x(4, 2)
      /\ Abstract!ByteOf(v, 4, 3) = x(4, 3)
  BY <1>1
<1>3. Overwrite(f, a, size, v) = result
  BY Zenon DEF Overwrite
<1> HIDE DEF x
<1>4. Abstract!Overwrite(f, a, size, v) = result
  BY <1>2, Zenon DEF Abstract!Overwrite
<1> QED BY <1>3, <1>4, Zenon

\* The lines of a cache.
LEMMA SameLines ==
    /\ \A a : Abstract!LineBytes(a) = LineBytes(a) /\ Abstract!LineBase(a) = LineBase(a)
    /\ \A h, base, data : Abstract!fill_line(h, base, data) = fill_line(h, base, data)
BY Zenon DEF LineBytes, LineBase, fill_line, LineIndex,
             Abstract!LineBytes, Abstract!LineBase, Abstract!fill_line, Abstract!LineIndex

\* Writing to a cache.
LEMMA SameCacheWrite ==
    \A h, a, size, v : Abstract!CacheWrite(h, a, size, v) = CacheWrite(h, a, size, v)
BY SameOverwrite DEF CacheWrite, LineBase, LineIndex, Hit, CrossesLine, Resident,
     Abstract!CacheWrite, Abstract!LineBase, Abstract!LineIndex, Abstract!Hit,
     Abstract!CrossesLine, Abstract!Resident

\* Retiring a store.
LEMMA SameRetire == \A sb, id : Abstract!retire(sb, id) = retire(sb, id)
BY Zenon DEF retire, RemoveIndex, Abstract!retire, Abstract!RemoveIndex

\* Issuing an operation.
LEMMA SameIssue ==
    ASSUME NEW k
    PROVE  Abstract!Issue(k) = Issue(k)
<1> DEFINE ins == Ins(k)
           s == [k EXCEPT !.pc = @ + 1, !.sequence = @ + 1]
           W(h) == CacheWrite(h, ins.addr, ins.size, ins.value)
           AW(h) == Abstract!CacheWrite(h, ins.addr, ins.size, ins.value)
           U == Uncached(ins)
<1>1. /\ Issue(k) = IF ins.kind # "Write" THEN s
        ELSE [s EXCEPT
                !.next_store_id = @ + 1,
                !.store_buffer = Append(@, [store_id |-> k.next_store_id, addr |-> ins.addr,
                                            size |-> ins.size, value |-> ins.value]),
                !.cache = IF U THEN @ ELSE W(@)]
  BY Zenon DEF Issue
<1>2. (Abstract!Uncached(ins) <=> U) /\ Abstract!Ins(k) = ins
  BY Zenon DEF Uncached, is_mmio, Abstract!Uncached, Abstract!is_mmio, Ins, Abstract!Ins
<1>3. \A h : AW(h) = W(h)
  BY SameCacheWrite, Zenon
<1> HIDE DEF U, ins
<1>4. /\ Abstract!Issue(k) = IF ins.kind # "Write" THEN s
        ELSE [s EXCEPT
                !.next_store_id = @ + 1,
                !.store_buffer = Append(@, [store_id |-> k.next_store_id, addr |-> ins.addr,
                                            size |-> ins.size, value |-> ins.value]),
                !.cache = IF U THEN @ ELSE AW(@)]
  BY <1>2, Zenon DEF Abstract!Issue
<1> DEFINE x == IF U THEN s.cache ELSE W(s.cache)
           y == IF U THEN s.cache ELSE AW(s.cache)
<1>5. x = y
  <2>1. AW(s.cache) = W(s.cache)
    BY <1>3, Zenon
  <2> HIDE DEF AW, W, s
  <2> QED BY <2>1
<1> HIDE DEF W, AW, s
<1>6. Issue(k) = IF ins.kind # "Write" THEN s
        ELSE [s EXCEPT
                !.next_store_id = @ + 1,
                !.store_buffer = Append(@, [store_id |-> k.next_store_id, addr |-> ins.addr,
                                            size |-> ins.size, value |-> ins.value]),
                !.cache = x]
  BY <1>1, Zenon
<1>7. Abstract!Issue(k) = IF ins.kind # "Write" THEN s
        ELSE [s EXCEPT
                !.next_store_id = @ + 1,
                !.store_buffer = Append(@, [store_id |-> k.next_store_id, addr |-> ins.addr,
                                            size |-> ins.size, value |-> ins.value]),
                !.cache = y]
  BY <1>4, Zenon
<1> HIDE DEF x, y
<1> QED BY <1>5, <1>6, <1>7, Zenon

\* Delivering a reply.
LEMMA SameApply ==
    ASSUME NEW k, NEW index, NEW response, NEW token
    PROVE  Abstract!apply_response(k, index, response, token) =
             apply_response(k, index, response, token)
<1> DEFINE ins == k.script[index]
           s == [k EXCEPT !.local_time = @ + response.stall]
           base == LineBase(ins.addr)
           zero == [a \in LineBytes(ins.addr) |-> 0]
           U == Uncached(ins)
           Cached(h) == IF U THEN h
                    ELSE IF response.line # <<>>
                           THEN fill_line(h, base, response.line)
                           ELSE CacheWrite(fill_line(h, base, zero),
                                           ins.addr, ins.size, response.value)
           Retired(sb) == retire(sb, token)
           result == CASE ins.kind = "Write" -> [s EXCEPT !.store_buffer = Retired(@)]
                       [] ins.kind = "Barrier" -> s
                       [] ins.kind = "Read" ->
                            [s EXCEPT !.last_read = response.value, !.cache = Cached(@)]
           ACached(h) == IF U THEN h
                    ELSE IF response.line # <<>>
                           THEN Abstract!fill_line(h, base, response.line)
                           ELSE Abstract!CacheWrite(Abstract!fill_line(h, base, zero),
                                           ins.addr, ins.size, response.value)
           ARetired(sb) == Abstract!retire(sb, token)
           aresult == CASE ins.kind = "Write" -> [s EXCEPT !.store_buffer = ARetired(@)]
                       [] ins.kind = "Barrier" -> s
                       [] ins.kind = "Read" ->
                            [s EXCEPT !.last_read = response.value, !.cache = ACached(@)]
<1>1. apply_response(k, index, response, token) = result
  BY Zenon DEF apply_response
<1>2. /\ (Abstract!Uncached(ins) <=> U) /\ Abstract!LineBase(ins.addr) = base
      /\ Abstract!LineBytes(ins.addr) = LineBytes(ins.addr)
  BY Zenon, SameLines DEF Uncached, is_mmio, Abstract!Uncached, Abstract!is_mmio
<1>3. \A h, sb : ACached(h) = Cached(h) /\ ARetired(sb) = Retired(sb)
  <2> HIDE DEF zero, base
  <2> QED BY SameLines, SameCacheWrite, SameRetire, Zenon
<1> HIDE DEF U, base
<1>4. Abstract!apply_response(k, index, response, token) = aresult
  BY <1>2, Zenon DEF Abstract!apply_response
<1> HIDE DEF Cached, ACached, s, Retired, ARetired
<1>5. aresult = result
  BY <1>3, Zenon
<1> QED BY <1>1, <1>4, <1>5, Zenon

\* When an operation starts and finishes.
LEMMA SameTiming ==
    \A op, tie : Abstract!Start(op) = Start(op) /\ Abstract!Finish(op, tie) = Finish(op, tie)
BY Zenon DEF Finish, Start, base_latency, contention_extra, is_mmio, None, Abstract!Finish,
   Abstract!Start, Abstract!base_latency, Abstract!contention_extra, Abstract!is_mmio,
   Abstract!None

\* Which operations are rejected.
LEMMA SameRejected ==
    \A op : Abstract!Rejected(op) <=> Rejected(op)
BY Zenon DEF Rejected, ValidBusOp, NonMonotonic, valid_bus_size, is_mmio, is_aligned,
   producer_slot, None, AccessSizes, Abstract!Rejected, Abstract!ValidBusOp,
   Abstract!NonMonotonic, Abstract!valid_bus_size, Abstract!is_mmio, Abstract!is_aligned,
   Abstract!producer_slot, Abstract!None, Abstract!AccessSizes

\* What rejecting one does.
LEMMA SameReject ==
    \A op : Abstract!Reject(op) <=> Reject(op)
BY Zenon DEF Reject, fault_response, Start, RejectReason, timingVars, storeVars,
   kInvalidBusOpValue, ValidBusOp, valid_bus_size, is_mmio, is_aligned, AccessSizes,
   Abstract!Reject, Abstract!fault_response, Abstract!Start, Abstract!RejectReason,
   Abstract!timingVars, Abstract!storeVars, Abstract!kInvalidBusOpValue,
   Abstract!ValidBusOp, Abstract!valid_bus_size, Abstract!is_mmio, Abstract!is_aligned,
   Abstract!AccessSizes

\* The value of an operation.
LEMMA SameValueOf ==
    \A op : Abstract!ValueOf(op) = ValueOf(op)
BY Zenon DEF ValueOf, IsWrite, ToDevice, read, is_mmio, access_in_range, Assemble,
   Abstract!ValueOf, Abstract!IsWrite, Abstract!ToDevice, Abstract!read, Abstract!is_mmio,
   Abstract!access_in_range, Abstract!Assemble

\* Its effect.
LEMMA SameEffect ==
    \A op : Abstract!Effect(op) <=> Effect(op)
BY SameOverwrite, Zenon DEF Effect, IsWrite, ToDevice, write, is_mmio, access_in_range,
   Abstract!Effect, Abstract!IsWrite, Abstract!ToDevice, Abstract!write, Abstract!is_mmio,
   Abstract!access_in_range

\* What executing one does.
LEMMA SameGrant ==
    \A op, tie : Abstract!Grant(op, tie) <=> Grant(op, tie)
BY SameEffect, SameTiming, SameValueOf, Zenon DEF Grant, producer_slot, is_cpu, add_commit,
   CpuIds, Abstract!Grant, Abstract!producer_slot, Abstract!is_cpu, Abstract!add_commit,
   Abstract!CpuIds

\* The two outcomes of an operation.
LEMMA SameExecute ==
    \A op, tie : Abstract!execute_commit(op, tie) <=> execute_commit(op, tie)
BY SameGrant, SameReject, SameRejected, Zenon DEF execute_commit, Abstract!execute_commit

\* Its reply.
LEMMA SameResponse ==
    \A op, tie : Abstract!Response(op, tie) = Response(op, tie)
BY SameRejected, SameValueOf, SameTiming, Zenon DEF Response, kInvalidBusOpValue, ToDevice,
   LineData, is_mmio, read_block, access_in_range, Abstract!Response,
   Abstract!kInvalidBusOpValue, Abstract!ToDevice, Abstract!LineData, Abstract!is_mmio,
   Abstract!read_block, Abstract!access_in_range

\* Where produce stops.
LEMMA SameStop ==
    \A k : Abstract!Stop(k) = Stop(k)
BY Zenon DEF Stop, IsLocal, Uncached, Matches, Hit, is_mmio, Resident, CrossesLine,
   LineIndex, LineBase, Abstract!Stop, Abstract!IsLocal, Abstract!Uncached,
   Abstract!Matches, Abstract!Hit, Abstract!is_mmio, Abstract!Resident,
   Abstract!CrossesLine, Abstract!LineIndex, Abstract!LineBase

\* The cycles in between.
LEMMA SameTicks ==
    \A s, i, j : Abstract!ComputeTicks(s, i, j) = ComputeTicks(s, i, j)
BY Zenon DEF ComputeTicks, Abstract!ComputeTicks

\* The value of a load that needs no bus.
LEMMA SameLocalValue ==
    \A k, ins : Abstract!LocalValue(k, ins) = LocalValue(k, ins)
BY Zenon DEF LocalValue, Matches, forward, CacheRead, Assemble, LineIndex, LineBase,
   Abstract!LocalValue, Abstract!Matches, Abstract!forward, Abstract!CacheRead,
   Abstract!Assemble, Abstract!LineIndex, Abstract!LineBase

\* The largest of a set.
LEMMA SameMax ==
    \A S : Abstract!Max(S) = Max(S)
BY Zenon DEF Max, Abstract!Max

\* The local instructions.
LEMMA SameRunAhead ==
    \A k : Abstract!RunAhead(k) = RunAhead(k)
BY SameStop, SameTicks, SameLocalValue, SameMax, Zenon DEF RunAhead, Abstract!RunAhead

\* The operation for an instruction.
LEMMA SameOpOf ==
    \A k : Abstract!OpOf(k) = OpOf(k)
BY Zenon DEF OpOf, Ins, is_mmio, Uncached, Abstract!OpOf, Abstract!Ins, Abstract!is_mmio,
   Abstract!Uncached

\* produce.
LEMMA SameProduce ==
    \A k : Abstract!produce(k) = produce(k)
BY SameRunAhead, SameIssue, SameOpOf, Zenon DEF produce, done, NoOp, Abstract!produce,
   Abstract!done, Abstract!NoOp

\* The initial state.
LEMMA SameNew ==
    /\ \A c, script : Abstract!NewCpu(c, script) = NewCpu(c, script)
    /\ Abstract!ArbInit <=> ArbInit
BY Zenon DEF NewCpu, ArbInit, NewCache, None, ArbInitWith, InvalidLine, Slots, CpuIds,
   IdleCall, Abstract!NewCpu, Abstract!ArbInit, Abstract!NewCache, Abstract!None,
   Abstract!ArbInitWith, Abstract!InvalidLine, Abstract!Slots, Abstract!CpuIds,
   Abstract!IdleCall

-----------------------------------------------------------------------------
(* Without ties the threaded runner implements AtomicPair                  *)

\* CPU k with the reply r delivered, at its next bus operation
Served(k, r) == produce(apply_response(k, r.index, r.response, r.token))

\* The abstract CPU in each of its four cases.
LEMMA AbstractCases ==
    ASSUME NEW c \in CpuIds
    PROVE  /\ ~Has(waiting[c]) => AbstractCpu(c) = produce(cpu[c])
           /\ Has(waiting[c]) /\ resp[c] # <<>> => AbstractCpu(c) = Served(cpu[c], Head(resp[c]))
           /\ Has(waiting[c]) /\ resp[c] = <<>> /\ ResultsFor(c) # {} =>
                AbstractCpu(c) = Served(cpu[c], Reply(c))
           /\ Has(waiting[c]) /\ resp[c] = <<>> /\ ResultsFor(c) = {} =>
                AbstractCpu(c) = [cpu |-> cpu[c], op |-> waiting[c]]
<1> DEFINE S(r) == CHOOSE q \in {produce(s) : s \in {apply_response(cpu[c], r.index, r.response, r.token)}} : TRUE
<1>1. \A r : S(r) = Served(cpu[c], r)
  <2> TAKE r
  <2> DEFINE q0 == Served(cpu[c], r)
  <2>1. {produce(s) : s \in {apply_response(cpu[c], r.index, r.response, r.token)}} = {q0}
    BY DEF Served
  <2> HIDE DEF q0
  <2>2. (CHOOSE q \in {q0} : TRUE) = q0
    OBVIOUS
  <2> QED BY <2>1, <2>2 DEF q0
<1>2. AbstractCpu(c) = CASE ~Has(waiting[c]) -> produce(cpu[c])
          [] Has(waiting[c]) /\ resp[c] # <<>> -> S(Head(resp[c]))
          [] Has(waiting[c]) /\ resp[c] = <<>> /\ ResultsFor(c) # {} -> S(Reply(c))
          [] OTHER -> [cpu |-> cpu[c], op |-> waiting[c]]
  BY Zenon DEF AbstractCpu
<1> HIDE DEF S
<1> QED BY <1>1, <1>2

\* The same of the next state.
LEMMA AbstractCasesNext ==
    ASSUME NEW c \in CpuIds
    PROVE  /\ ~Has(waiting'[c]) => AbstractCpu(c)' = produce(cpu'[c])
           /\ Has(waiting'[c]) /\ resp'[c] # <<>> =>
                AbstractCpu(c)' = Served(cpu'[c], Head(resp'[c]))
           /\ Has(waiting'[c]) /\ resp'[c] = <<>> /\ ResultsFor(c)' # {} =>
                AbstractCpu(c)' = Served(cpu'[c], Reply(c)')
           /\ Has(waiting'[c]) /\ resp'[c] = <<>> /\ ResultsFor(c)' = {} =>
                AbstractCpu(c)' = [cpu |-> cpu'[c], op |-> waiting'[c]]
<1> DEFINE k == cpu'[c]
           S(r) == CHOOSE q \in {produce(s) : s \in {apply_response(k, r.index, r.response, r.token)}} : TRUE
<1>1. \A r : S(r) = Served(k, r)
  <2> HIDE DEF k
  <2> TAKE r
  <2> DEFINE q0 == Served(k, r)
  <2>1. {produce(s) : s \in {apply_response(k, r.index, r.response, r.token)}} = {q0}
    BY DEF Served
  <2> HIDE DEF q0
  <2>2. (CHOOSE q \in {q0} : TRUE) = q0
    OBVIOUS
  <2> QED BY <2>1, <2>2 DEF q0
<1>2. AbstractCpu(c)' = CASE ~Has(waiting'[c]) -> produce(cpu'[c])
          [] Has(waiting'[c]) /\ resp'[c] # <<>> -> S(Head(resp'[c]))
          [] Has(waiting'[c]) /\ resp'[c] = <<>> /\ ResultsFor(c)' # {} -> S(Reply(c)')
          [] OTHER -> [cpu |-> cpu'[c], op |-> waiting'[c]]
  BY Zenon DEF AbstractCpu
<1> HIDE DEF S
<1> QED BY <1>1, <1>2 DEF k

\* A step that leaves what AtomicPair constrains.
LEMMA AbstractStutter ==
    ASSUME UNCHANGED <<bus_free_time, last_grant_cpu, last_addr, producer_last_req_time, memory,
                       devices, trace>>,
           \A c \in CpuIds : AbstractCpu(c)' = AbstractCpu(c)
    PROVE  UNCHANGED Abstract!abstractVars
<1>1. [c \in CpuIds |-> AbstractCpu(c)]' = [c \in CpuIds |-> AbstractCpu(c)]
  OBVIOUS
<1> QED BY <1>1 DEF Abstract!abstractVars, Abstract!timingVars, Abstract!storeVars

\* Neither the CPU nor what is under way to it changes.
LEMMA SameAbstract ==
    ASSUME NEW c \in CpuIds, cpu'[c] = cpu[c], waiting'[c] = waiting[c], resp'[c] = resp[c],
           ResultsFor(c)' = ResultsFor(c), ResultsFor(c) # {} => Reply(c)' = Reply(c)
    PROVE  AbstractCpu(c)' = AbstractCpu(c)
BY AbstractCases, AbstractCasesNext

\* A sequence without elements.
LEMMA NoElements ==
    ASSUME NEW s, IsSeq(s), Len(s) = 0
    PROVE  s = <<>>
<1>1. PICK S : s \in Seq(S)
  BY DEF IsSeq
<1> QED BY <1>1

\* An operation that no result answers and no reply is posted for.
LEMMA Unanswered1 ==
    ASSUME IInv, NEW c \in CpuIds
    PROVE  /\ ~Has(p[c]) => ResultsFor(c) = {}
           /\ Has(p[c]) => resp[c] = <<>> /\ Has(waiting[c]) /\ p[c] = waiting[c]
<1>1. ~Has(p[c]) => ResultsFor(c) = {}
  BY ResultsAreHeld
<1>2. Has(p[c]) => resp[c] = <<>>
  BY OpHeld, NoElements, Links DEF FlightOK
<1> QED BY <1>1, <1>2, OpHeld

\* A producer does nothing that AtomicPair sees: the abstract CPU has already
\* taken the reply and run to its next operation.
LEMMA ProducerStutters ==
    ASSUME IInv, NEW c \in CpuIds, Producer(c)
    PROVE  UNCHANGED Abstract!abstractVars
<1>1. /\ UNCHANGED <<p, call>>
      /\ UNCHANGED <<bus_free_time, last_grant_cpu, last_addr, producer_last_req_time, memory,
                     devices, trace>>
  BY DEF Producer, arbVars, coordVars, timingVars, storeVars, traceVars
<1>2. \A d \in CpuIds : ResultsFor(d)' = ResultsFor(d) /\ Reply(d)' = Reply(d)
  BY <1>1 DEF ResultsFor, Reply
<1>3. DOMAIN cpu = CpuIds /\ DOMAIN waiting = CpuIds /\ DOMAIN resp = CpuIds
  BY DEF IInv, DomInv
<1>4. ASSUME NEW d \in CpuIds, d # c
      PROVE  cpu'[d] = cpu[d] /\ waiting'[d] = waiting[d] /\ resp'[d] = resp[d]
  BY <1>3, <1>4 DEF Producer, SendRequest, SendProgress, SendNotify, TakeResponse, PollEmpty,
         ProducerWait, ReplyProgress, ReplyNotify, EndProgress, EndDone, EndNotify, boxVars, pop
<1>5. AbstractCpu(c)' = AbstractCpu(c)
  <2>1. CASE UNCHANGED <<cpu, waiting, resp>>
    BY <1>2, <2>1, SameAbstract
  <2> DEFINE q == produce(cpu[c])
             k == cpu[c]
             script == k.script
  <2>2. script \in Seq(ScriptOp) /\ IsCpu(k, c, script) /\ k.local_time \in Nat
    BY Links DEF CpuOK
  <2>3. Produces(k, q, c, script)
    BY <2>2, ProduceFacts
  <2>4. CASE SendRequest(c)
    <3>1. /\ at[c] = "top" /\ Has(q.op) /\ cpu'[c] = q.cpu /\ waiting'[c] = q.op
          /\ resp'[c] = resp[c]
      BY <1>3, <2>4 DEF SendRequest, Go
    <3>2. ~Has(waiting[c])
      BY <3>1, Links DEF AtOK, Awaiting
    <3>3. AbstractCpu(c) = q
      BY <3>2, AbstractCases
    <3> HIDE DEF q, k, script
    <3>4. q = [cpu |-> q.cpu, op |-> q.op]
      BY <2>3, Zenon DEF Produces
    <3>5. resp[c] = <<>> /\ ResultsFor(c) = {}
      <4>1. ~Has(p[c]) /\ Len(resp[c]) = 0
        BY <3>2, OnePlace, Links
      <4>2. resp[c] = <<>>
        BY <4>1, NoElements, Links DEF FlightOK
      <4> QED BY <4>1, <4>2, Unanswered1
    <3>6. AbstractCpu(c)' = [cpu |-> q.cpu, op |-> q.op]
      BY <1>2, <3>1, <3>5, AbstractCasesNext
    <3> QED BY <3>3, <3>4, <3>6
  <2>5. CASE EndProgress(c)
    <3>1. at[c] = "top" /\ ~Has(q.op) /\ cpu'[c] = q.cpu /\ waiting'[c] = waiting[c]
      BY <1>3, <2>5 DEF EndProgress, Go
    <3>2. ~Has(waiting[c])
      BY <3>1, Links DEF AtOK, Awaiting
    <3>3. AbstractCpu(c) = q /\ AbstractCpu(c)' = produce(cpu'[c])
      BY <3>1, <3>2, AbstractCases, AbstractCasesNext
    <3> HIDE DEF q, k, script
    <3>4. /\ IsCpu(q.cpu, c, script) /\ q.cpu.pc = Len(script) + 1 /\ q.cpu.local_time \in Nat
          /\ q = [cpu |-> q.cpu, op |-> q.op] /\ q.op = NoOp
      BY <2>2, <2>3, <3>1, Zenon DEF Produces
    <3>5. produce(q.cpu) = [cpu |-> q.cpu, op |-> NoOp]
      BY <2>2, <3>4, ProduceAtEnd
    <3> QED BY <3>1, <3>3, <3>4, <3>5
  <2>6. CASE TakeResponse(c)
    <3> DEFINE r == Head(resp[c])
    <3>1. /\ at[c] = "poll" /\ resp[c] # <<>> /\ waiting'[c] = NoOp
          /\ cpu'[c] = apply_response(cpu[c], r.index, r.response, r.token)
      BY <1>3, <2>6 DEF TakeResponse, Go
    <3>2. Has(waiting[c]) /\ ~Has(NoOp)
      BY <3>1, Links DEF AtOK, Awaiting, Has, NoOp
    <3>3. AbstractCpu(c) = Served(cpu[c], r)
      BY <3>1, <3>2, AbstractCases
    <3>4. AbstractCpu(c)' = produce(cpu'[c])
      BY <3>1, <3>2, AbstractCasesNext
    <3> QED BY <3>1, <3>3, <3>4 DEF Served
  <2> QED BY <2>1, <2>4, <2>5, <2>6
          DEF Producer, SendProgress, SendNotify, PollEmpty, ProducerWait, ReplyProgress,
              ReplyNotify, EndDone, EndNotify, boxVars
<1>6. \A d \in CpuIds : AbstractCpu(d)' = AbstractCpu(d)
  BY <1>2, <1>4, <1>5, SameAbstract
<1> QED BY <1>1, <1>6, AbstractStutter

\* Nor does a step that leaves the CPUs, the replies and the results.
LEMMA QuietStutters ==
    ASSUME UNCHANGED <<cpu, waiting, resp, bus_free_time, last_grant_cpu, last_addr,
                       producer_last_req_time, memory, devices, trace>>,
           call'.committed = call.committed,
           call.committed = <<>> \/ p' = p
    PROVE  UNCHANGED Abstract!abstractVars
<1>1. \A c \in CpuIds : ResultsFor(c)' = ResultsFor(c)
  BY DEF ResultsFor
<1>2. \A c \in CpuIds : ResultsFor(c) # {} => Reply(c)' = Reply(c)
  <2>1. CASE call.committed = <<>>
    BY <2>1, EmptyIsSeq DEF ResultsFor
  <2>2. CASE p' = p
    BY <2>2 DEF Reply, ResultsFor
  <2> QED BY <2>1, <2>2
<1>3. \A c \in CpuIds : AbstractCpu(c)' = AbstractCpu(c)
  BY <1>1, <1>2, SameAbstract
<1> QED BY <1>3, AbstractStutter

\* Posting the replies does nothing either: the abstract CPU has them.
LEMMA RespondStutters == IInv /\ Respond => UNCHANGED Abstract!abstractVars
<1> SUFFICES ASSUME IInv, Respond PROVE UNCHANGED Abstract!abstractVars
  OBVIOUS
<1>1. /\ UNCHANGED <<cpu, waiting>> /\ call' = IdleCall
      /\ resp' = [c \in CpuIds |-> IF ResultsFor(c) # {} THEN Append(resp[c], Reply(c)) ELSE resp[c]]
      /\ UNCHANGED <<bus_free_time, last_grant_cpu, last_addr, producer_last_req_time, memory,
                     devices, trace>>
  BY DEF Respond, producerVars, BatchFinish, timingVars, storeVars, traceVars
<1>2. \A c \in CpuIds : ResultsFor(c)' = {}
  BY <1>1, EmptyIsSeq DEF ResultsFor, IdleCall
<1>3. ASSUME NEW c \in CpuIds PROVE AbstractCpu(c)' = AbstractCpu(c)
  <2>1. CASE ResultsFor(c) = {}
    BY <1>1, <1>2, <2>1, SameAbstract
  <2>2. CASE ResultsFor(c) # {}
    <3> DEFINE r == Reply(c)
               rs == Append(resp[c], r)
    <3>1. Has(waiting[c]) /\ resp[c] = <<>>
      BY <2>2, ResultsAreHeld, Unanswered1
    <3>2. AbstractCpu(c) = Served(cpu[c], r)
      BY <2>2, <3>1, AbstractCases
    <3>3. resp'[c] = rs
      BY <1>1, <2>2
    <3> HIDE DEF r
    <3>4. rs # <<>> /\ Head(rs) = r
      BY <3>1
    <3> HIDE DEF rs
    <3>5. AbstractCpu(c)' = Served(cpu[c], r)
      BY <1>1, <3>1, <3>3, <3>4, AbstractCasesNext
    <3> QED BY <3>2, <3>5
  <2> QED BY <2>1, <2>2
<1> QED BY <1>1, <1>3, AbstractStutter

\* The two CPUs, as AtomicPair sees them, do not ask for the bus at the same tick
Untied ==
    Has(AbstractCpu(0).op) /\ Has(AbstractCpu(1).op) =>
        AbstractCpu(0).op.op.req # AbstractCpu(1).op.op.req

\* A reply moves the CPU's clock on.
LEMMA ServedLater ==
    ASSUME IInv, NEW c \in CpuIds, Has(waiting[c]), NEW r, NEW q, q = Served(cpu[c], r),
           r.index = waiting[c].index, r.response.stall \in Nat
    PROVE  Has(q.op) => q.op.op.req \in Nat /\ cpu[c].local_time <= q.op.op.req
<1> DEFINE k == cpu[c]
           script == k.script
           index == r.index
           response == r.response
           token == r.token
           l == apply_response(k, index, response, token)
<1>1. /\ script \in Seq(ScriptOp) /\ IsCpu(k, c, script) /\ k.local_time \in Nat
      /\ index \in 1..Len(script) /\ script[index].kind \in BusKinds
  BY Links DEF CpuOK, WaitOK, IsOpFor
<1>2. q = produce(l) /\ response.stall \in Nat
  BY DEF Served
<1> HIDE DEF k, script, index, response, token
<1>3. IsCpu(l, c, script) /\ Replies(k, l, script[index], response, token)
  BY <1>1, ReplyFacts
<1> HIDE DEF l
<1>4. l.local_time = k.local_time + response.stall
  BY <1>3, Zenon DEF Replies
<1>5. l.local_time \in Nat /\ k.local_time <= l.local_time
  BY <1>1, <1>2, <1>4
<1>6. Produces(l, q, c, script)
  BY <1>1, <1>2, <1>3, ProduceFacts
<1>7. /\ q.cpu.local_time \in Nat /\ l.local_time <= q.cpu.local_time
      /\ Has(q.op) => q.op.op.req = q.cpu.local_time
  BY <1>5, <1>6, Zenon DEF Produces, IsOpFor
<1> QED BY <1>1, <1>5, <1>7 DEF k

\* The abstract CPU does not ask earlier than the CPU's clock.
LEMMA AbstractLater ==
    ASSUME IInv, NEW c \in CpuIds, Has(AbstractCpu(c).op)
    PROVE  AbstractCpu(c).op.op.req \in Nat /\ cpu[c].local_time <= AbstractCpu(c).op.op.req
<1> DEFINE q == AbstractCpu(c)
           k == cpu[c]
           script == k.script
<1>1. script \in Seq(ScriptOp) /\ IsCpu(k, c, script) /\ k.local_time \in Nat
  BY Links DEF CpuOK
<1>2. CASE ~Has(waiting[c])
  <2>1. q = produce(k)
    BY <1>2, AbstractCases
  <2> HIDE DEF q, k, script
  <2>2. Produces(k, q, c, script)
    BY <1>1, <2>1, ProduceFacts
  <2>3. /\ q.cpu.local_time \in Nat /\ k.local_time <= q.cpu.local_time
        /\ q.op.op.req = q.cpu.local_time
    BY <1>1, <2>2, Zenon DEF Produces, IsOpFor, q
  <2> QED BY <2>3 DEF q, k
<1>3. CASE Has(waiting[c]) /\ resp[c] # <<>>
  <2> DEFINE r == Head(resp[c])
  <2>1. q = Served(cpu[c], r)
    BY <1>3, AbstractCases
  <2>2. r.index = waiting[c].index /\ r.response.stall \in Nat
    BY <1>3, OnePlace, Links
  <2> HIDE DEF r, q
  <2>3. Has(q.op) => q.op.op.req \in Nat /\ cpu[c].local_time <= q.op.op.req
    BY <1>3, <2>1, <2>2, ServedLater
  <2> QED BY <2>3 DEF q
<1>4. CASE Has(waiting[c]) /\ resp[c] = <<>> /\ ResultsFor(c) # {}
  <2> DEFINE r == Reply(c)
  <2>1. q = Served(cpu[c], r)
    BY <1>4, AbstractCases
  <2>2. r.response.stall \in Nat /\ p[c] = waiting[c]
    BY <1>4, ResultsAreHeld, Unanswered1
  <2>3. r.index = waiting[c].index
    BY <2>2 DEF Reply
  <2> HIDE DEF r, q
  <2>4. Has(q.op) => q.op.op.req \in Nat /\ cpu[c].local_time <= q.op.op.req
    BY <1>4, <2>1, <2>2, <2>3, ServedLater
  <2> QED BY <2>4 DEF q
<1>5. CASE Has(waiting[c]) /\ resp[c] = <<>> /\ ResultsFor(c) = {}
  <2>1. q = [cpu |-> cpu[c], op |-> waiting[c]]
    BY <1>5, AbstractCases
  <2>2. waiting[c].op.req = cpu[c].local_time
    BY <1>5, Links DEF WaitOK, IsOpFor
  <2> QED BY <1>1, <2>1, <2>2
<1> QED BY <1>2, <1>3, <1>4, <1>5

\* The operation that the arbiter executes is the one that AtomicPair lets go
\* first, and it is alone within the horizon.
LEMMA GoesFirst ==
    ASSUME IInv, Untied, coord = "batch", call.phase = "commit",
           NEW c, NEW w, NEW e, CommitOf(c, w, e), NEW d, d = 1 - c
    PROVE  /\ AbstractCpu(c) = [cpu |-> cpu[c], op |-> p[c]]
           /\ ResultsFor(c) = {}
           /\ Has(AbstractCpu(d).op) => p[c].op.req < AbstractCpu(d).op.op.req
           /\ ~HadTie(w)
<1> DEFINE op == p[c].op
           peer == AbstractCpu(d)
<1>1. PICK D, h : D = Holding /\ h = HeldOp /\ OnePerCpu(D, h)
  BY HeldBatch
<1>2. /\ c \in CpuIds /\ Has(p[c]) /\ op.req = cpu[c].local_time /\ op.req \in Nat /\ op.cpu = c
      /\ w \in 1..Len(call.pending) /\ call.pending[w].op = op /\ CommitSafe(op)
      /\ p[c] = waiting[c] /\ Has(waiting[c]) /\ resp[c] = <<>>
  BY OpHeld, Unanswered1 DEF CommitOf, Committable
<1>3. d \in CpuIds /\ d # c /\ (\A x \in CpuIds : x = c \/ x = d)
  BY <1>2 DEF CpuIds
<1>4. /\ Answering(D, h) /\ call.pending \in Seq([index : Nat, op : Ops(D, h)])
      /\ Len(call.pending) \in Nat
  BY <1>1 DEF OnePerCpu, BatchOf
<1>5. ResultsFor(c) = {}
  <2>1. ASSUME NEW k \in 1..Len(call.committed) PROVE call.committed[k].op.cpu # c
    <3>1. call.pending[w].op.cpu = c
      BY <1>2
    <3> QED BY <1>2, <1>4, <3>1 DEF Answering
  <2> QED BY <2>1 DEF ResultsFor
<1>6. AbstractCpu(c) = [cpu |-> cpu[c], op |-> p[c]]
  BY <1>2, <1>5, AbstractCases
<1>7. Has(peer.op) => op.req # peer.op.op.req
  <2>1. Has(AbstractCpu(c).op) /\ AbstractCpu(c).op.op = op
    BY <1>2, <1>6
  <2> HIDE DEF op
  <2> QED BY <1>2, <1>3, <2>1 DEF Untied, CpuIds
<1>8. op.req <= cpu[d].local_time /\ cpu[d].local_time \in Nat
  BY <1>2, <1>3, NotAhead
<1>9. Has(peer.op) => op.req < peer.op.op.req
  <2>1. Has(peer.op) => peer.op.op.req \in Nat /\ cpu[d].local_time <= peer.op.op.req
    BY <1>3, AbstractLater
  <2> HIDE DEF peer, op
  <2> QED BY <1>2, <1>7, <1>8, <2>1
<1>10. ~HadTie(w)
  <2> SUFFICES ASSUME NEW i \in Committable \ {w} PROVE FALSE
    BY DEF HadTie
  <2>1. i \in 1..Len(call.pending) /\ i # w /\ CommitSafe(call.pending[i].op)
    BY DEF Committable
  <2>2. call.pending[i] \in [index : Nat, op : Ops(D, h)]
    BY <1>4, <2>1, ElementType
  <2>3. call.pending[i].op \in Ops(D, h)
    BY <2>2
  <2>4. PICK x \in CpuIds : Has(p[x]) /\ call.pending[i].op = p[x].op
    BY <1>1, <2>3 DEF Ops, Holding, HeldOp
  <2>5. p[x].op.cpu = x /\ p[x].op.req \in Nat /\ p[x].op.req = cpu[x].local_time
    BY <2>4, OpHeld
  <2>6. x = d
    BY <1>2, <1>3, <1>4, <2>1, <2>4, <2>5, SMTT(40) DEF Answering
  <2>7. ResultsFor(d) = {}
    <3>1. call.pending[i].op.cpu = d
      BY <2>4, <2>5, <2>6
    <3>2. ASSUME NEW k \in 1..Len(call.committed) PROVE call.committed[k].op.cpu # d
      BY <1>4, <2>1, <3>1 DEF Answering
    <3> QED BY <3>2 DEF ResultsFor
  <2>8. peer = [cpu |-> cpu[d], op |-> p[d]]
    BY <1>3, <2>4, <2>6, <2>7, AbstractCases, Unanswered1
  <2>9. op.req < p[d].op.req
    BY <1>9, <2>4, <2>6, <2>8
  <2>10. p[d].op.req <= cpu[c].local_time
    BY <1>2, <2>1, <2>4, <2>5, <2>6, NotAhead
  <2> QED BY <1>2, <2>5, <2>6, <2>9, <2>10
<1> QED BY <1>5, <1>6, <1>9, <1>10

\* An iteration of the second loop is a commit of AtomicPair.
LEMMA CommitRefines ==
    ASSUME IInv, Untied, InBatch, BatchCommit
    PROVE  Abstract!Next
<1>1. /\ coord = "batch" /\ call.phase = "commit" /\ UNCHANGED <<cpu, waiting, resp, p>>
  BY DEF InBatch, BatchCommit, producerVars, boxVars, coordVars
<1>2. PICK c, w, e : CommitOf(c, w, e)
  BY <1>1, CommitFacts
<1> DEFINE d == 1 - c
           op == p[c].op
           response == Response(op, FALSE)
           me == AbstractCpu(c)
           peer == AbstractCpu(d)
           done0 == call.committed
<1>3. /\ me = [cpu |-> cpu[c], op |-> p[c]] /\ ResultsFor(c) = {} /\ HadTie(w) = FALSE
      /\ Has(peer.op) => op.req < peer.op.op.req
  <2>1. /\ me = [cpu |-> cpu[c], op |-> p[c]] /\ ResultsFor(c) = {} /\ ~HadTie(w)
        /\ Has(peer.op) => op.req < peer.op.op.req
    BY <1>1, <1>2, GoesFirst
  <2>2. HadTie(w) \in BOOLEAN
    BY DEF HadTie
  <2> QED BY <2>1, <2>2
<1>4. PICK D, h : D = Holding /\ h = HeldOp /\ OnePerCpu(D, h)
  BY <1>1, HeldBatch
<1>5. /\ c \in CpuIds /\ Has(p[c]) /\ op.cpu = c /\ op.req \in Nat
      /\ Has(waiting[c]) /\ resp[c] = <<>>
  BY <1>2, OpHeld, Unanswered1 DEF CommitOf
<1>6. /\ e.op = op /\ e.response = response /\ execute_commit(op, FALSE)
      /\ w \in 1..Len(call.pending) /\ call.pending[w].op = op /\ Serves(w, e)
  BY <1>2, <1>3 DEF CommitOf, Committable
<1>7. d \in CpuIds /\ d # c /\ c = 1 - d /\ \A x \in CpuIds : x = c \/ x = d
  BY <1>5 DEF CpuIds
<1>8. /\ Len(done0) \in Nat /\ Len(call'.committed) = Len(done0) + 1
      /\ \A i \in 1..Len(done0) : call'.committed[i] = done0[i]
      /\ call'.committed[Len(done0) + 1] = e
  BY <1>1, <1>4, <1>6, OneCommit
<1> HIDE DEF op, response, done0
<1>9. ResultsFor(c)' = {Len(done0) + 1} /\ ResultsFor(d)' = ResultsFor(d)
  <2>1. \A i \in 1..Len(call'.committed) : i \in 1..Len(done0) \/ i = Len(done0) + 1
    BY <1>8
  <2>2. \A i \in 1..Len(done0) : done0[i].op.cpu # c
    BY <1>3 DEF ResultsFor, done0
  <2>3. Len(done0) + 1 \in 1..Len(call'.committed)
    BY <1>8
  <2>4. \A i \in 1..Len(done0) : i \in 1..Len(call'.committed)
    BY <1>8
  <2>5. ResultsFor(c)' = {i \in 1..Len(call'.committed) : call'.committed[i].op.cpu = c}
    BY DEF ResultsFor
  <2>6. ResultsFor(d)' = {i \in 1..Len(call'.committed) : call'.committed[i].op.cpu = d}
    BY DEF ResultsFor
  <2>7. ResultsFor(d) = {i \in 1..Len(done0) : done0[i].op.cpu = d}
    BY DEF ResultsFor, done0
  <2>8. e.op.cpu = c
    BY <1>5, <1>6
  <2>9. ResultsFor(c)' = {Len(done0) + 1}
    BY <1>8, <2>1, <2>2, <2>3, <2>5, <2>8
  <2>10. ResultsFor(d)' = ResultsFor(d)
    BY <1>7, <1>8, <2>1, <2>4, <2>6, <2>7, <2>8, ZenonT(40)
  <2> QED BY <2>9, <2>10
<1>10. AbstractCpu(d)' = AbstractCpu(d)
  <2>1. ASSUME ResultsFor(d) # {} PROVE Reply(d)' = Reply(d)
    <3> DEFINE k == CHOOSE k \in ResultsFor(d) : TRUE
    <3>1. k \in 1..Len(done0)
      BY <2>1 DEF ResultsFor, done0
    <3>2. Reply(d) = [index |-> p[d].index, token |-> p[d].op.token, response |-> done0[k].response]
      BY Zenon DEF Reply, done0
    <3>3. Reply(d)' = [index |-> p[d].index, token |-> p[d].op.token,
                       response |-> call'.committed[k].response]
      BY <1>1, <1>9, Zenon DEF Reply
    <3> HIDE DEF k
    <3> QED BY <1>8, <3>1, <3>2, <3>3
  <2> QED BY <1>1, <1>7, <1>9, <2>1, SameAbstract
<1> DEFINE served == apply_response(cpu[c], p[c].index, response, op.token)
<1>11. AbstractCpu(c)' = produce(served)
  <2> DEFINE k == CHOOSE k \in ResultsFor(c)' : TRUE
             r == [index |-> p[c].index, token |-> op.token, response |-> response]
  <2>1. k = Len(done0) + 1
    BY <1>9
  <2>2. Reply(c)' = [index |-> p[c].index, token |-> p[c].op.token,
                     response |-> call'.committed[k].response]
    BY <1>1, Zenon DEF Reply
  <2> HIDE DEF k
  <2>3. Reply(c)' = r
    BY <1>6, <1>8, <2>1, <2>2 DEF op
  <2>4. Has(waiting'[c]) /\ resp'[c] = <<>> /\ ResultsFor(c)' # {}
    BY <1>1, <1>5, <1>9
  <2>5. AbstractCpu(c)' = Served(cpu[c], r)
    BY <1>1, <1>5, <2>3, <2>4, AbstractCasesNext
  <2> QED BY <2>5 DEF Served
<1>12. me.cpu = cpu[c] /\ me.op = p[c] /\ me.op.op = op /\ Abstract!Has(me.op)
  BY <1>3, <1>5 DEF Has, Abstract!Has, op
<1>13. Abstract!Tied(me, peer) = FALSE /\ Abstract!Wins(me, peer)
  <2>1. Has(peer.op) => op.req < peer.op.op.req /\ op.req # peer.op.op.req
    <3>1. Has(peer.op) => peer.op.op.req \in Nat
      BY <1>7, AbstractLater
    <3> HIDE DEF peer
    <3> QED BY <1>3, <1>5, <3>1 DEF op
  <2>2. Abstract!Has(peer.op) <=> Has(peer.op)
    BY DEF Has, Abstract!Has
  <2> HIDE DEF me, peer
  <2> QED BY <1>12, <2>1, <2>2 DEF Abstract!Tied, Abstract!Wins
<1> DEFINE C == [x \in CpuIds |-> AbstractCpu(x)]
<1>14. C[c] = me /\ C[d] = peer
  BY <1>5, <1>7
<1>15. C' = [C EXCEPT ![c] = produce(served)]
  <2>1. \A x \in CpuIds : C'[x] = [C EXCEPT ![c] = produce(served)][x]
    BY <1>5, <1>7, <1>10, <1>11
  <2> QED BY <2>1
<1> HIDE DEF me, peer, served
<1>16. Abstract!execute_commit(me.op.op, Abstract!Tied(me, peer))
  BY <1>6, <1>12, <1>13, SameExecute
<1>17. served = Abstract!apply_response(me.cpu, me.op.index,
                    Abstract!Response(me.op.op, Abstract!Tied(me, peer)), me.op.op.token)
  BY <1>12, <1>13, SameApply, SameResponse DEF served, response
<1>18. Abstract!produce(served) = produce(served)
  BY SameProduce
<1>19. Abstract!Commit(c)
  BY <1>7, <1>12, <1>13, <1>14, <1>15, <1>16, <1>17, <1>18, Zenon DEF Abstract!Commit, d
<1> QED BY <1>5, <1>19 DEF Abstract!Next, Abstract!CpuIds, CpuIds

\* The program starts as AtomicPair does.
LEMMA InitRefines == Init => Abstract!Init
<1> SUFFICES ASSUME Init PROVE Abstract!Init
  OBVIOUS
<1>1. PICK s \in Scripts : cpu = [c \in CpuIds |-> NewCpu(c, s[c + 1])]
  BY DEF Init
<1> DEFINE C == [c \in CpuIds |-> AbstractCpu(c)]
<1>2. ASSUME NEW c \in CpuIds
      PROVE  C[c] = produce(NewCpu(c, s[c + 1])) /\ C[c].cpu.script = s[c + 1]
  <2> DEFINE script == s[c + 1]
             k == NewCpu(c, script)
             q == produce(k)
  <2>1. script \in Seq(ScriptOp)
    BY ScriptsAssumption DEF CpuIds
  <2>2. ~Has(waiting[c]) /\ cpu[c] = k
    BY <1>1 DEF Init, Has, NoOp
  <2>3. C[c] = q
    BY <2>2, AbstractCases
  <2> HIDE DEF script
  <2>4. IsCpu(k, c, script)
    BY <2>1, NewCpuFacts, Zenon
  <2> HIDE DEF k
  <2>5. Produces(k, q, c, script)
    BY <2>1, <2>4, ProduceFacts
  <2> HIDE DEF q
  <2>6. q.cpu.script = script
    BY <2>5, Zenon DEF Produces, IsCpu
  <2> QED BY <2>3, <2>6 DEF script, q, k
<1> HIDE DEF C
<1>3. <<C[0].cpu.script, C[1].cpu.script>> = s /\ 0 \in CpuIds /\ 1 \in CpuIds
  <2>1. C[0].cpu.script = s[1] /\ C[1].cpu.script = s[2]
    BY <1>2 DEF CpuIds
  <2>2. s \in Seq(ScriptOp) \X Seq(ScriptOp)
    BY ScriptsAssumption
  <2> QED BY <2>1, <2>2 DEF CpuIds
<1>4. C = [c \in CpuIds |-> produce(NewCpu(c, s[c + 1]))]
  BY <1>2 DEF C
<1>5. C = [c \in Abstract!CpuIds |-> Abstract!produce(Abstract!NewCpu(c, s[c + 1]))]
  <2>1. Abstract!CpuIds = CpuIds
    BY DEF CpuIds, Abstract!CpuIds
  <2>2. \A c : Abstract!produce(Abstract!NewCpu(c, s[c + 1])) = produce(NewCpu(c, s[c + 1]))
    BY SameProduce, SameNew
  <2> QED BY <1>4, <2>1, <2>2
<1>6. Abstract!ArbInit /\ halt_on_fault = FALSE
  BY SameNew DEF Init
<1> DEFINE t == <<C[0].cpu.script, C[1].cpu.script>>
<1>7. t \in Scripts /\ C = [c \in Abstract!CpuIds |-> Abstract!produce(Abstract!NewCpu(c, t[c + 1]))]
  BY <1>3, <1>5
<1> HIDE DEF t
<1> QED BY <1>6, <1>7, Zenon DEF Abstract!Init, C, t

\* Outside commit_batch there are no results.
LEMMA NoResults ==
    ASSUME IInv, coord # "batch"
    PROVE  call.committed = <<>>
BY DEF IInv, CallInv, IdleCall

\* A step of any thread is a commit of AtomicPair or nothing that it sees.
LEMMA NextRefines ==
    ASSUME IInv, Untied, [Next]_vars
    PROVE  [Abstract!Next]_(Abstract!abstractVars)
<1>1. CASE StartThreads
  BY <1>1, QuietStutters, NoResults DEF StartThreads, timingVars, storeVars, traceVars, boxVars
<1>2. ASSUME NEW c \in CpuIds, PopRequest(c) PROVE UNCHANGED Abstract!abstractVars
  BY <1>2, QuietStutters, NoResults
     DEF PopRequest, arbVars, producerVars, timingVars, storeVars, traceVars
<1>3. ASSUME NEW c \in CpuIds, PopProgress(c) PROVE UNCHANGED Abstract!abstractVars
  BY <1>3, QuietStutters
     DEF PopProgress, update_progress, producerVars, timingVars, storeVars, traceVars
<1>4. ASSUME NEW c \in CpuIds, ProgressEmpty(c) PROVE UNCHANGED Abstract!abstractVars
  BY <1>4, QuietStutters
     DEF ProgressEmpty, arbVars, boxVars, producerVars, timingVars, storeVars, traceVars
<1>5. CASE Classify \/ CoordNotify \/ Check \/ CoordWait \/ Join \/ Terminated \/ UNCHANGED vars
  BY <1>5, QuietStutters
     DEF Classify, CoordNotify, Check, CoordWait, Join, Terminated, vars, arbVars, producerVars,
         boxVars, coordVars, timingVars, storeVars, traceVars
<1>6. CASE CallBatch
  <2>1. call'.committed = call.committed
    BY <1>6, NoResults DEF CallBatch, BatchCall, IdleCall
  <2> QED BY <1>6, <2>1, QuietStutters
          DEF CallBatch, BatchCall, producerVars, boxVars, timingVars, storeVars, traceVars
<1>7. CASE InBatch
  <2>1. PICK D, h : OnePerCpu(D, h) /\ BatchOf(Ops(D, h))
    BY <1>7 DEF InBatch, IInv, CallInv, OnePerCpu
  <2>2. CASE BatchEnqueue
    <3>1. UNCHANGED traceVars
      BY <2>1, <2>2, OneEnqueue DEF IInv, ArbInv
    <3>2. call'.committed = call.committed
      BY <2>1, <2>2, BatchEnqueueOf
    <3> QED BY <1>7, <2>2, <3>1, <3>2, QuietStutters
            DEF InBatch, BatchEnqueue, producerVars, boxVars, coordVars, timingVars, storeVars,
                traceVars
  <2>3. CASE BatchEnqueued \/ BatchReturn
    <3>1. call'.committed = call.committed
      BY <2>1, <2>3, BatchPhaseOf
    <3> QED BY <1>7, <2>3, <3>1, QuietStutters
            DEF InBatch, BatchEnqueued, BatchReturn, producerVars, boxVars, coordVars, timingVars,
                storeVars, traceVars
  <2>4. CASE BatchCommit
    BY <1>7, <2>4, CommitRefines
  <2> QED BY <1>7, <2>2, <2>3, <2>4 DEF InBatch
<1>8. CASE Respond
  BY <1>8, RespondStutters
<1>9. ASSUME NEW c \in CpuIds, Producer(c) PROVE UNCHANGED Abstract!abstractVars
  BY <1>9, ProducerStutters
<1> QED BY <1>1, <1>2, <1>3, <1>4, <1>5, <1>6, <1>7, <1>8, <1>9 DEF Next, CoordStep

\* For all scripts, latencies and devices: in a run whose CPUs never ask for the bus
\* at the same tick, run_scripted_pair_multithread commits exactly the operations, in
\* exactly the order and with exactly the timing, that AtomicPair prescribes, however
\* its threads interleave.  A tie is the one case left out: the coordinator may execute
\* one of the two operations before it holds the other.
THEOREM ThreadsImplementAtomicPair == Spec /\ []Untied => TraceParity
<1>1. IInv /\ Untied /\ [Next]_vars => [Abstract!Next]_(Abstract!abstractVars)
  BY NextRefines
<1> QED BY <1>1, InitIInv, NextIInv, InitRefines, PTL DEF Spec, TraceParity, Abstract!Spec
=============================================================================
