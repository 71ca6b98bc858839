--------------------------- MODULE ScriptedPairMT ---------------------------
(***************************************************************************)
(* run_scripted_pair_multithread of src/core/emulator.cpp: a producer      *)
(* thread per scripted CPU and the coordinating thread that owns the       *)
(* arbiter.  They share three mailboxes and a done flag per CPU and one    *)
(* SignalHub; every access to one of these is a step of its own.           *)
(***************************************************************************)
EXTENDS BusArbiter, ScriptedCpu

CONSTANT Scripts     \* the pairs <<script of CPU 0, script of CPU 1>>

ASSUME ScriptsAssumption == Scripts \subseteq Seq(ScriptOp) \X Seq(ScriptOp)

VARIABLES
    cpu,         \* CPU -> its state, owned by its producer
    waiting,     \* CPU -> the operation its producer waits for, or NoOp
    at,          \* CPU -> where its producer is
    req,         \* CPU -> mailbox of requests to the coordinator
    resp,        \* CPU -> mailbox of responses to the producer
    progress,    \* CPU -> mailbox of watermarks to the coordinator
    done_flag,   \* CPU -> the atomic done0, done1
    woken,       \* thread -> the hub's epoch differs from the thread's seen_epoch
    coord,       \* where the coordinator is
    p,           \* CPU -> the operation the coordinator holds (p0, p1), or NoOp
    progressed,  \* something happened in this iteration
    may_wait     \* waiting_for_peer \/ no_pending of this iteration

producerVars == <<cpu, waiting, at>>
boxVars == <<req, resp, progress, done_flag, woken>>
coordVars == <<coord, p, progressed, may_wait>>
vars == <<arbVars, producerVars, boxVars, coordVars>>

\* The coordinator's name among the threads; a producer is named by its CPU
Coordinator == 2
Threads == CpuIds \cup {Coordinator}

Init ==
    /\ ArbInit
    /\ halt_on_fault = FALSE
    /\ \E s \in Scripts : cpu = [c \in CpuIds |-> NewCpu(c, s[c + 1])]
    /\ waiting = [c \in CpuIds |-> NoOp]
    /\ at = [c \in CpuIds |-> "unborn"]
    /\ req = [c \in CpuIds |-> <<>>]
    /\ resp = [c \in CpuIds |-> <<>>]
    /\ progress = [c \in CpuIds |-> <<>>]
    /\ done_flag = [c \in CpuIds |-> FALSE]
    /\ woken = [t \in Threads |-> FALSE]
    /\ coord = "start"
    /\ p = [c \in CpuIds |-> NoOp]
    /\ progressed = FALSE
    /\ may_wait = FALSE

-----------------------------------------------------------------------------
(* SignalHub.  seen_epoch and epoch_ are only ever compared, so a flag per *)
(* thread says whether they differ.                                        *)

\* Seeded fault: a plain condition variable, which only wakes the threads
\* that wait at the time of the call
NotifyWaitersOnly ==
    woken' = [t \in Threads |->
                woken[t] \/ (IF t = Coordinator THEN coord = "wait" ELSE at[t] = "wait")]

notify == woken' = [t \in Threads |-> TRUE]

\* wait_for_change returns once they differ, and makes them equal
wait_for_change(t) == woken[t] /\ woken' = [woken EXCEPT ![t] = FALSE]

push(box, c, msg) == [box EXCEPT ![c] = Append(@, msg)]
pop(box, c) == [box EXCEPT ![c] = Tail(@)]

-----------------------------------------------------------------------------
(* The producer threads *)

Go(c, from, to) == at[c] = from /\ at' = [at EXCEPT ![c] = to]

\* Run to the next bus operation and send it
SendRequest(c) ==
    /\ Go(c, "top", "send_progress")
    /\ \E q \in {produce(cpu[c])} :
          /\ Has(q.op)
          /\ cpu' = [cpu EXCEPT ![c] = q.cpu]
          /\ waiting' = [waiting EXCEPT ![c] = q.op]
          /\ req' = push(req, c, q.op)
    /\ UNCHANGED <<resp, progress, done_flag, woken>>

\* Seeded fault: the watermark promises one tick too many
OpWatermarkTooFar(c) == waiting[c].op.req + 2

\* The watermark that goes with a request: the request itself is covered
OpWatermark(c) == waiting[c].op.req + 1

SendProgress(c) ==
    /\ Go(c, "send_progress", "send_notify")
    /\ progress' = push(progress, c, OpWatermark(c))
    /\ UNCHANGED <<cpu, waiting, req, resp, done_flag, woken>>

SendNotify(c) ==
    /\ Go(c, "send_notify", "poll")
    /\ notify
    /\ UNCHANGED <<cpu, waiting, req, resp, progress, done_flag>>

\* try_pop finds the response
TakeResponse(c) ==
    /\ Go(c, "poll", "reply_progress")
    /\ resp[c] # <<>>
    /\ \E r \in {Head(resp[c])} :
          cpu' = [cpu EXCEPT ![c] = apply_response(@, r.index, r.response, r.token)]
    /\ waiting' = [waiting EXCEPT ![c] = NoOp]
    /\ resp' = pop(resp, c)
    /\ UNCHANGED <<req, progress, done_flag, woken>>

\* try_pop finds nothing
PollEmpty(c) ==
    /\ Go(c, "poll", "wait")
    /\ resp[c] = <<>>
    /\ UNCHANGED <<cpu, waiting, boxVars>>

ProducerWait(c) ==
    /\ Go(c, "wait", "poll")
    /\ wait_for_change(c)
    /\ UNCHANGED <<cpu, waiting, req, resp, progress, done_flag>>

ReplyProgress(c) ==
    /\ Go(c, "reply_progress", "reply_notify")
    /\ progress' = push(progress, c, cpu[c].local_time)
    /\ UNCHANGED <<cpu, waiting, req, resp, done_flag, woken>>

ReplyNotify(c) ==
    /\ Go(c, "reply_notify", "top")
    /\ notify
    /\ UNCHANGED <<cpu, waiting, req, resp, progress, done_flag>>

\* The script has ended: publish the final time, then done, then notify
EndProgress(c) ==
    /\ Go(c, "top", "end_done")
    /\ \E q \in {produce(cpu[c])} :
          /\ ~Has(q.op)
          /\ cpu' = [cpu EXCEPT ![c] = q.cpu]
          /\ progress' = push(progress, c, q.cpu.local_time)
    /\ UNCHANGED <<waiting, req, resp, done_flag, woken>>

EndDone(c) ==
    /\ Go(c, "end_done", "end_notify")
    /\ done_flag' = [done_flag EXCEPT ![c] = TRUE]
    /\ UNCHANGED <<cpu, waiting, req, resp, progress, woken>>

EndNotify(c) ==
    /\ Go(c, "end_notify", "ended")
    /\ notify
    /\ UNCHANGED <<cpu, waiting, req, resp, progress, done_flag>>

Producer(c) ==
    /\ \/ SendRequest(c) \/ SendProgress(c) \/ SendNotify(c)
       \/ TakeResponse(c) \/ PollEmpty(c) \/ ProducerWait(c)
       \/ ReplyProgress(c) \/ ReplyNotify(c)
       \/ EndProgress(c) \/ EndDone(c) \/ EndNotify(c)
    /\ UNCHANGED <<arbVars, coordVars>>

-----------------------------------------------------------------------------
(* The coordinator *)

\* Both watermarks start at zero; then the threads start
StartThreads ==
    /\ coord = "start"
    /\ coord' = "req0"
    /\ progress_tracking_enabled' = TRUE
    /\ progress_up_to' = Advance(Advance(progress_up_to, 0, 0), 1, 0)
    /\ at' = [c \in CpuIds |-> "top"]
    /\ UNCHANGED <<timingVars, storeVars, traceVars, producer_last_enqueued_req_time, call,
                   cpu, waiting, boxVars, p, progressed, may_wait>>

\* One try_pop on a request mailbox, unless CPU c's operation is already held
PopRequest(c) ==
    /\ coord = (IF c = 0 THEN "req0" ELSE "req1")
    /\ coord' = (IF c = 0 THEN "req1" ELSE "prog0")
    /\ \/ /\ ~Has(p[c]) /\ req[c] # <<>>
          /\ p' = [p EXCEPT ![c] = Head(req[c])]
          /\ req' = pop(req, c)
          /\ progressed' = TRUE
       \/ /\ Has(p[c]) \/ req[c] = <<>>
          /\ UNCHANGED <<p, req, progressed>>
    /\ UNCHANGED <<arbVars, producerVars, resp, progress, done_flag, woken, may_wait>>

\* One try_pop on a progress mailbox; the loop goes on until it is empty
PopProgress(c) ==
    /\ coord = (IF c = 0 THEN "prog0" ELSE "prog1")
    /\ progress[c] # <<>>
    /\ update_progress(c, Head(progress[c]))
    /\ progress' = pop(progress, c)
    /\ progressed' = TRUE
    /\ UNCHANGED <<producerVars, req, resp, done_flag, woken, coord, p, may_wait>>

ProgressEmpty(c) ==
    /\ coord = (IF c = 0 THEN "prog0" ELSE "prog1")
    /\ progress[c] = <<>>
    /\ coord' = (IF c = 0 THEN "prog1" ELSE "classify")
    /\ UNCHANGED <<arbVars, producerVars, boxVars, p, progressed, may_wait>>

waiting_for_peer == \E c \in CpuIds : Has(p[c]) /\ ~Has(p[1 - c]) /\ ~done_flag[1 - c]

no_pending == \A c \in CpuIds : ~Has(p[c])

Classify ==
    /\ coord = "classify"
    /\ may_wait' = (waiting_for_peer \/ no_pending)
    /\ coord' = IF no_pending THEN "check" ELSE "call"
    /\ UNCHANGED <<arbVars, producerVars, boxVars, p, progressed>>

BatchOps ==
    (IF Has(p[0]) THEN <<p[0].op>> ELSE <<>>) \o (IF Has(p[1]) THEN <<p[1].op>> ELSE <<>>)

CallBatch ==
    /\ coord = "call"
    /\ coord' = "batch"
    /\ BatchCall(BatchOps)
    /\ UNCHANGED <<producerVars, boxVars, p, progressed, may_wait>>

InBatch ==
    /\ coord = "batch"
    /\ BatchEnqueue \/ BatchEnqueued \/ BatchCommit \/ BatchReturn
    /\ UNCHANGED <<producerVars, boxVars, coordVars>>

ResultsFor(c) == {k \in 1..Len(call.committed) : call.committed[k].op.cpu = c}

\* The ScriptResponse for CPU c
Reply(c) ==
    LET k == CHOOSE k \in ResultsFor(c) : TRUE
    IN  [index |-> p[c].index, token |-> p[c].op.token, response |-> call.committed[k].response]

\* Seeded fault: an answered operation is not reset
NothingReleased == p

\* What the coordinator still holds once the responses are pushed
Unanswered == [c \in CpuIds |-> IF ResultsFor(c) # {} THEN NoOp ELSE p[c]]

\* Push the responses.  No thread reads both mailboxes, so the two pushes of
\* a tie are one step.
Respond ==
    /\ coord = "batch"
    /\ BatchFinish
    /\ resp' = [c \in CpuIds |->
                  IF ResultsFor(c) # {} THEN Append(resp[c], Reply(c)) ELSE resp[c]]
    /\ p' = Unanswered
    /\ progressed' = (progressed \/ call.committed # <<>>)
    /\ coord' = IF call.committed # <<>> THEN "notify" ELSE "check"
    /\ UNCHANGED <<producerVars, req, progress, done_flag, woken, may_wait>>

CoordNotify ==
    /\ coord = "notify"
    /\ coord' = "check"
    /\ notify
    /\ UNCHANGED <<arbVars, producerVars, req, resp, progress, done_flag, p, progressed, may_wait>>

\* End of the iteration: leave, wait for a signal, or go round again
Check ==
    /\ coord = "check"
    /\ coord' = IF (\A c \in CpuIds : done_flag[c]) /\ no_pending THEN "join"
                ELSE IF ~progressed /\ may_wait THEN "wait" ELSE "req0"
    /\ progressed' = FALSE
    /\ UNCHANGED <<arbVars, producerVars, boxVars, p, may_wait>>

CoordWait ==
    /\ coord = "wait"
    /\ coord' = "req0"
    /\ wait_for_change(Coordinator)
    /\ UNCHANGED <<arbVars, producerVars, req, resp, progress, done_flag, p, progressed, may_wait>>

Join ==
    /\ coord = "join"
    /\ \A c \in CpuIds : at[c] = "ended"
    /\ coord' = "joined"
    /\ UNCHANGED <<arbVars, producerVars, boxVars, p, progressed, may_wait>>

CoordStep ==
    \/ StartThreads
    \/ \E c \in CpuIds : PopRequest(c) \/ PopProgress(c) \/ ProgressEmpty(c)
    \/ Classify \/ CallBatch \/ InBatch \/ Respond \/ CoordNotify \/ Check \/ CoordWait \/ Join

Terminated == coord = "joined" /\ UNCHANGED vars

Next == CoordStep \/ (\E c \in CpuIds : Producer(c)) \/ Terminated

\* The host runs every thread that can run, again and again
Fairness == WF_vars(CoordStep) /\ \A c \in CpuIds : WF_vars(Producer(c))

Spec == Init /\ [][Next]_vars /\ Fairness

-----------------------------------------------------------------------------
(* Properties *)

\* A request is never lost or duplicated between the threads: while a
\* producer waits, its operation is in exactly one of the request mailbox,
\* the coordinator and the response mailbox, and otherwise in none.
OneInFlight ==
    \A c \in CpuIds :
        LET n == Len(req[c]) + Len(resp[c]) + (IF Has(p[c]) THEN 1 ELSE 0)
        IN  n = (IF Has(waiting[c]) THEN 1 ELSE 0)

\* However the threads interleave, the bus executes operations in the order
\* of their request times.
RequestTimeOrder ==
    \A i, j \in 1..Len(trace) : i < j => trace[i].op.req <= trace[j].op.req

\* The abstract CPU: with the reply that is on its way delivered, and
\* advanced to its next bus operation.
AbstractCpu(c) ==
    LET Served(r) ==
            CHOOSE q \in {produce(s) : s \in {apply_response(cpu[c], r.index, r.response, r.token)}} :
                TRUE
    IN  CASE ~Has(waiting[c]) -> produce(cpu[c])
          [] Has(waiting[c]) /\ resp[c] # <<>> -> Served(Head(resp[c]))
          [] Has(waiting[c]) /\ resp[c] = <<>> /\ ResultsFor(c) # {} -> Served(Reply(c))
          [] OTHER -> [cpu |-> cpu[c], op |-> waiting[c]]

Abstract == INSTANCE AtomicPair WITH cpus <- [c \in CpuIds |-> AbstractCpu(c)]

\* The threads commit exactly the operations, in exactly the order and with
\* exactly the timing, that AtomicPair prescribes: the trace of the
\* single-threaded loop.
TraceParity == Abstract!Spec

\* The program ends, with nothing left in a mailbox and every store retired.
Terminates ==
    <>(/\ coord = "joined"
       /\ \A c \in CpuIds : req[c] = <<>> /\ resp[c] = <<>> /\ cpu[c].store_buffer = <<>>)
=============================================================================
