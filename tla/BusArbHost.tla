----------------------------- MODULE BusArbHost -----------------------------
(***************************************************************************)
(* libbusarb and its two callers.  An "adapter" follows the pattern of     *)
(* docs/libbusarb_integration.md: every master has at most one request;    *)
(* the adapter queries the contenders, picks a winner and commits it.      *)
(* "replay" is tools/trace_replay: it only commits grants, in the order in *)
(* which the recorded accesses completed, with the tick of their first     *)
(* attempt, which may lie far before the tick at which the bus is free.    *)
(***************************************************************************)
EXTENDS BusArb, SequencesExt

CONSTANTS
    Requests,     \* the requests that the masters make
    ReplayTicks,  \* ticks of first attempts in a replayed trace
    MaxTick       \* bound on the adapter's time and on the start of a grant

ASSUME HostAssumption ==
    /\ Requests \subseteq BusRequest
    /\ ReplayTicks \subseteq Nat
    /\ MaxTick \in Nat

VARIABLES
    mode,     \* "adapter" or "replay"
    now,      \* the adapter's tick
    waiting,  \* requests that have not been granted, at most one per master
    told,     \* master -> tick until which it was last told to wait
    bypass,   \* CPU -> grants to the other CPU while it has been contending
    grant     \* the last grant: first tick and end of its occupation of the bus

hostVars == <<mode, now, waiting, told, bypass, grant>>
vars == <<arbVars, hostVars>>

Waiting == {r.master : r \in waiting}

\* Masters that have waited for as long as they were told
Awake == {m \in Waiting : told[m] <= now}

Other(cpu) == CHOOSE c \in Cpus : c # cpu

Init ==
    /\ ArbInit
    /\ mode \in {"adapter", "replay"}
    /\ now = 0
    /\ waiting = {}
    /\ told = [m \in Masters |-> 0]
    /\ bypass = [c \in Cpus |-> 0]
    /\ grant = [start |-> 0, finish |-> 0]

Record(req, tick_start, had_tie) ==
    /\ actual_start(tick_start) <= MaxTick
    /\ commit_grant(req, tick_start, had_tie)
    /\ grant' = [start |-> actual_start(tick_start), finish |-> bus_free_tick']

\* A master asks for the bus and is told how long to wait
Request(req) ==
    /\ mode = "adapter"
    /\ req.master \notin Waiting
    /\ waiting' = waiting \cup {req}
    /\ told' = [told EXCEPT ![req.master] = now + query_wait(now)]
    /\ UNCHANGED <<arbVars, mode, now, bypass, grant>>

\* A master that has waited, but not for long enough, asks again
Requery(m) ==
    /\ mode = "adapter"
    /\ m \in Awake
    /\ query_wait(now) > 0
    /\ told' = [told EXCEPT ![m] = now + query_wait(now)]
    /\ UNCHANGED <<arbVars, mode, now, waiting, bypass, grant>>

Contenders == {r \in waiting : r.master \in Awake}

HadTie(req) == \E m \in Awake \ {req.master} : priority(m) = priority(req.master)

\* pick_winner on the contenders, which the caller lists in any order
Winners == {s[pick_winner(s)] : s \in SetToSeqs(Contenders)}

\* The bus is free: commit the winner among the contenders
Arbitrate ==
    /\ mode = "adapter"
    /\ query_wait(now) = 0
    /\ \E winner \in Contenders :
         /\ winner \in Winners
         /\ Record(winner, now, HadTie(winner))
         /\ waiting' = waiting \ {winner}
         /\ told' = [told EXCEPT ![winner.master] = 0]
         /\ bypass' = [c \in Cpus |->
               CASE c = winner.master -> 0
                 [] c \in Waiting /\ winner.master = Other(c) -> bypass[c] + 1
                 [] OTHER -> bypass[c]]
    /\ UNCHANGED <<mode, now>>

Tick ==
    /\ mode = "adapter"
    /\ now < MaxTick
    /\ now' = now + 1
    /\ UNCHANGED <<arbVars, mode, waiting, told, bypass, grant>>

\* trace_replay commits one record
Replay(req, tick_first_attempt) ==
    /\ mode = "replay"
    /\ Record(req, tick_first_attempt, FALSE)
    /\ UNCHANGED <<mode, now, waiting, told, bypass>>

Next ==
    \/ \E req \in Requests : Request(req)
    \/ \E m \in Masters : Requery(m)
    \/ Arbitrate
    \/ Tick
    \/ \E req \in Requests, t \in ReplayTicks : Replay(req, t)

Spec == Init /\ [][Next]_vars

-----------------------------------------------------------------------------
(* Properties *)

\* Grants never overlap and each occupies the bus for at least one tick, for
\* both callers, also when a grant is committed for a tick that lies in the past
\* or twice (commit_grant, the clamp of zero cycles in service_cycles).
GrantsSerial ==
    [][grant' # grant => grant.finish <= grant'.start /\ grant'.start < grant'.finish]_vars

\* wait_cycles is a minimum delay: whatever is granted while a master sleeps, and
\* also when the wait was cut to 32 bits, no master is asleep at a tick at which
\* the bus is free (query_wait).
NobodyOversleeps == query_wait(now) = 0 => Waiting = Awake

\* A CPU that contends is passed over by the other CPU at most once, however
\* many DMA grants come between (the round robin of pick_winner and commit_grant).
BoundedBypass == \A c \in Cpus : bypass[c] <= 1

\* The winner among requests of different masters does not depend on the order
\* in which the caller lists them (pick_winner).
WinnerIgnoresOrder == Contenders # {} => \E winner \in Contenders : Winners = {winner}
=============================================================================
