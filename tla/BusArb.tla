------------------------------- MODULE BusArb -------------------------------
(***************************************************************************)
(* libbusarb, the arbitration library for other emulators                  *)
(* (include/busarb/busarb.hpp, src/busarb/busarb.cpp): a wait query that   *)
(* changes nothing, a grant that occupies the bus, and the choice of a     *)
(* winner among the requests of one tick.                                  *)
(***************************************************************************)
EXTENDS Integers, Sequences

CONSTANTS
    access_cycles(_, _, _),   \* the caller's callback: address, is_write, size
    Addrs,                    \* addresses of the requests
    Sizes,                    \* sizes of the requests, in bytes
    same_address_contention,  \* ArbiterConfig
    tie_turnaround,           \* ArbiterConfig
    WaitMax                   \* numeric_limits<uint32_t>::max()

VARIABLES
    bus_free_tick,
    last_granted_addr,  \* or None
    last_granted_cpu    \* or NoCpu

arbVars == <<bus_free_tick, last_granted_addr, last_granted_cpu>>

None == -1
NoCpu == "none"

Cpus == {"SH2_A", "SH2_B"}
Masters == Cpus \cup {"DMA"}

\* struct BusRequest without now_tick, which only query_wait uses
BusRequest == [master : Masters, addr : Addrs, is_write : BOOLEAN, size : Sizes]

ASSUME CallbackAssumption ==
    \A a \in Addrs, w \in BOOLEAN, s \in Sizes : access_cycles(a, w, s) \in Nat

ASSUME ConfigAssumption ==
    /\ Addrs \subseteq Nat
    /\ Sizes \subseteq Nat
    /\ same_address_contention \in Nat
    /\ tie_turnaround \in Nat
    /\ WaitMax \in Nat \ {0}

ArbInit ==
    /\ bus_free_tick = 0
    /\ last_granted_addr = None
    /\ last_granted_cpu = NoCpu

-----------------------------------------------------------------------------
\* Seeded fault: one tick too many
QueryWaitOneMore(now_tick) ==
    CASE now_tick >= bus_free_tick -> 0
      [] OTHER -> IF bus_free_tick - now_tick + 1 <= WaitMax
                    THEN bus_free_tick - now_tick + 1 ELSE WaitMax

\* query_wait(req).wait_cycles; should_wait is wait_cycles > 0
query_wait(now_tick) ==
    CASE now_tick >= bus_free_tick -> 0
      [] OTHER -> IF bus_free_tick - now_tick <= WaitMax
                    THEN bus_free_tick - now_tick ELSE WaitMax

service_cycles(req) ==
    LET cycles == access_cycles(req.addr, req.is_write, req.size)
    IN  IF cycles >= 1 THEN cycles ELSE 1

\* Seeded fault: the grant ignores the transaction that holds the bus
ActualStartEager(tick_start) == tick_start

actual_start(tick_start) == IF tick_start >= bus_free_tick THEN tick_start ELSE bus_free_tick

duration(req, had_tie) ==
    service_cycles(req)
    + (IF last_granted_addr # None /\ req.addr = last_granted_addr
         THEN same_address_contention ELSE 0)
    + (IF had_tie THEN tie_turnaround ELSE 0)

\* Seeded fault: the CPU that was granted is not remembered
CommitGrantForgets(req, tick_start, had_tie) ==
    /\ bus_free_tick' = actual_start(tick_start) + duration(req, had_tie)
    /\ last_granted_addr' = req.addr
    /\ UNCHANGED last_granted_cpu

commit_grant(req, tick_start, had_tie) ==
    /\ bus_free_tick' = actual_start(tick_start) + duration(req, had_tie)
    /\ last_granted_addr' = req.addr
    /\ last_granted_cpu' = IF req.master \in Cpus THEN req.master ELSE last_granted_cpu

-----------------------------------------------------------------------------
(* pick_winner *)

priority(master) == IF master = "DMA" THEN 2 ELSE 1

preferred == IF last_granted_cpu = "SH2_A" THEN "SH2_B" ELSE "SH2_A"

MasterNumber == [SH2_A |-> 0, SH2_B |-> 1, DMA |-> 2]

\* Seeded fault: the round robin is decided by the position in the vector
DisplacesByPosition(cand, cur) == priority(cand.master) >= priority(cur.master)

\* Whether cand takes the place of cur, the best request so far
Displaces(cand, cur) ==
    IF priority(cand.master) # priority(cur.master)
      THEN priority(cand.master) > priority(cur.master)
    ELSE IF {cand.master, cur.master} = Cpus THEN cand.master = preferred
    ELSE IF cand.master # cur.master THEN MasterNumber[cand.master] < MasterNumber[cur.master]
    ELSE IF cand.addr # cur.addr THEN cand.addr < cur.addr
    ELSE \/ cand.is_write /\ ~cur.is_write
         \/ cand.size < cur.size

\* The index of the winner in a non-empty sequence of requests
pick_winner(requests) ==
    LET best[i \in 1..Len(requests)] ==
            IF i = 1 THEN 1
            ELSE IF Displaces(requests[i], requests[best[i - 1]]) THEN i ELSE best[i - 1]
    IN  best[Len(requests)]
=============================================================================
