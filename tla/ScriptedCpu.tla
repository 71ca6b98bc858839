---------------------------- MODULE ScriptedCpu -----------------------------
(***************************************************************************)
(* A scripted CPU (src/cpu/scripted_cpu.{hpp,cpp}) with its store buffer   *)
(* (src/mem/memory.{hpp,cpp}) and its cache, as functions from a CPU's     *)
(* state to its next state.  A CPU belongs to one thread and touches       *)
(* nothing shared, so produce and apply_response are atomic.               *)
(*                                                                         *)
(* A script operation has a physical address; alias is TRUE for its        *)
(* uncached alias.                                                         *)
(***************************************************************************)
EXTENDS BusOps, TinyCache, FiniteSetsExt

ScriptOp ==
    [kind : {"Compute", "Barrier", "Read", "Write"}, addr : Nat, alias : BOOLEAN, size : Nat,
     value : Value, cycles : Nat]

\* "no bus operation": the empty optional<PendingBusOp>
NoOp == [index |-> 0]

Has(p) == p.index # 0

NewCpu(id, script) ==
    [id |-> id, script |-> script, pc |-> 1, sequence |-> 0, local_time |-> 0,
     store_buffer |-> <<>>, cache |-> NewCache,
     last_read |-> None, next_store_id |-> 1]

done(c) == c.pc > Len(c.script)

Ins(c) == c.script[c.pc]

Uncached(ins) == ins.alias \/ is_mmio(ins.addr)

-----------------------------------------------------------------------------
(* StoreBuffer *)

\* positions of the entries that a load of this address and size may take
Matches(sb, addr, size) == {i \in 1..Len(sb) : sb[i].addr = addr /\ sb[i].size = size}

\* forward takes the newest one
forward(sb, addr, size) ==
    sb[CHOOSE i \in Matches(sb, addr, size) : \A j \in Matches(sb, addr, size) : j <= i].value

\* Seeded fault: a retired store stays in the buffer
retire_nothing(sb, store_id) == sb

\* find_if, then erase: the first entry with this id
retire(sb, store_id) ==
    LET found == {i \in 1..Len(sb) : sb[i].store_id = store_id}
    IN  IF found = {} THEN sb
        ELSE RemoveIndex(sb, CHOOSE i \in found : \A j \in found : i <= j)

-----------------------------------------------------------------------------
(* produce *)

\* Instruction i finishes without the bus: compute, or a cacheable load that
\* the store buffer or the cache satisfies
IsLocal(c, i) ==
    LET ins == c.script[i] IN
    \/ ins.kind = "Compute"
    \/ /\ ins.kind = "Read"
       /\ ~Uncached(ins)
       /\ Matches(c.store_buffer, ins.addr, ins.size) # {} \/ Hit(c.cache, ins.addr, ins.size)

\* The value such a load returns: the store buffer comes before the cache
LocalValue(c, ins) ==
    IF Matches(c.store_buffer, ins.addr, ins.size) # {}
      THEN forward(c.store_buffer, ins.addr, ins.size)
      ELSE CacheRead(c.cache, ins.addr, ins.size)

\* Where the loop of produce stops: the next bus operation, or the end
Stop(c) ==
    CHOOSE i \in c.pc..(Len(c.script) + 1) :
        /\ i > Len(c.script) \/ ~IsLocal(c, i)
        /\ \A j \in c.pc..(i - 1) : IsLocal(c, j)

\* The cycles of the Compute instructions from first to last
ComputeTicks(script, first, last) ==
    LET ticks[i \in 0..last] ==
            IF i < first THEN 0
            ELSE ticks[i - 1] + (IF script[i].kind = "Compute" THEN script[i].cycles ELSE 0)
    IN  ticks[last]

\* The CPU after the local instructions in front of it.  None of them changes
\* the store buffer or the cache, so all see the ones the loop started with.
RunAhead(c) ==
    LET loads == {i \in c.pc..(Stop(c) - 1) : c.script[i].kind = "Read"}
    IN  [c EXCEPT !.pc = Stop(c),
                  !.local_time = @ + ComputeTicks(c.script, c.pc, Stop(c) - 1),
                  !.last_read = IF loads = {} THEN @ ELSE LocalValue(c, c.script[Max(loads)])]

\* The BusOp for the instruction at c.pc
OpOf(c) ==
    LET ins == Ins(c) IN
    [cpu |-> c.id, req |-> c.local_time, seq |-> c.sequence, producer |-> "Auto",
     kind |-> CASE ins.kind = "Barrier" -> "Barrier"
                [] ins.kind = "Write" -> IF is_mmio(ins.addr) THEN "MmioWrite" ELSE "Write"
                [] ins.kind = "Read"  -> IF is_mmio(ins.addr) THEN "MmioRead" ELSE "Read",
     addr |-> IF ins.kind = "Barrier" THEN 0 ELSE ins.addr,
     size |-> IF ins.kind = "Barrier" THEN 0 ELSE ins.size,
     data |-> IF ins.kind = "Write" THEN ins.value ELSE 0,
     fill |-> IF ins.kind = "Read" /\ ~Uncached(ins) THEN LineSize ELSE 0,
     token |-> IF ins.kind = "Write" THEN c.next_store_id ELSE 0]

\* The CPU after issuing that operation.  A store enters the store buffer and
\* the cache before the bus has seen it.
Issue(c) ==
    LET ins == Ins(c)
        s == [c EXCEPT !.pc = @ + 1, !.sequence = @ + 1]
    IN  IF ins.kind # "Write" THEN s
        ELSE [s EXCEPT
                !.next_store_id = @ + 1,
                !.store_buffer = Append(@, [store_id |-> c.next_store_id, addr |-> ins.addr,
                                            size |-> ins.size, value |-> ins.value]),
                !.cache = IF Uncached(ins) THEN @ ELSE CacheWrite(@, ins.addr, ins.size, ins.value)]

\* produce: the CPU afterwards, and the PendingBusOp (index is script_index)
produce(c) ==
    LET s == RunAhead(c)
    IN  IF done(s) THEN [cpu |-> s, op |-> NoOp]
        ELSE [cpu |-> Issue(s), op |-> [index |-> s.pc, op |-> OpOf(s)]]

-----------------------------------------------------------------------------
(* apply_response *)

\* The reply to the operation at script_index.  A reply without line data (a
\* rejected read) is cached as a zero line holding the reply's value.  The
\* line of a reply is the one of ins.addr, so CACHE_FILL_MISMATCH cannot occur.
apply_response(c, script_index, response, producer_token) ==
    LET s == [c EXCEPT !.local_time = @ + response.stall]
        ins == c.script[script_index]
        zero == [a \in LineBytes(ins.addr) |-> 0]
    IN  CASE ins.kind = "Write" -> [s EXCEPT !.store_buffer = retire(@, producer_token)]
          [] ins.kind = "Barrier" -> s
          [] ins.kind = "Read" ->
               [s EXCEPT !.last_read = response.value,
                         !.cache =
                    IF Uncached(ins) THEN @
                    ELSE IF response.line # <<>>
                           THEN fill_line(@, LineBase(ins.addr), response.line)
                           ELSE CacheWrite(fill_line(@, LineBase(ins.addr), zero),
                                           ins.addr, ins.size, response.value)]
=============================================================================
