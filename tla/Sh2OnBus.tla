------------------------------ MODULE Sh2OnBus ------------------------------
(***************************************************************************)
(* An SH2Core with what Sh2Core leaves out: its clock, its count of        *)
(* retired instructions, the bytes of its instruction cache and the        *)
(* BusOps it hands to the arbiter.  Instructions are bytes of the shared   *)
(* memory, so programs may change them.                                    *)
(***************************************************************************)
EXTENDS BusArbiter, TinyCache

CONSTANTS
    WordBits, AliasBit, Regs,  \* as in Sh2Core
    Decode(_),                 \* the instruction that a halfword stands for
    InvalidWord                \* 0xBAD0BAD0, as a word

ASSUME WordAssumption == ByteMod = 2 ^ (WordBits \div 4) /\ InvalidWord \in Value

S == INSTANCE Sh2Core

\* core is the state of Sh2Core, whose set of tags stays empty here
NewCore(cpu_id, pc, sp) ==
    [id |-> cpu_id, core |-> S!reset(pc, sp), t |-> 0, executed |-> 0, icache |-> NewCache]

Phys(k) == S!to_phys(k.core.pc)

Cacheable(k) == ~S!is_uncached_alias(k.core.pc) /\ ~is_mmio(Phys(k))
Cached(k) == Cacheable(k) /\ Hit(k.icache, Phys(k), 2)

\* The instruction of a cached line, as the loop of produce_until_bus decodes it
CachedInstr(k) == S!AsDecoded(Decode(CacheRead(k.icache, Phys(k), 2)))

IsMemory(ins) == ins.op \in S!MemoryOps

\* Every instruction takes a tick, MUL.L one more
Cost(ins) == IF ins.op = "MUL.L" THEN 2 ELSE 1

\* k after an instruction or a bus access has left its core in this state
Retired(k, core, cost) == [k EXCEPT !.core = core, !.t = @ + cost, !.executed = @ + 1]

-----------------------------------------------------------------------------
(* produce_until_bus, one decision at a time *)

ExecuteCached(k, ins) == Retired(k, S!execute_instruction(k.core, ins), Cost(ins))

\* Seeded fault: a store also goes to the core's own cached line, at once
DecodeCachedWriting(k, ins) ==
    LET core == S!decode_memory(k.core, ins)
        p == core.pending_mem_op
    IN  [k EXCEPT !.core = core,
                  !.icache = IF p.kind \in S!WriteKinds
                               THEN CacheWrite(@, p.phys_addr, p.size, p.value) ELSE @]

DecodeCached(k, ins) == [k EXCEPT !.core = S!decode_memory(k.core, ins)]

data_access_kind(phys_addr, is_write) ==
    IF is_mmio(phys_addr) THEN IF is_write THEN "MmioWrite" ELSE "MmioRead"
    ELSE IF is_write THEN "Write" ELSE "Read"

\* The BusOps of a fetch and of the pending access.  Fetches of cacheable
\* addresses ask for the line.
FetchOp(k, seq) ==
    [cpu |-> k.id, req |-> k.t, seq |-> seq, producer |-> "Auto", kind |-> "IFetch",
     addr |-> Phys(k), size |-> 2, data |-> 0,
     fill |-> IF Cacheable(k) THEN LineSize ELSE 0, token |-> 0]

DataOp(k, seq) ==
    LET p == k.core.pending_mem_op
    IN  [FetchOp(k, seq) EXCEPT
            !.kind = data_access_kind(p.phys_addr, p.kind \in S!WriteKinds),
            !.addr = p.phys_addr, !.size = p.size, !.data = p.value, !.fill = 0]

-----------------------------------------------------------------------------
(* apply_ifetch_and_step *)

Answered(value) == IF value = kInvalidBusOpValue THEN InvalidWord ELSE value

\* The line in an answer is the one of the fetch, whose pc has not moved, so
\* CACHE_FILL_MISMATCH cannot occur
apply_ifetch_and_step(k, response) ==
    LET value == Answered(response.value)
        s == [k EXCEPT !.t = @ + response.stall]
        ins == Decode(value % (ByteMod * ByteMod))
    IN  IF S!Waiting(k.core)
          THEN Retired(s, S!apply_pending(k.core, value), 1)
          ELSE Retired([s EXCEPT !.icache = IF response.line = <<>> THEN @
                                            ELSE fill_line(@, LineBase(Phys(k)), response.line)],
                       S!execute_instruction(k.core, ins), Cost(ins))
=============================================================================
