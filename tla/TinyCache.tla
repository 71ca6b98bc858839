------------------------------ MODULE TinyCache -----------------------------
(***************************************************************************)
(* TinyCache (src/mem/memory.{hpp,cpp}): the direct-mapped cache of a      *)
(* scripted CPU and the instruction cache of an SH2Core.  A line's data    *)
(* are its bytes by address.                                               *)
(***************************************************************************)
EXTENDS ByteMemory

CONSTANTS
    LineSize,     \* bytes per cache line
    CacheLines    \* lines per cache

ASSUME CacheAssumption == LineSize \in Nat \ {0} /\ CacheLines \in Nat \ {0}

InvalidLine == [valid |-> FALSE, tag |-> 0, data |-> <<>>]

NewCache == [i \in 0..(CacheLines - 1) |-> InvalidLine]

LineBase(addr) == addr \div LineSize
LineIndex(base) == base % CacheLines

\* The bytes of the line that holds addr
LineBytes(addr) == (LineBase(addr) * LineSize)..(LineBase(addr) * LineSize + LineSize - 1)

CrossesLine(addr, size) == (addr % LineSize) + size > LineSize

Resident(cache, addr) ==
    LET line == cache[LineIndex(LineBase(addr))]
    IN  line.valid /\ line.tag = LineBase(addr)

\* An access that crosses the end of its line misses, whatever is cached
Hit(cache, addr, size) == Resident(cache, addr) /\ ~CrossesLine(addr, size)

CacheRead(cache, addr, size) == Assemble(cache[LineIndex(LineBase(addr))].data, addr, size)

\* Seeded fault: a store leaves the local cache line as it was
CacheWriteSkipped(cache, addr, size, value) == cache

\* a write misses silently: no allocation
CacheWrite(cache, addr, size, value) ==
    IF Hit(cache, addr, size)
      THEN [cache EXCEPT ![LineIndex(LineBase(addr))].data = Overwrite(@, addr, size, value)]
      ELSE cache

fill_line(cache, base, data) ==
    [cache EXCEPT ![LineIndex(base)] = [valid |-> TRUE, tag |-> base, data |-> data]]
=============================================================================
