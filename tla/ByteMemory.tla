----------------------------- MODULE ByteMemory -----------------------------
(***************************************************************************)
(* CommittedMemory (src/mem/memory.{hpp,cpp}): bytes by address, accessed  *)
(* in big-endian order by sizes 1, 2 and 4.  A byte has ByteMod values     *)
(* (256 in the code).                                                      *)
(***************************************************************************)
EXTENDS Integers

CONSTANT ByteMod

ASSUME ByteModAssumption == ByteMod \in Nat \ {0, 1}

Byte == 0..(ByteMod - 1)

\* uint32_t
Value == 0..(ByteMod * ByteMod * ByteMod * ByteMod - 1)

AccessSizes == {1, 2, 4}

\* value >> 8 * k
ShiftedBy(value, k) ==
    CASE k = 0 -> value
      [] k = 1 -> value \div ByteMod
      [] k = 2 -> (value \div ByteMod) \div ByteMod
      [] k = 3 -> ((value \div ByteMod) \div ByteMod) \div ByteMod

\* Byte i of a value of this size, the most significant one first
ByteOf(value, size, i) == ShiftedBy(value, size - 1 - i) % ByteMod

\* The value of size bytes of f from a on
Assemble(f, a, size) ==
    CASE size = 1 -> f[a]
      [] size = 2 -> f[a] * ByteMod + f[a + 1]
      [] size = 4 -> ((f[a] * ByteMod + f[a + 1]) * ByteMod + f[a + 2]) * ByteMod + f[a + 3]

\* f with a value of this size from a on
Overwrite(f, a, size, value) ==
    CASE size = 1 -> [f EXCEPT ![a] = ByteOf(value, 1, 0)]
      [] size = 2 -> [f EXCEPT ![a] = ByteOf(value, 2, 0), ![a + 1] = ByteOf(value, 2, 1)]
      [] size = 4 -> [f EXCEPT ![a] = ByteOf(value, 4, 0), ![a + 1] = ByteOf(value, 4, 1),
                               ![a + 2] = ByteOf(value, 4, 2), ![a + 3] = ByteOf(value, 4, 3)]

access_in_range(mem, phys, size) == phys..(phys + size - 1) \subseteq DOMAIN mem

\* Outside the memory reads give zero and writes have no effect, also for an
\* access that only ends outside
read(mem, phys, size) == IF access_in_range(mem, phys, size) THEN Assemble(mem, phys, size) ELSE 0

write(mem, phys, size, value) ==
    IF access_in_range(mem, phys, size) THEN Overwrite(mem, phys, size, value) ELSE mem

\* The bytes from phys on, by address
read_block(mem, phys, size) ==
    [a \in phys..(phys + size - 1) |-> IF access_in_range(mem, phys, size) THEN mem[a] ELSE 0]
=============================================================================
