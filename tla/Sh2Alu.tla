------------------------------- MODULE Sh2Alu -------------------------------
(***************************************************************************)
(* The register-to-register instructions of SH2Core::execute_instruction,  *)
(* as a function of the two operands and the flags of SR.  Words have      *)
(* WordBits bits (32 in the code); a byte is a quarter of a word.          *)
(***************************************************************************)
EXTENDS Integers, FiniteSetsExt

CONSTANT WordBits

ASSUME WordBitsAssumption == WordBits \in Nat \ {0}

\* What a proof needs to know of powers of two
ASSUME PowerAssumption ==
    2 ^ (WordBits - 1) \in Nat \ {0} /\ 2 ^ WordBits = 2 * 2 ^ (WordBits - 1)

WordMod == 2 ^ WordBits
Word == 0..(WordMod - 1)
Bit == 0..1

u32_add(a, b) == (a + b) % WordMod
u32_sub(a, b) == (a - b) % WordMod

truth(condition) == IF condition THEN 1 ELSE 0
msb(a) == a \div (WordMod \div 2)
signed(a) == a - WordMod * msb(a)

\* Words as sets of the positions of their one bits, for the logical operations
bits(a) == {i \in 0..(WordBits - 1) : (a \div 2 ^ i) % 2 = 1}
word(s) == MapThenSumSet(LAMBDA i : 2 ^ i, s)

SymmetricDifference(s, t) == (s \ t) \cup (t \ s)
And(a, b) == word(bits(a) \cap bits(b))
Xor(a, b) == word(SymmetricDifference(bits(a), bits(b)))
Or(a, b) == word(bits(a) \cup bits(b))
Not(a) == WordMod - 1 - a

\* Seeded fault: the test of an addition
SubOverflowAsAdd(a, b, r) == msb(a) = msb(b) /\ msb(a) # msb(r)

add_overflow(a, b, r) == msb(a) = msb(b) /\ msb(a) # msb(r)
sub_overflow(a, b, r) == msb(a) # msb(b) /\ msb(a) # msb(r)

\* The low k bits of a, zero-extended and sign-extended
low(a, k) == a % 2 ^ k
sext(a, k) == (low(a, k) - 2 ^ k * (low(a, k) \div 2 ^ (k - 1))) % WordMod

shl(a, k) == (a * 2 ^ k) % WordMod
shr(a, k) == a \div 2 ^ k
sar(a, k) == (signed(a) \div 2 ^ k) % WordMod

\* The count of SHAD and SHLD is taken modulo the width, in both directions
ShiftCount(b) == IF msb(b) = 0 THEN b % WordBits ELSE u32_sub(0, b) % WordBits

Quarters(a) == {shr(a, q * (WordBits \div 4)) % 2 ^ (WordBits \div 4) : q \in 0..3}

-----------------------------------------------------------------------------
(* Each instruction maps x = [n, m, T, Q, M, MACH, MACL] to its successor;  *)
(* n and m are the values of Rn and Rm (or of the immediate operand).       *)

Operands == [n : Word, m : Word, T : Bit, Q : Bit, M : Bit, MACH : Word, MACL : Word]

SetN(x, value) == [x EXCEPT !.n = value]
SetT(x, condition) == [x EXCEPT !.T = truth(condition)]
Product(x, product) ==
    [x EXCEPT !.MACH = (product \div WordMod) % WordMod, !.MACL = product % WordMod]
Macl(x, product) == [x EXCEPT !.MACL = product % WordMod]

\* Seeded fault: the carry is that of the sum without the incoming carry
ADDCDropsCarryIn(x) ==
    LET sum == x.n + x.m
    IN  SetT(SetN(x, (sum + x.T) % WordMod), sum >= WordMod)

ADDC(x) ==
    LET sum == x.n + x.m + x.T
    IN  SetT(SetN(x, sum % WordMod), sum >= WordMod)

ADDV(x) ==
    LET out == u32_add(x.n, x.m)
    IN  SetT(SetN(x, out), add_overflow(x.n, x.m, out))

\* The subtrahend Rm + T is itself a word: it wraps before the comparison
SUBC(x) ==
    LET rhs == u32_add(x.m, x.T)
    IN  SetT(SetN(x, u32_sub(x.n, rhs)), x.n < rhs)

SUBV(x) ==
    LET out == u32_sub(x.n, x.m)
    IN  SetT(SetN(x, out), sub_overflow(x.n, x.m, out))

NEGC(x) ==
    LET rhs == u32_add(x.m, x.T)
    IN  SetT(SetN(x, u32_sub(0, rhs)), rhs # 0)

DIV0S(x) ==
    SetT([x EXCEPT !.Q = msb(x.n), !.M = msb(x.m)], msb(x.n) = msb(x.m))

\* Old Q equal to M: subtract, otherwise add; the new Q is the borrow or the
\* carry of that operation alone
DIV1(x) ==
    LET shifted == u32_add(shl(x.n, 1), x.T)
        out     == IF x.Q = x.M THEN u32_sub(shifted, x.m) ELSE u32_add(shifted, x.m)
        q       == truth(IF x.Q = x.M THEN out > shifted ELSE out < shifted)
    IN  SetT([x EXCEPT !.n = out, !.Q = q], q = x.M)

Comparisons ==
    {"CMP/EQ", "CMP/HS", "CMP/HI", "CMP/GE", "CMP/GT", "CMP/PL", "CMP/PZ", "CMP/STR"}

Compare(op, x) ==
    CASE op = "CMP/EQ"  -> SetT(x, x.n = x.m)
      [] op = "CMP/HS"  -> SetT(x, x.n >= x.m)
      [] op = "CMP/HI"  -> SetT(x, x.n > x.m)
      [] op = "CMP/GE"  -> SetT(x, signed(x.n) >= signed(x.m))
      [] op = "CMP/GT"  -> SetT(x, signed(x.n) > signed(x.m))
      [] op = "CMP/PL"  -> SetT(x, signed(x.n) > 0)
      [] op = "CMP/PZ"  -> SetT(x, signed(x.n) >= 0)
      [] op = "CMP/STR" -> SetT(x, 0 \in Quarters(Xor(x.n, x.m)))

Shifts ==
    {"SHLL", "SHAL", "SHLR", "SHAR", "ROTL", "ROTCL", "ROTCR", "SHLL2", "SHLL8", "SHLL16",
     "SHLR2", "SHLR8", "SHLR16", "SHAD", "SHLD"}

Shift(op, x) ==
    CASE op = "SHLL"    -> SetT(SetN(x, shl(x.n, 1)), msb(x.n) = 1)
      [] op = "SHAL"    -> SetT(SetN(x, shl(x.n, 1)), msb(x.n) = 1)
      [] op = "SHLR"    -> SetT(SetN(x, shr(x.n, 1)), x.n % 2 = 1)
      [] op = "SHAR"    -> SetT(SetN(x, sar(x.n, 1)), x.n % 2 = 1)
      [] op = "ROTL"    -> SetT(SetN(x, shl(x.n, 1) + msb(x.n)), msb(x.n) = 1)
      [] op = "ROTCL"   -> SetT(SetN(x, shl(x.n, 1) + x.T), msb(x.n) = 1)
      [] op = "ROTCR"   -> SetT(SetN(x, shr(x.n, 1) + x.T * (WordMod \div 2)), x.n % 2 = 1)
      [] op = "SHLL2"   -> SetN(x, shl(x.n, 2))
      [] op = "SHLL8"   -> SetN(x, shl(x.n, WordBits \div 4))
      [] op = "SHLL16"  -> SetN(x, shl(x.n, WordBits \div 2))
      [] op = "SHLR2"   -> SetN(x, shr(x.n, 2))
      [] op = "SHLR8"   -> SetN(x, shr(x.n, WordBits \div 4))
      [] op = "SHLR16"  -> SetN(x, shr(x.n, WordBits \div 2))
      [] op = "SHAD"    -> SetN(x, IF msb(x.m) = 0 THEN shl(x.n, ShiftCount(x.m))
                                                   ELSE sar(x.n, ShiftCount(x.m)))
      [] op = "SHLD"    -> SetN(x, IF msb(x.m) = 0 THEN shl(x.n, ShiftCount(x.m))
                                                   ELSE shr(x.n, ShiftCount(x.m)))

\* Every instruction by its name in the SH-2 manual
Alu(op, x) ==
    CASE op = "NOP"     -> x
      [] op = "SETT"    -> SetT(x, TRUE)
      [] op = "CLRT"    -> SetT(x, FALSE)
      [] op = "MOVT"    -> SetN(x, x.T)
      [] op = "MOV"     -> SetN(x, x.m)
      [] op = "ADD"     -> SetN(x, u32_add(x.n, x.m))
      [] op = "ADDC"    -> ADDC(x)
      [] op = "ADDV"    -> ADDV(x)
      [] op = "SUB"     -> SetN(x, u32_sub(x.n, x.m))
      [] op = "SUBC"    -> SUBC(x)
      [] op = "SUBV"    -> SUBV(x)
      [] op = "NEG"     -> SetN(x, u32_sub(0, x.m))
      [] op = "NEGC"    -> NEGC(x)
      [] op = "AND"     -> SetN(x, And(x.n, x.m))
      [] op = "XOR"     -> SetN(x, Xor(x.n, x.m))
      [] op = "OR"      -> SetN(x, Or(x.n, x.m))
      [] op = "NOT"     -> SetN(x, Not(x.m))
      [] op = "TST"     -> SetT(x, And(x.n, x.m) = 0)
      [] op \in Comparisons -> Compare(op, x)
      [] op = "EXTU.B"  -> SetN(x, low(x.m, WordBits \div 4))
      [] op = "EXTU.W"  -> SetN(x, low(x.m, WordBits \div 2))
      [] op = "EXTS.B"  -> SetN(x, sext(x.m, WordBits \div 4))
      [] op = "EXTS.W"  -> SetN(x, sext(x.m, WordBits \div 2))
      [] op = "MULU.W"  -> Macl(x, low(x.n, WordBits \div 2) * low(x.m, WordBits \div 2))
      [] op = "MULS.W"  -> Macl(x, signed(sext(x.n, WordBits \div 2))
                                     * signed(sext(x.m, WordBits \div 2)))
      [] op = "MUL.L"   -> Macl(x, signed(x.n) * signed(x.m))
      [] op = "DMULU.L" -> Product(x, x.n * x.m)
      [] op = "DMULS.L" -> Product(x, signed(x.n) * signed(x.m))
      [] op = "DIV0U"   -> [x EXCEPT !.Q = 0, !.M = 0, !.T = 0]
      [] op = "DIV0S"   -> DIV0S(x)
      [] op = "DIV1"    -> DIV1(x)
      [] op \in Shifts  -> Shift(op, x)
=============================================================================
