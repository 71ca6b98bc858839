------------------------------ MODULE Sh2Arith ------------------------------
(***************************************************************************)
(* Software that computes with numbers longer than a register, limb by     *)
(* limb, the T flag carrying from one limb to the next.  Its results are   *)
(* compared with arithmetic on the integers.                               *)
(***************************************************************************)
EXTENDS Sh2Alu

CONSTANTS
    Jobs,   \* the instructions whose chains are run
    Limbs   \* registers per number

ASSUME LimbsAssumption == Limbs \in Nat \ {0}
ASSUME JobsAssumption == Jobs \subseteq {"ADDC", "SUBC", "NEGC", "ROTCL", "ROTCR"}

VARIABLES
    job,       \* the instruction of this chain
    lhs, rhs,  \* its operands, the least significant limb first
    carry_in,  \* T before the chain
    alu,       \* operands and flags of the last instruction
    left,      \* limbs still to do
    result     \* limbs of the result so far

chainVars == <<job, lhs, rhs, carry_in, alu, left, result>>

Number == [1..Limbs -> Word]

ChainInit ==
    /\ job \in Jobs
    /\ lhs \in Number /\ rhs \in Number
    /\ carry_in \in Bit
    /\ alu = [n |-> 0, m |-> 0, T |-> carry_in, Q |-> 0, M |-> 0, MACH |-> 0, MACL |-> 0]
    /\ left = Limbs
    /\ result = [k \in 1..Limbs |-> 0]

\* Shifts to the right start at the most significant limb, all else at the least
Limb == IF job = "ROTCR" THEN left ELSE Limbs + 1 - left

\* NEGC reads its operand from Rm
LimbOperands == [alu EXCEPT !.n = lhs[Limb], !.m = IF job = "NEGC" THEN lhs[Limb] ELSE rhs[Limb]]

\* One instruction of the chain
ChainStep ==
    /\ left > 0
    /\ alu' = Alu(job, LimbOperands)
    /\ result' = [result EXCEPT ![Limb] = alu'.n]
    /\ left' = left - 1
    /\ UNCHANGED <<job, lhs, rhs, carry_in>>

ChainSpec == ChainInit /\ [][ChainStep]_chainVars

-----------------------------------------------------------------------------
\* The weight of the limb after the first k
Place[k \in 0..Limbs] == IF k = 0 THEN 1 ELSE WordMod * Place[k - 1]

\* The integers that the first k limbs stand for
Partial(number) ==
    LET sum[k \in 0..Limbs] == IF k = 0 THEN 0 ELSE sum[k - 1] + number[k] * Place[k - 1]
    IN  sum

Base == Place[Limbs]

NumberValue(number) == Partial(number)[Limbs]

\* A limb that SUBC and NEGC cannot subtract with a borrow: Rm + T wraps
Wraps(number) == \E k \in 1..Limbs : number[k] = WordMod - 1

\* Chains of ADDC (execute_instruction, 0x300E) add, chains of ROTCL and ROTCR
\* (0x4024, 0x4025) shift numbers of any length by one, and T is what is
\* carried or shifted out of the last limb.  Chains of SUBC and NEGC (0x300A,
\* 0x600A) subtract, with T as the borrow, unless a limb of the subtrahend is
\* all ones.
CarriesChain ==
    left = 0 =>
        /\ job = "ADDC" =>
              NumberValue(result) + Base * alu.T = NumberValue(lhs) + NumberValue(rhs) + carry_in
        /\ job = "ROTCL" => NumberValue(result) + Base * alu.T = 2 * NumberValue(lhs) + carry_in
        /\ job = "ROTCR" => 2 * NumberValue(result) + alu.T = NumberValue(lhs) + Base * carry_in
        /\ job = "SUBC" /\ ~Wraps(rhs) =>
              NumberValue(result) - Base * alu.T = NumberValue(lhs) - NumberValue(rhs) - carry_in
        /\ job = "NEGC" /\ ~Wraps(lhs) =>
              NumberValue(result) - Base * alu.T = 0 - NumberValue(lhs) - carry_in

\* On every pair of words, the signed comparisons, the overflow flags of ADDV
\* and SUBV, the products in MACH:MACL and the arithmetic shift to the right are
\* those of the integers that the words stand for.
AgreesWithIntegers ==
    LET p      == signed(lhs[1])
        q      == signed(rhs[1])
        in     == [alu EXCEPT !.n = lhs[1], !.m = rhs[1]]
        SWord  == (0 - (WordMod \div 2))..((WordMod \div 2) - 1)
        T(op)  == Alu(op, in).T = 1
        Mac(op) == Alu(op, in).MACH * WordMod + Alu(op, in).MACL
    IN  /\ p \in SWord /\ q \in SWord
        /\ T("ADDV") <=> p + q \notin SWord
        /\ T("SUBV") <=> p - q \notin SWord
        /\ T("CMP/GE") <=> p >= q
        /\ T("CMP/GT") <=> p > q
        /\ T("CMP/PL") <=> p > 0
        /\ Mac("DMULU.L") = lhs[1] * rhs[1]
        /\ Mac("DMULS.L") = (p * q) % (WordMod * WordMod)
        /\ p >= 0 <=> T("CMP/PZ")
        /\ 2 * signed(Alu("SHAR", in).n) + Alu("SHAR", in).T = p

=============================================================================
