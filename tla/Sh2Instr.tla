------------------------------ MODULE Sh2Instr ------------------------------
(***************************************************************************)
(* What SH-2 instructions compute: operands, effective addresses, branch   *)
(* targets, register results.  Sh2Core and Sh2Isa share these functions    *)
(* and differ in when their effects happen.                                *)
(*                                                                         *)
(* An instruction is a record: op; registers n and m; x, an immediate or   *)
(* displacement, extended and scaled; imm, whether x replaces Rm; mode, an *)
(* addressing mode; size, the bytes it accesses; sys, a system register;   *)
(* word, the instruction word as a number.                                 *)
(***************************************************************************)
EXTENDS Sh2Alu

CONSTANTS
    AliasBit,  \* the address bit of the uncached alias (2^29 in the code)
    Regs       \* general registers in use

ASSUME AliasBitAssumption == AliasBit \in Nat \ {0}
ASSUME RegsAssumption == Regs \subseteq Nat /\ {0, 15} \subseteq Regs

\* std::optional
None == << >>
Some(value) == <<value>>
value_of(option) == option[1]

SysRegs == {"SR", "PR", "GBR", "VBR", "MACH", "MACL"}

to_phys(vaddr) == vaddr % AliasBit
is_uncached_alias(vaddr) == (vaddr \div AliasBit) % 2 = 1

\* A byte is a quarter of a word
ByteBits == WordBits \div 4

\* What a proof needs to know of bytes, halfwords and words
ASSUME ByteAssumption ==
    /\ WordBits = 4 * ByteBits /\ 2 ^ ByteBits \in Nat \ {0}
    /\ 2 ^ (2 * ByteBits) = 2 ^ ByteBits * 2 ^ ByteBits

INSTANCE ByteMemory WITH ByteMod <- 2 ^ ByteBits

ReadMem(mem, a, size) == read(mem, to_phys(a), size)
WriteMem(mem, a, size, value) == write(mem, to_phys(a), size, value)

\* Seeded fault: the sign is extended past the width of a register
SignExtended(value, size) ==
    LET k == size * ByteBits
    IN  low(value, k) - 2 ^ k * (low(value, k) \div 2 ^ (k - 1))

\* Loads sign-extend bytes and halfwords, stores take the low ones of a register
Extended(value, size) == sext(value, size * ByteBits)
Truncated(value, size) == low(value, size * ByteBits)

\* Memory that the program does not fill holds zeros, which no decoder accepts
IllegalInstr ==
    [op |-> "ILLEGAL", n |-> 0, m |-> 0, x |-> 0, imm |-> FALSE,
     mode |-> "", size |-> 4, sys |-> "", word |-> 0]

InstrAt(program, pc) ==
    IF to_phys(pc) \in DOMAIN program THEN program[to_phys(pc)] ELSE IllegalInstr

AluOps ==
    {"NOP", "SETT", "CLRT", "MOVT", "MOV", "ADD", "ADDC", "ADDV", "SUB", "SUBC", "SUBV",
     "NEG", "NEGC", "AND", "XOR", "OR", "NOT", "TST", "EXTU.B", "EXTU.W", "EXTS.B",
     "EXTS.W", "MULU.W", "MULS.W", "MUL.L", "DMULU.L", "DMULS.L", "DIV0U", "DIV0S", "DIV1"}
    \cup Comparisons \cup Shifts

RmwOps == {"AND.B", "XOR.B", "OR.B"}
MemoryOps == {"LOAD", "STORE", "PUSH", "POP"} \cup RmwOps
DelayedBranches == {"BT/S", "BF/S", "BRA", "BSR", "JMP", "JSR", "RTS"}

\* The status register: T in bit 0, Q in bit 8, M in bit 9
t_flag(sr) == sr % 2
q_flag(sr) == (sr \div 256) % 2
m_flag(sr) == (sr \div 512) % 2
WithFlags(sr, f) ==
    sr + (f.T - t_flag(sr)) + 256 * (f.Q - q_flag(sr)) + 512 * (f.M - m_flag(sr))

\* A register-to-register instruction
AluResult(ins, r, sys) ==
    Alu(ins.op, [n |-> r[ins.n], m |-> IF ins.imm THEN ins.x ELSE r[ins.m],
                 T |-> t_flag(sys["SR"]), Q |-> q_flag(sys["SR"]), M |-> m_flag(sys["SR"]),
                 MACH |-> sys["MACH"], MACL |-> sys["MACL"]])

AluRegs(ins, r, sys) == [r EXCEPT ![ins.n] = AluResult(ins, r, sys).n]
AluSys(ins, r, sys) ==
    LET out == AluResult(ins, r, sys)
    IN  [sys EXCEPT !["SR"] = WithFlags(@, out), !["MACH"] = out.MACH, !["MACL"] = out.MACL]

\* pc + 4, for longwords rounded down to one
pc_base(pc, size) == IF size = 4 THEN (u32_add(pc, 4) \div 4) * 4 ELSE u32_add(pc, 4)

\* Effective address of an access whose base register is Rb
Address(ins, b, pc, r, sys) ==
    CASE ins.mode \in {"@R", "@R+"} -> r[b]
      [] ins.mode = "@-R"           -> u32_sub(r[b], ins.size)
      [] ins.mode = "@(disp,R)"     -> u32_add(r[b], ins.x)
      [] ins.mode = "@(R0,R)"       -> u32_add(r[0], r[b])
      [] ins.mode = "@(disp,GBR)"   -> u32_add(sys["GBR"], ins.x)
      [] ins.mode = "@(disp,PC)"    -> u32_add(pc_base(pc, ins.size), ins.x)

\* The byte that a read-modify-write stores
RmwResult(ins_op, old, mask) ==
    CASE ins_op = "AND.B" -> And(old, mask)
      [] ins_op = "XOR.B" -> Xor(old, mask)
      [] ins_op = "OR.B"  -> Or(old, mask)

BranchTaken(ins, sr) ==
    CASE ins.op \in {"BT", "BT/S"} -> t_flag(sr) = 1
      [] ins.op \in {"BF", "BF/S"} -> t_flag(sr) = 0
      [] OTHER                     -> TRUE

Target(ins, pc, r, sys) ==
    CASE ins.op \in {"JMP", "JSR"} -> r[ins.n]
      [] ins.op = "RTS"            -> sys["PR"]
      [] OTHER                     -> u32_add(u32_add(pc, 4), ins.x)

Links(ins) == ins.op \in {"BSR", "JSR"}
=============================================================================
