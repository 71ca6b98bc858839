----------------------------- MODULE MCSh2Host ------------------------------
(***************************************************************************)
(* Programs for Sh2Host.  A prologue sets R1 and GBR to data and R3 to a   *)
(* subroutine; two instructions under test follow; the program stops in a  *)
(* loop at address 0, where PR also points after a reset.  Vector 14 has   *)
(* its handler in a cached line, vector 15 in the uncached alias.          *)
(***************************************************************************)
EXTENDS Sh2Host, TLC

I(name) == [IllegalInstr EXCEPT !.op = name, !.word = 9]
Imm(name, n, x) == [I(name) EXCEPT !.n = n, !.x = x, !.imm = TRUE]
Reg(name, n, m) == [I(name) EXCEPT !.n = n, !.m = m]
Sys(name, s, n) == [I(name) EXCEPT !.n = n, !.sys = s]
Mem(name, mode, n, m, x) == [I(name) EXCEPT !.mode = mode, !.n = n, !.m = m, !.x = x]
Sized(size, ins) == [ins EXCEPT !.size = size]
Disp(name, x) == [I(name) EXCEPT !.x = x]

Data == 80
Stack == 120

\* Two vectors, data with bytes of both signs, and the stack
MCMemory ==
    [a \in 56..(Stack + 3) |->
        CASE a \in 56..59 -> ByteOf(32, 4, a - 56)
          [] a \in 60..63 -> ByteOf(AliasBit + 48, 4, a - 60)
          [] a >= Stack   -> 0
          [] OTHER        -> (3 * a + 2) % 8]

\* Subroutine at 24: the delay slot of its return is a memory instruction
Subroutine == (24 :> Imm("ADD", 2, 16)) @@ (26 :> I("RTS")) @@ (28 :> Mem("LOAD", "@R", 2, 1, 0))

Handler(at, delay) ==
    (at :> Imm("ADD", 2, 32)) @@ (at + 2 :> I("SETT")) @@ (at + 4 :> I("RTE")) @@ (at + 6 :> delay)

Frame(delay) ==
    (0 :> Disp("BRA", 0 - 4)) @@ (2 :> I("NOP"))
    @@ (4 :> Imm("MOV", 1, Data)) @@ (6 :> Imm("MOV", 3, 24)) @@ (8 :> Sys("LDC", "GBR", 1))
    @@ (14 :> Imm("ADD", 2, 1)) @@ (16 :> Disp("BRA", 0 - 20)) @@ (18 :> I("NOP"))
    @@ Subroutine @@ Handler(32, delay) @@ Handler(48, I("NOP"))

Program(first, second, delay) == (10 :> first) @@ (12 :> second) @@ Frame(delay)

Registers ==
    {Imm("ADD", 2, 5), Reg("ADDC", 2, 1), I("CLRT"), I("MOVT"), Reg("CMP/EQ", 1, 1),
     Sys("STC", "SR", 2), Sys("LDC", "MACL", 1), Disp("MOVA", 4)}

Branches ==
    {Disp("BRA", 4), Disp("BSR", 10), Reg("JSR", 3, 0), Reg("JMP", 3, 0), I("RTS"),
     Disp("BT", 4), Disp("BF", 4), Disp("BT/S", 4), Disp("BF/S", 4)}

Accesses ==
    {Mem("LOAD", "@R", 2, 1, 0), Mem("LOAD", "@R+", 2, 1, 0), Mem("LOAD", "@R+", 1, 1, 0),
     Mem("LOAD", "@(disp,R)", 2, 1, 8), Mem("LOAD", "@(R0,R)", 2, 1, 0),
     Mem("LOAD", "@(disp,GBR)", 0, 0, 4), Mem("LOAD", "@(disp,PC)", 2, 0, 72),
     Mem("STORE", "@R", 1, 3, 0), Mem("STORE", "@-R", 1, 3, 0), Mem("STORE", "@-R", 15, 3, 0),
     Mem("STORE", "@(disp,R)", 1, 3, 4), Sys("PUSH", "PR", 15), Sys("PUSH", "SR", 15),
     Sys("POP", "PR", 15), Sys("POP", "SR", 1), Imm("AND.B", 0, 3), Imm("XOR.B", 0, 3),
     Imm("OR.B", 0, 2)}

\* Bytes and halfwords in every addressing mode that has them
Narrow ==
    {Sized(1, Mem("LOAD", "@R", 2, 1, 0)), Sized(2, Mem("LOAD", "@R+", 2, 1, 0)),
     Sized(1, Mem("LOAD", "@R+", 1, 1, 0)), Sized(2, Mem("LOAD", "@(disp,R)", 0, 1, 6)),
     Sized(1, Mem("LOAD", "@(R0,R)", 2, 1, 0)), Sized(1, Mem("LOAD", "@(disp,GBR)", 0, 0, 3)),
     Sized(2, Mem("LOAD", "@(disp,PC)", 2, 0, 66)), Sized(2, Mem("STORE", "@R", 1, 3, 0)),
     Sized(1, Mem("STORE", "@-R", 1, 3, 0)), Sized(2, Mem("STORE", "@-R", 15, 3, 0)),
     Sized(2, Mem("STORE", "@(R0,R)", 1, 3, 0)), Sized(1, Mem("STORE", "@(disp,R)", 1, 0, 2)),
     Sized(2, Mem("STORE", "@(disp,R)", 1, 0, 0)), Sized(2, Mem("STORE", "@(disp,GBR)", 0, 0, 2))}

Exceptions == {Disp("TRAPA", 14), Disp("TRAPA", 15)}

Setup(first, second, delay, budget, requests) ==
    [program |-> Program(first, second, delay), memory |-> MCMemory,
     budget |-> budget, requests |-> requests]

Slots == {I("NOP"), Mem("LOAD", "@R", 2, 1, 0)}
Ordinary == Registers \cup Branches \cup Accesses \cup Narrow

\* SH2Core::step and run-ahead.  Left out, because the core is known to deviate:
\* TRAPA and RTE under a budget, requests in front of delay slots, accesses that
\* are fetched on a miss, pops through R0, and the words AsDecoded changes
MCSetups ==
    {Setup(i, j, I("NOP"), b, "none") : i \in Ordinary, j \in Ordinary, b \in {1, 3}}
    \cup {Setup(i, j, d, 1, "boundary") :
             i \in Accesses \cup Narrow \cup Exceptions \cup {Disp("BRA", 4)},
             j \in {Imm("ADD", 2, 5), Mem("STORE", "@-R", 15, 3, 0)}, d \in Slots}

\* TRAPA under run-ahead, as in Emulator::run_bios_trace
TrapSetups == {Setup(Disp("TRAPA", 14), Imm("ADD", 2, 5), I("NOP"), b, "none") : b \in {2, 16}}

\* BF/S to the instruction after its delay slot, from a cached line
ShadowSetups == {Setup(Disp("BF/S", 2), Imm("ADD", 2, 5), I("NOP"), b, "none") : b \in {1, 16}}

RunAheadSetups == TrapSetups \cup ShadowSetups
=============================================================================
