----------------------------- MODULE MCBiosPair -----------------------------
(***************************************************************************)
(* Images for BiosPair.  Lines have four halfwords; the first of each line *)
(* is fetched, the others run from the cache.  R1 points to shared data,   *)
(* R4 to the devices; R3 stays zero, the address of an instruction.        *)
(***************************************************************************)
EXTENDS BiosPair

I(name) == [S!IllegalInstr EXCEPT !.op = name]
Imm(name, n, x) == [I(name) EXCEPT !.n = n, !.x = x, !.imm = TRUE]
Reg(name, n, m) == [I(name) EXCEPT !.n = n, !.m = m]
Mem(name, size, n, m) == [I(name) EXCEPT !.mode = "@R", !.size = size, !.n = n, !.m = m]
Disp(name, x) == [I(name) EXCEPT !.x = x]

\* Instruction words are numbers of this list.  Number 13 is 0xBAD0, which
\* the decoder takes for a BSR.
Menu == <<
    Imm("MOV", 1, 24),          \* 1
    Imm("ADD", 2, 1),           \* 2
    Disp("BRA", 0 - 14),        \* 3, from 12 to 2
    I("NOP"),                   \* 4
    Mem("LOAD", 4, 2, 1),       \* 5
    Mem("STORE", 4, 1, 2),      \* 6
    Mem("STORE", 2, 3, 2),      \* 7, to address 0
    Mem("LOAD", 2, 2, 4),       \* 8, from a device
    Mem("STORE", 4, 4, 2),      \* 9, to a device
    Reg("MUL.L", 2, 2),         \* 10
    Reg("JMP", 2, 0),           \* 11, to the alias or to odd addresses, too
    Imm("OR.B", 0, 2),          \* 12, at address 0
    Disp("BSR", 0 - 20),        \* 13
    Imm("MOV", 4, 64),          \* 14
    Imm("ADD", 2, 2050)>>       \* 15, into the uncached alias

MCDecode(code) == IF code \in DOMAIN Menu THEN Menu[code] ELSE S!IllegalInstr

MCRamAddr == 0..31
MCMmioAddr == 64..71
MCLatency ==
    [ram_read |-> 4, ram_write |-> 3, ifetch |-> 5, mmio_read |-> 12, mmio_write |-> 10,
     barrier |-> 1, same_address_contention |-> 2, tie_turnaround |-> 1]
MCDevRead(d, addr, size) == d
MCDevWrite(d, addr, size, v) == v % 4

Image(code) ==
    [a \in RamAddr |->
        IF a \div 2 + 1 \in DOMAIN code THEN ByteOf(code[a \div 2 + 1], 2, a % 2) ELSE 0]

Free == {2, 5, 6, 7, 8, 9, 10, 11, 12, 15}

\* A loop from 2 to 14
MCImages == {Image(<<1, i, 2, j, 14, k, 3, 4>>) : i \in Free, j \in Free, k \in Free}
=============================================================================
