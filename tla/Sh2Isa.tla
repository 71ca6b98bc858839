------------------------------- MODULE Sh2Isa -------------------------------
(***************************************************************************)
(* What the SH-2 core promises to software: instructions are executed one  *)
(* at a time and completely, in program order with delay slots, and an     *)
(* exception is entered between two instructions.  There is no bus, no     *)
(* instruction cache and no run-ahead.                                     *)
(***************************************************************************)
EXTENDS Sh2Instr

VARIABLES
    program,  \* instructions by address; no step changes it
    pc, r, sys, mem,
    slot,     \* where the delay slot at pc leads, and the SR to restore after it
    depth,    \* exceptions entered and not returned from
    irq       \* vector of a requested exception

archVars == <<program, pc, r, sys, mem, slot, depth, irq>>

NoSlot == [target |-> None, sr |-> None]

ins == InstrAt(program, pc)

\* Leave the instruction: behind a delay slot the branch target wins
Leave(next, taken) ==
    /\ pc' = IF slot = NoSlot THEN next ELSE value_of(slot.target)
    /\ slot' = IF slot = NoSlot THEN taken ELSE NoSlot

LeaveSys(s) ==
    sys' = IF slot.sr = None THEN s ELSE [s EXCEPT !["SR"] = value_of(slot.sr)]

Retire == Leave(u32_add(pc, 2), NoSlot)

Register ==
    /\ ins.op \in AluOps
    /\ r' = AluRegs(ins, r, sys)
    /\ LeaveSys(AluSys(ins, r, sys))
    /\ Retire
    /\ UNCHANGED <<program, mem, depth, irq>>

Transfer ==
    /\ \/ ins.op = "STC" /\ r' = [r EXCEPT ![ins.n] = sys[ins.sys]] /\ LeaveSys(sys)
       \/ ins.op = "MOVA" /\ r' = [r EXCEPT ![0] = u32_add(pc_base(pc, 4), ins.x)] /\ LeaveSys(sys)
       \/ ins.op = "LDC" /\ r' = r /\ LeaveSys([sys EXCEPT ![ins.sys] = r[ins.n]])
    /\ Retire
    /\ UNCHANGED <<program, mem, depth, irq>>

\* A register that is both pointer and destination of a load keeps the value
Load ==
    /\ ins.op = "LOAD"
    /\ LET stepped == IF ins.mode = "@R+" THEN [r EXCEPT ![ins.m] = u32_add(@, ins.size)] ELSE r
           value == ReadMem(mem, Address(ins, ins.m, pc, r, sys), ins.size)
       IN  r' = [stepped EXCEPT ![ins.n] = Extended(value, ins.size)]
    /\ LeaveSys(sys)
    /\ Retire
    /\ UNCHANGED <<program, mem, depth, irq>>

Store ==
    /\ ins.op = "STORE"
    /\ mem' = WriteMem(mem, Address(ins, ins.n, pc, r, sys), ins.size, r[ins.m])
    /\ r' = IF ins.mode = "@-R" THEN [r EXCEPT ![ins.n] = u32_sub(@, ins.size)] ELSE r
    /\ LeaveSys(sys)
    /\ Retire
    /\ UNCHANGED <<program, depth, irq>>

Push ==
    /\ ins.op = "PUSH"
    /\ r' = [r EXCEPT ![ins.n] = u32_sub(@, 4)]
    /\ mem' = WriteMem(mem, r'[ins.n], 4, sys[ins.sys])
    /\ LeaveSys(sys)
    /\ Retire
    /\ UNCHANGED <<program, depth, irq>>

Pop ==
    /\ ins.op = "POP"
    /\ r' = [r EXCEPT ![ins.n] = u32_add(@, 4)]
    /\ LeaveSys([sys EXCEPT ![ins.sys] = ReadMem(mem, r[ins.n], 4)])
    /\ Retire
    /\ UNCHANGED <<program, mem, depth, irq>>

Modify ==
    /\ ins.op \in RmwOps
    /\ LET a == u32_add(sys["GBR"], r[0])
       IN  mem' = WriteMem(mem, a, 1, RmwResult(ins.op, ReadMem(mem, a, 1), ins.x))
    /\ LeaveSys(sys)
    /\ Retire
    /\ UNCHANGED <<program, r, depth, irq>>

\* BT and BF branch at once, the others behind their delay slot
Branch ==
    /\ ins.op \in DelayedBranches \cup {"BT", "BF"}
    /\ LET target == Target(ins, pc, r, sys)
           taken  == BranchTaken(ins, sys["SR"])
       IN  IF taken /\ ins.op \in DelayedBranches
             THEN Leave(u32_add(pc, 2), [target |-> Some(target), sr |-> None])
             ELSE Leave(IF taken THEN target ELSE u32_add(pc, 2), NoSlot)
    /\ LeaveSys(IF Links(ins) THEN [sys EXCEPT !["PR"] = u32_add(pc, 4)] ELSE sys)
    /\ UNCHANGED <<program, r, mem, depth, irq>>

\* Push SR and the return address and go to the handler of the vector
Enter(vector, return) ==
    /\ slot = NoSlot
    /\ r' = [r EXCEPT ![15] = u32_sub(@, 8)]
    /\ mem' = WriteMem(WriteMem(mem, u32_sub(r[15], 4), 4, sys["SR"]), u32_sub(r[15], 8), 4, return)
    /\ pc' = ReadMem(mem', u32_add(sys["VBR"], 4 * vector), 4)
    /\ depth' = depth + 1
    /\ UNCHANGED <<program, sys, slot>>

Trap ==
    /\ ins.op = "TRAPA"
    /\ Enter(ins.x, u32_add(pc, 2))
    /\ irq' = irq

Interrupt ==
    /\ irq # None
    /\ Enter(value_of(irq), pc)
    /\ irq' = None

\* Pop the return address and SR; both take effect behind the delay slot
Return ==
    /\ ins.op = "RTE" /\ depth > 0 /\ slot = NoSlot
    /\ r' = [r EXCEPT ![15] = u32_add(@, 8)]
    /\ slot' = [target |-> Some(ReadMem(mem, r[15], 4)),
                sr     |-> Some(ReadMem(mem, u32_add(r[15], 4), 4))]
    /\ pc' = u32_add(pc, 2)
    /\ depth' = depth - 1
    /\ UNCHANGED <<program, sys, mem, irq>>

\* Illegal instructions, and RTE outside exceptions, are reported and skipped
Skip ==
    /\ \/ ins.op = "ILLEGAL"
       \/ ins.op = "RTE" /\ depth = 0
    /\ LeaveSys(sys)
    /\ Retire
    /\ UNCHANGED <<program, r, mem, depth, irq>>

Request ==
    /\ irq' # None
    /\ UNCHANGED <<program, pc, r, sys, mem, slot, depth>>

Init ==
    /\ sys = [s \in SysRegs |-> IF s = "SR" THEN 240 ELSE 0]
    /\ slot = NoSlot /\ depth = 0 /\ irq = None

Next ==
    \/ Register \/ Transfer \/ Load \/ Store \/ Push \/ Pop \/ Modify
    \/ Branch \/ Trap \/ Interrupt \/ Return \/ Skip \/ Request

Spec == Init /\ [][Next]_archVars
=============================================================================
