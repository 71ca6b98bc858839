------------------------------- MODULE Sh2Host ------------------------------
(***************************************************************************)
(* An SH2Core and the loop around it: produce_until_bus, the commit of the *)
(* bus operation, apply_ifetch_and_step; SH2Core::step has a run-ahead     *)
(* budget of 1, Emulator::run_bios_trace one of 16.  The core is alone on  *)
(* the bus, and a program does not write its own instructions.             *)
(***************************************************************************)
EXTENDS Sh2Core

CONSTANTS
    Setups,      \* [program, memory, budget, requests]: what a run may start with
    Vectors,     \* exception vectors that the caller requests
    MaxRequests, \* bound on their number
    ResetPc, ResetSp

ASSUME HostAssumption ==
    /\ Vectors \subseteq Nat
    /\ MaxRequests \in Nat
    /\ ResetPc \in Word /\ ResetSp \in Word
    /\ \A s \in Setups : s.budget \in Nat \ {0}

Traps == {"TRAPA", "RTE"}
Ops == AluOps \cup MemoryOps \cup DelayedBranches
         \cup {"STC", "LDC", "MOVA", "BT", "BF", "ILLEGAL"} \cup Traps
Modes == {"@R", "@R+", "@-R", "@(disp,R)", "@(R0,R)", "@(disp,GBR)", "@(disp,PC)"}

\* An instruction that the decoder knows
WellFormed(i) ==
    /\ i.op \in Ops /\ {i.n, i.m} \subseteq Regs /\ i.x \in Int
    /\ i.op \in {"LOAD", "STORE"} => i.mode \in Modes /\ i.size \in AccessSizes
    /\ i.op \in {"STC", "LDC", "PUSH", "POP"} => i.sys \in SysRegs

ASSUME ProgramAssumption == \A s \in Setups : \A a \in DOMAIN s.program : WellFormed(s.program[a])

VARIABLES
    setup,     \* the run's program, initial memory, budget and kind of caller
    core,      \* the SH2Core
    mem,       \* CommittedMemory
    op,        \* the bus operation that produce_until_bus returned, if any
    fuel,      \* iterations left in produce_until_bus, or Idle outside of it
    depth,     \* exceptions entered and not returned from, as software counts
    requested  \* requests made

vars == <<setup, core, mem, op, fuel, depth, requested>>

Idle == -1
NoBusOp == [kind |-> "None", addr |-> 0, size |-> 0, value |-> 0, fill |-> FALSE]

\* The instruction at pc, and the one that the loop takes it for
instr == InstrAt(setup.program, core.pc)
decoded == AsDecoded(instr)

\* What executing an instruction does to the software's count of exceptions
DepthAfter(i) ==
    CASE i.op = "TRAPA"              -> depth + 1
      [] i.op = "RTE" /\ depth > 0   -> depth - 1
      [] OTHER                       -> depth

-----------------------------------------------------------------------------
(* produce_until_bus: exceptions first, then the access that is pending,    *)
(* then the instructions in the cache, as long as there is budget           *)

MayProduce == op = NoBusOp /\ fuel = Idle

TakeException ==
    /\ MayProduce
    /\ core.pending_exception_vector # None
    /\ core' = take_exception(core)
    /\ op' = data_op(core')
    /\ depth' = depth + 1
    /\ UNCHANGED <<setup, mem, fuel, requested>>

IssuePending ==
    /\ MayProduce
    /\ core.pending_exception_vector = None /\ Waiting(core)
    /\ op' = data_op(core)
    /\ UNCHANGED <<setup, core, mem, fuel, depth, requested>>

StartRun ==
    /\ MayProduce
    /\ core.pending_exception_vector = None /\ ~Waiting(core)
    /\ fuel' = setup.budget
    /\ UNCHANGED <<setup, core, mem, op, depth, requested>>

Running == fuel > 0

RunHit ==
    /\ Running /\ Cached(core) /\ decoded.op \notin MemoryOps
    /\ core' = execute_instruction(core, instr)
    /\ fuel' = fuel - 1
    /\ depth' = DepthAfter(instr)
    /\ UNCHANGED <<setup, mem, op, requested>>

RunMemory ==
    /\ Running /\ Cached(core) /\ decoded.op \in MemoryOps
    /\ core' = decode_memory(core, decoded)
    /\ op' = data_op(core')
    /\ fuel' = Idle
    /\ UNCHANGED <<setup, mem, depth, requested>>

RunFetch ==
    /\ Running /\ ~Cached(core)
    /\ op' = fetch_op(core)
    /\ fuel' = Idle
    /\ UNCHANGED <<setup, core, mem, depth, requested>>

RunEnd ==
    /\ fuel = 0
    /\ fuel' = Idle
    /\ UNCHANGED <<setup, core, mem, op, depth, requested>>

-----------------------------------------------------------------------------
(* The commit of the operation and its answer *)

Commit(m, o) == IF o.kind = "Write" THEN WriteMem(m, o.addr, o.size, o.value) ELSE m

DataResponse ==
    /\ op.kind \in {"Read", "Write"}
    /\ mem' = Commit(mem, op)
    /\ core' = apply_pending(core, ReadMem(mem, op.addr, op.size))
    /\ op' = NoBusOp
    /\ UNCHANGED <<setup, fuel, depth, requested>>

FetchResponse ==
    /\ op.kind = "IFetch"
    /\ LET fetched == InstrAt(setup.program, op.addr)
       IN  /\ core' = apply_fetch(core, op, fetched)
           /\ depth' = IF Waiting(core) THEN depth ELSE DepthAfter(fetched)
    /\ op' = NoBusOp
    /\ UNCHANGED <<setup, mem, fuel, requested>>

-----------------------------------------------------------------------------
(* The caller's requests.  request_exception_vector tests nothing, so a      *)
(* caller may ask whenever produce_until_bus is not running: with an access  *)
(* pending or on the bus, in front of a delay slot, in a handler.  A         *)
(* "boundary" caller asks only between two instructions outside of handlers. *)

BetweenInstructions ==
    op = NoBusOp /\ ~Waiting(core) /\ depth = 0 /\ core.pending_branch_target = None

Request(v) ==
    /\ setup.requests # "none" /\ requested < MaxRequests
    /\ fuel = Idle
    /\ setup.requests = "boundary" => BetweenInstructions
    /\ core' = request_exception_vector(core, v)
    /\ requested' = requested + 1
    /\ UNCHANGED <<setup, mem, op, fuel, depth>>

Init ==
    /\ setup \in Setups
    /\ core = reset(ResetPc, ResetSp)
    /\ mem = setup.memory
    /\ op = NoBusOp /\ fuel = Idle
    /\ depth = 0 /\ requested = 0

Next ==
    \/ TakeException \/ IssuePending \/ StartRun
    \/ RunHit \/ RunMemory \/ RunFetch \/ RunEnd
    \/ DataResponse \/ FetchResponse
    \/ \E v \in Vectors : Request(v)

Spec == Init /\ [][Next]_vars

-----------------------------------------------------------------------------
(* Properties *)

\* The core and the memory once the accesses of the instruction or exception
\* in progress are done: four at most
Settle(s) ==
    IF ~Waiting(s.core)
      THEN s
      ELSE [core |-> apply_pending(s.core, ReadMem(s.mem, s.core.pending_mem_op.phys_addr,
                                                 s.core.pending_mem_op.size)),
            mem  |-> Commit(s.mem, data_op(s.core))]

\* Sets of one element, so that TLC evaluates every stage once
Settles(S) == {Settle(s) : s \in S}
Settled == CHOOSE s \in Settles(Settles(Settles(Settles({[core |-> core, mem |-> mem]})))) : TRUE

SlotOf(c) ==
    [target |-> c.pending_branch_target,
     sr     |-> IF c.pending_rte_restore THEN Some(c.pending_new_sr) ELSE None]

Arch == INSTANCE Sh2Isa WITH
    program <- setup.program, pc <- Settled.core.pc, r <- Settled.core.r,
    sys <- Settled.core.sys, mem <- Settled.mem, slot <- SlotOf(Settled.core),
    irq <- core.pending_exception_vector

\* Splitting an instruction into bus accesses, the instruction cache and the
\* run-ahead budget are invisible to software: every step of the core is an
\* instruction of Sh2Isa, an exception entry between instructions, or nothing
\* (produce_until_bus and apply_ifetch_and_step, sh2_core.cpp:638-1082).
RefinesIsa == Arch!Spec

\* Registers are words and memory holds bytes, whatever the instructions compute:
\* the types of the members of SH2Core and of CommittedMemory (sh2_core.hpp,
\* memory.hpp), which the arithmetic of Sh2Alu and the accesses have to keep.
HasWords(c) == c.pc \in Word /\ c.r \in [Regs -> Word] /\ c.sys \in [SysRegs -> Word]
HoldsWords == HasWords(core) /\ \A a \in DOMAIN mem : mem[a] \in Byte

Hit == Running /\ Cached(core)
Fetched == op.kind = "IFetch"

\* Nothing happens in which the core is known to deviate from Sh2Isa: exceptions
\* do not nest and are requested neither while an access is under way nor in
\* front of a delay slot; a memory instruction is in the cache when it executes,
\* and the loop decodes it as what it is (sh2_core.cpp:670-845); TRAPA and RTE
\* end the run-ahead and are not in delay slots; PR is not transferred, R0 not
\* popped through, and no register is stored through itself with decrement.
Conforms ==
    /\ depth <= 1
    /\ core.pending_exception_vector # None =>
          op = NoBusOp /\ ~Waiting(core) /\ core.pending_branch_target = None
    /\ Fetched => instr.op \notin MemoryOps
    /\ Hit => decoded = instr /\ (instr.op \in Traps => fuel = 1)
    /\ Hit \/ Fetched =>
          /\ instr.op \in Traps => core.pending_branch_target = None
          /\ instr.op \in {"STC", "LDC"} => instr.sys # "PR"
          /\ instr.op = "POP" => instr.n # 0
          /\ instr.op = "STORE" /\ instr.mode = "@-R" => instr.n # instr.m

\* The optional members are set whenever the pending access dereferences or
\* consumes them, whatever the program and the budget are and whenever the caller
\* requests an exception, inside handlers and over an access included: a TRAPA
\* sequence has its immediate (*pending_trapa_imm_, sh2_core.cpp:976), RTE pops
\* only with a return context, SR is restored only behind a delay slot that
\* leads to the popped address, and a data access on the bus has an access that
\* waits for its answer.
PendingWellFormed ==
    /\ core.pending_mem_op.kind \in TrapaKinds => core.pending_trapa_imm # None
    /\ core.pending_mem_op.kind \in RteKinds => core.has_exception_return_context
    /\ core.pending_rte_restore => core.pending_branch_target = Some(core.pending_new_pc)
    /\ op.kind \in {"Read", "Write"} => Waiting(core)
=============================================================================
