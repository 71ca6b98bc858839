------------------------------- MODULE Sh2Core ------------------------------
(***************************************************************************)
(* SH2Core as functions on its state.  Fields carry the names of the       *)
(* members of the class without the trailing underscore; sys holds the     *)
(* system registers, icache the tags of the valid lines.  Local time,      *)
(* instruction counts and trace lines are left out.                        *)
(***************************************************************************)
EXTENDS Sh2Instr

CONSTANTS
    LineSize,   \* bytes of an instruction cache line
    CacheLines  \* lines of the direct-mapped instruction cache

ASSUME CacheAssumption == LineSize \in Nat \ {0} /\ CacheLines \in Nat \ {0}

NoReg == -1

\* PendingMemOp: the access the core waits for.  load_to is a system register
\* or "R" for register dst_reg; aux a vector or the mask of a read-modify-write.
\* post_inc_size is size whenever there is a register to step.
Access(kind, phys_addr, size, value) ==
    [kind |-> kind, phys_addr |-> phys_addr, size |-> size, value |-> value, dst_reg |-> 0,
     load_to |-> "R", post_inc_reg |-> NoReg, aux |-> 0]

MemOp(kind, phys_addr, value) == Access(kind, phys_addr, 4, value)

NoOp == MemOp("None", 0, 0)
Waiting(c) == c.pending_mem_op.kind # "None"

RmwReads == [op \in RmwOps |->
    CASE op = "AND.B" -> "RmwAndByteRead"
      [] op = "XOR.B" -> "RmwXorByteRead"
      [] op = "OR.B"  -> "RmwOrByteRead"]

TrapaKinds == {"TrapaPushSr", "TrapaPushPc", "TrapaVectorRead"}
RteKinds == {"RtePopPc", "RtePopSr"}
ReadKind(size) == IF size = 1 THEN "ReadByte" ELSE IF size = 2 THEN "ReadWord" ELSE "ReadLong"
StoreKind(size) == IF size = 1 THEN "WriteByte" ELSE IF size = 2 THEN "WriteWord" ELSE "WriteLong"
WriteKinds ==
    {"WriteByte", "WriteWord", "WriteLong", "ExceptionPushSr", "ExceptionPushPc",
     "TrapaPushSr", "TrapaPushPc", "RmwWriteByte"}

reset(entry, sp) ==
    [pc |-> entry, r |-> [n \in Regs |-> IF n = 15 THEN sp ELSE 0],
     sys |-> [s \in SysRegs |-> IF s = "SR" THEN 240 ELSE 0],
     icache |-> {}, pending_mem_op |-> NoOp, pending_branch_target |-> None,
     pending_exception_vector |-> None, has_exception_return_context |-> FALSE,
     pending_new_pc |-> 0, pending_new_sr |-> 0, pending_rte_restore |-> FALSE,
     pending_trapa_imm |-> None]

request_exception_vector(c, vector) == [c EXCEPT !.pending_exception_vector = Some(vector)]

-----------------------------------------------------------------------------
(* Parts of an instruction *)

Advance(c) == [c EXCEPT !.pc = u32_add(@, 2)]
Await(c, op) == [c EXCEPT !.pending_mem_op = op]

\* Decrement Rn and wait for a write there
PushTo(c, n, kind, value) ==
    LET top == u32_sub(c.r[n], 4)
    IN  [c EXCEPT !.r[n] = top, !.pending_mem_op = MemOp(kind, to_phys(top), value)]

\* Wait for the longword at Rn, which goes to a system register
PopFrom(c, n, s) ==
    Await(c, [MemOp("ReadLong", to_phys(c.r[n]), 0) EXCEPT !.load_to = s, !.post_inc_reg = n])

RestoreSr(c) ==
    IF c.pending_rte_restore
      THEN [c EXCEPT !.sys["SR"] = c.pending_new_sr, !.pending_rte_restore = FALSE]
      ELSE c

-----------------------------------------------------------------------------
(* execute_instruction *)

BeginTrap(c, imm) ==
    [PushTo(c, 15, "TrapaPushSr", c.sys["SR"]) EXCEPT !.pending_trapa_imm = Some(imm)]

BeginReturn(c) ==
    IF c.has_exception_return_context
      THEN Await(c, MemOp("RtePopPc", to_phys(c.r[15]), 0))
      ELSE c

\* The branch of the decoder that ins takes, pc included.  PR has no transfer
\* instructions here and no push; other memory instructions are illegal.
Effect(c, ins) ==
    CASE ins.op \in AluOps ->
           Advance([c EXCEPT !.r = AluRegs(ins, c.r, c.sys), !.sys = AluSys(ins, c.r, c.sys)])
      [] ins.op = "STC" /\ ins.sys # "PR" -> Advance([c EXCEPT !.r[ins.n] = c.sys[ins.sys]])
      [] ins.op = "LDC" /\ ins.sys # "PR" -> Advance([c EXCEPT !.sys[ins.sys] = c.r[ins.n]])
      [] ins.op = "PUSH" /\ ins.sys # "PR" ->
           Advance(PushTo(c, ins.n, "WriteLong", c.sys[ins.sys]))
      [] ins.op = "POP"   -> Advance(PopFrom(c, ins.n, ins.sys))
      [] ins.op = "MOVA"  -> Advance([c EXCEPT !.r[0] = u32_add(pc_base(c.pc, 4), ins.x)])
      [] ins.op \in {"BT", "BF"} /\ BranchTaken(ins, c.sys["SR"]) ->
           [c EXCEPT !.pc = Target(ins, c.pc, c.r, c.sys)]
      [] Links(ins)       -> Advance([c EXCEPT !.sys["PR"] = u32_add(c.pc, 4)])
      [] ins.op = "RTE"   -> Advance(BeginReturn(c))
      [] ins.op = "TRAPA" -> BeginTrap(c, ins.x)
      [] OTHER            -> Advance(c)

next_branch_target(c, ins) ==
    IF ins.op \in DelayedBranches /\ BranchTaken(ins, c.sys["SR"])
      THEN Some(Target(ins, c.pc, c.r, c.sys))
      ELSE None

\* Behind a delay slot the pending branch is taken and a new one is ignored
execute_instruction(c, ins) ==
    LET done == Effect([c EXCEPT !.pending_branch_target = None], ins)
    IN  IF c.pending_branch_target = None
          THEN [done EXCEPT !.pending_branch_target = next_branch_target(c, ins)]
          ELSE [RestoreSr(done) EXCEPT !.pc = value_of(c.pending_branch_target)]

-----------------------------------------------------------------------------
(* produce_until_bus *)

take_exception(c) ==
    [PushTo(c, 15, "ExceptionPushSr", c.sys["SR"]) EXCEPT
        !.pending_mem_op.aux = value_of(c.pending_exception_vector),
        !.pending_exception_vector = None]

\* The loop tests words 0x8xy0 and 0x8xy1 before it looks at x.  Xnibble is x,
\* or None for instructions outside that group; LowByte is y and the last digit.
Xnibble(ins) ==
    CASE ins.op = "STORE" /\ ins.mode = "@(disp,R)" /\ ins.size = 1 -> Some(0)
      [] ins.op = "STORE" /\ ins.mode = "@(disp,R)" /\ ins.size = 2 -> Some(1)
      [] ins.op = "CMP/EQ" /\ ins.imm -> Some(8)
      [] ins.op = "BT"   -> Some(9)
      [] ins.op = "BF"   -> Some(11)
      [] ins.op = "BT/S" -> Some(13)
      [] ins.op = "BF/S" -> Some(15)
      [] OTHER -> None

LowByte(ins) ==
    CASE ins.op = "STORE"  -> 16 * ins.n + ins.x \div ins.size
      [] ins.op = "CMP/EQ" -> ins.x % 256
      [] OTHER             -> (ins.x \div 2) % 256

R0Store(x, y, size) ==
    [IllegalInstr EXCEPT !.op = "STORE", !.mode = "@(disp,R)", !.size = size,
                         !.n = x, !.m = 0, !.x = y * size]

\* The instruction that the loop takes a cached word for: words 0x8xy1 are
\* stores of a halfword to Rx + 2y and words 0x8xy0, except MOV.W's own 0x81y0,
\* stores of a byte to Rx + y
AsDecoded(ins) ==
    LET x == Xnibble(ins)
        y == LowByte(ins) \div 16
    IN  CASE x # None /\ LowByte(ins) % 16 = 1 -> R0Store(value_of(x), y, 2)
          [] x # None /\ LowByte(ins) % 16 = 0 /\ x # Some(1) -> R0Store(value_of(x), y, 1)
          [] OTHER -> ins

\* The memory instructions of a cached line: the access to wait for
decode_memory(c, ins) ==
    CASE ins.op = "LOAD" ->
           Await(c, [Access(ReadKind(ins.size), to_phys(Address(ins, ins.m, c.pc, c.r, c.sys)),
                            ins.size, 0) EXCEPT
                        !.dst_reg = ins.n,
                        !.post_inc_reg = IF ins.mode = "@R+" THEN ins.m ELSE NoReg])
      [] ins.op = "STORE" ->
           LET d == IF ins.mode = "@-R" THEN [c EXCEPT !.r[ins.n] = u32_sub(@, ins.size)] ELSE c
           IN  Await(d, Access(StoreKind(ins.size),
                               to_phys(Address(ins, ins.n, c.pc, c.r, c.sys)), ins.size,
                               Truncated(d.r[ins.m], ins.size)))
      [] ins.op = "PUSH" -> PushTo(c, ins.n, "WriteLong", c.sys[ins.sys])
      [] ins.op = "POP"  -> PopFrom(c, ins.n, ins.sys)
      [] ins.op \in RmwOps ->
           Await(c, [Access(RmwReads[ins.op], to_phys(u32_add(c.sys["GBR"], c.r[0])), 1, 0) EXCEPT
                        !.aux = ins.x])

Line(pc) == to_phys(pc) \div LineSize
Cached(c) == ~is_uncached_alias(c.pc) /\ Line(c.pc) \in c.icache

\* Bus operations.  Only misses of cacheable addresses ask for the line.
data_op(c) ==
    [kind  |-> IF c.pending_mem_op.kind \in WriteKinds THEN "Write" ELSE "Read",
     addr  |-> c.pending_mem_op.phys_addr,
     size  |-> c.pending_mem_op.size,
     value |-> c.pending_mem_op.value,
     fill  |-> FALSE]

fetch_op(c) ==
    [kind |-> "IFetch", addr |-> to_phys(c.pc), size |-> 2, value |-> 0,
     fill |-> ~is_uncached_alias(c.pc)]

-----------------------------------------------------------------------------
(* apply_ifetch_and_step *)

\* The pointer of a load is not stepped when it is the destination register
PostIncrement(c, p) ==
    IF p.post_inc_reg \in Regs \ {p.dst_reg}
      THEN [c EXCEPT !.r[p.post_inc_reg] = u32_add(@, p.size)]
      ELSE c

Loaded(c, p, value) ==
    CASE p.kind \notin {"ReadByte", "ReadWord", "ReadLong"} -> c
      [] p.kind = "ReadLong" /\ p.load_to # "R" -> [c EXCEPT !.sys[p.load_to] = value]
      [] OTHER -> [c EXCEPT !.r[p.dst_reg] = Extended(value, p.size)]

\* Seeded fault: SR is not restored behind a memory instruction
RetireWithoutSr(c) ==
    IF c.pending_branch_target = None
      THEN Advance(c)
      ELSE [c EXCEPT !.pc = value_of(c.pending_branch_target), !.pending_branch_target = None,
                     !.pending_rte_restore = FALSE]

\* A memory instruction is complete: take the branch it is the delay slot of
Retire(c) ==
    IF c.pending_branch_target = None
      THEN Advance(c)
      ELSE [RestoreSr(c) EXCEPT !.pc = value_of(c.pending_branch_target), !.pending_branch_target = None]

EnterHandler(c, address) ==
    [c EXCEPT !.pc = address, !.has_exception_return_context = TRUE]

\* Seeded fault: the immediate is cleared one access early
TrapVectorForgotten(c, kind, vector) ==
    [Await(c, MemOp(kind, to_phys(u32_add(c.sys["VBR"], 4 * vector)), 0)) EXCEPT
        !.pending_trapa_imm = None]

ReadVector(c, kind, vector) ==
    Await(c, MemOp(kind, to_phys(u32_add(c.sys["VBR"], 4 * vector)), 0))

RmwOp(kind) == CHOOSE op \in RmwOps : RmwReads[op] = kind

\* The answer to the pending access, which may lead to the next one
apply_pending(before, value) ==
    LET p == before.pending_mem_op
        c == [before EXCEPT !.pending_mem_op = NoOp]
    IN  CASE p.kind = "ExceptionPushSr" ->
               [PushTo(c, 15, "ExceptionPushPc", c.pc) EXCEPT !.pending_mem_op.aux = p.aux]
          [] p.kind = "ExceptionPushPc"     -> ReadVector(c, "ExceptionVectorRead", p.aux)
          [] p.kind = "ExceptionVectorRead" -> EnterHandler(c, value)
          [] p.kind = "TrapaPushSr" -> PushTo(c, 15, "TrapaPushPc", u32_add(c.pc, 2))
          [] p.kind = "TrapaPushPc" -> ReadVector(c, "TrapaVectorRead", value_of(c.pending_trapa_imm))
          [] p.kind = "TrapaVectorRead" ->
               [EnterHandler(c, value) EXCEPT !.pending_trapa_imm = None]
          [] p.kind = "RtePopPc" ->
               LET d == [c EXCEPT !.pending_new_pc = value, !.r[15] = u32_add(@, 4)]
               IN  Await(d, MemOp("RtePopSr", to_phys(d.r[15]), 0))
          [] p.kind = "RtePopSr" ->
               [c EXCEPT !.pending_new_sr = value, !.r[15] = u32_add(@, 4),
                         !.pending_rte_restore = TRUE,
                         !.pending_branch_target = Some(c.pending_new_pc),
                         !.has_exception_return_context = FALSE]
          [] p.kind \in {RmwReads[op] : op \in RmwOps} ->
               Await(c, Access("RmwWriteByte", p.phys_addr, 1,
                               RmwResult(RmwOp(p.kind), Truncated(value, 1), p.aux)))
          [] OTHER -> Retire(PostIncrement(Loaded(c, p, value), p))

\* Seeded fault: the line is fetched but not marked valid
line_left_invalid(c) ==
    [c EXCEPT !.icache = {l \in @ : l % CacheLines # Line(c.pc) % CacheLines}]

fill_line(c) ==
    [c EXCEPT !.icache = {l \in @ : l % CacheLines # Line(c.pc) % CacheLines} \cup {Line(c.pc)}]

\* The answer to a fetch: instr is what the bus returned.  A pending access
\* takes it for its own answer.
apply_fetch(c, op, instr) ==
    IF Waiting(c)
      THEN apply_pending(c, instr.word)
      ELSE execute_instruction(IF op.fill THEN fill_line(c) ELSE c, instr)
=============================================================================
