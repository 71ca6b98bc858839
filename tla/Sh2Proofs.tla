------------------------------ MODULE Sh2Proofs -----------------------------
(***************************************************************************)
(* Theorems about Sh2Host, for every program, memory, budget and caller,   *)
(* and about Sh2Arith, for words of any width and numbers of any length.   *)
(* The last part proves that Sh2Host implements Sh2Isa.                    *)
(***************************************************************************)
EXTENDS Sh2Host, Sh2Arith, TLAPS, WellFoundedInduction

CoreFields ==
    {"pc", "r", "sys", "icache", "pending_mem_op", "pending_branch_target",
     "pending_exception_vector", "has_exception_return_context", "pending_new_pc",
     "pending_new_sr", "pending_rte_restore", "pending_trapa_imm"}

\* A record with the fields of a core; nothing is said of their values
IsCore(c) == c = [f \in CoreFields |-> c[f]]

\* The part of PendingWellFormed that speaks of the core alone, and the fact
\* that makes it inductive: no return starts before the last one is complete
CoreOK(c) ==
    /\ IsCore(c)
    /\ c.pending_mem_op.kind \in TrapaKinds => c.pending_trapa_imm # None
    /\ c.pending_mem_op.kind \in RteKinds => c.has_exception_return_context
    /\ c.pending_rte_restore => c.pending_branch_target = Some(c.pending_new_pc)
    /\ c.pending_mem_op.kind \in RteKinds => ~c.pending_rte_restore

\* d is c but for registers, the pending access and its immediate
Keeps(c, d) ==
    /\ IsCore(d)
    /\ d.pending_branch_target = c.pending_branch_target
    /\ d.pending_rte_restore = c.pending_rte_restore
    /\ d.pending_new_pc = c.pending_new_pc
    /\ d.has_exception_return_context = c.has_exception_return_context

\* ... with the same access and immediate
KeepsAccess(c, d) ==
    /\ Keeps(c, d)
    /\ d.pending_mem_op = c.pending_mem_op
    /\ d.pending_trapa_imm = c.pending_trapa_imm

IInv ==
    /\ CoreOK(core)
    /\ op.kind \in {"Read", "Write"} => Waiting(core)
    /\ fuel # Idle => op = NoBusOp

-----------------------------------------------------------------------------
(* Parts of an instruction *)

\* Advancing pc touches neither the pending access nor the pending branch
\* (pc_ += 2U in every branch of execute_instruction).
LEMMA AdvanceKeeps ==
    ASSUME NEW c, IsCore(c)
    PROVE  KeepsAccess(c, Advance(c))
BY DEF IsCore, CoreFields, Keeps, KeepsAccess, Advance

\* A push leaves an access of the given kind and no other trace than Rn.
LEMMA PushKeeps ==
    ASSUME NEW c, IsCore(c), NEW n, NEW kind, NEW value
    PROVE  /\ Keeps(c, PushTo(c, n, kind, value))
           /\ PushTo(c, n, kind, value).pending_mem_op.kind = kind
           /\ PushTo(c, n, kind, value).pending_trapa_imm = c.pending_trapa_imm
BY DEF IsCore, CoreFields, Keeps, PushTo, MemOp, Access

\* Waiting for an access changes nothing but the pending access.
LEMMA AwaitKeeps ==
    ASSUME NEW c, IsCore(c), NEW o
    PROVE  /\ Keeps(c, Await(c, o))
           /\ Await(c, o).pending_mem_op = o
           /\ Await(c, o).pending_trapa_imm = c.pending_trapa_imm
BY DEF IsCore, CoreFields, Keeps, Await

\* Popping a system register waits for a ReadLong.
LEMMA PopKeeps ==
    ASSUME NEW c, IsCore(c), NEW n, NEW s
    PROVE  /\ Keeps(c, PopFrom(c, n, s))
           /\ PopFrom(c, n, s).pending_mem_op.kind = "ReadLong"
           /\ PopFrom(c, n, s).pending_trapa_imm = c.pending_trapa_imm
<1> DEFINE o == [MemOp("ReadLong", to_phys(c.r[n]), 0) EXCEPT !.load_to = s, !.post_inc_reg = n]
<1>1. o.kind = "ReadLong"
  BY DEF MemOp, Access
<1>2. PopFrom(c, n, s) = Await(c, o)
  BY DEF PopFrom
<1> HIDE DEF o
<1> QED BY <1>1, <1>2, AwaitKeeps

\* Changes of registers keep everything that CoreOK speaks of.
LEMMA RegistersKeep ==
    ASSUME NEW c, IsCore(c), NEW v, NEW i
    PROVE  /\ KeepsAccess(c, [c EXCEPT !.r = v])
           /\ KeepsAccess(c, [c EXCEPT !.sys = v])
           /\ KeepsAccess(c, [c EXCEPT !.pc = v])
           /\ KeepsAccess(c, [c EXCEPT !.icache = v])
           /\ KeepsAccess(c, [c EXCEPT !.r[i] = v])
           /\ KeepsAccess(c, [c EXCEPT !.sys[i] = v])
BY DEF IsCore, CoreFields, Keeps, KeepsAccess

\* What an instruction does before the delay slot is settled: it keeps the
\* pending branch, and starts a trap with its immediate and a return with a
\* context (the branches of execute_instruction).
Started(c, d) ==
    /\ Keeps(c, d)
    /\ d.pending_mem_op.kind \in TrapaKinds => d.pending_trapa_imm # None
    /\ d.pending_mem_op.kind \in RteKinds => d.has_exception_return_context

\* Advancing pc does not undo what was started.
LEMMA AdvanceStarted ==
    ASSUME NEW c, NEW d, Started(c, d)
    PROVE  Started(c, Advance(d))
BY AdvanceKeeps DEF Started, Keeps, KeepsAccess

\* No instruction starts a trap without immediate or a return without context
\* (every branch of execute_instruction, sh2_core.cpp:144-617).
LEMMA EffectStarts ==
    ASSUME NEW c, NEW ins, Started(c, c)
    PROVE  Started(c, Effect(c, ins))
<1>1. IsCore(c)
  BY DEF Started, Keeps
<1>2. ASSUME NEW d, KeepsAccess(c, d)
      PROVE  Started(c, Advance(d))
  BY <1>1, <1>2, AdvanceStarted DEF Started, Keeps, KeepsAccess
<1>3. CASE ins.op \in AluOps
  <2> DEFINE d == [c EXCEPT !.r = AluRegs(ins, c.r, c.sys), !.sys = AluSys(ins, c.r, c.sys)]
  <2>1. KeepsAccess(c, d)
    BY <1>1 DEF IsCore, CoreFields, Keeps, KeepsAccess
  <2>2. Effect(c, ins) = Advance(d)
    BY <1>3 DEF Effect, AluOps, Comparisons, Shifts, Links
  <2> QED BY <1>2, <2>1, <2>2
<1>4. CASE ins.op = "STC" /\ ins.sys # "PR"
  <2>1. ins.op \notin AluOps /\ ~Links(ins)
    BY <1>4 DEF AluOps, Comparisons, Shifts, Links
  <2>2. Effect(c, ins) = Advance([c EXCEPT !.r[ins.n] = c.sys[ins.sys]])
    BY <1>4, <2>1 DEF Effect
  <2> QED BY <1>1, <1>2, <2>2, RegistersKeep
<1>5. CASE ins.op = "LDC" /\ ins.sys # "PR"
  <2>1. Effect(c, ins) = Advance([c EXCEPT !.sys[ins.sys] = c.r[ins.n]])
    BY <1>5 DEF Effect, AluOps, Comparisons, Shifts, Links
  <2> QED BY <1>1, <1>2, <2>1, RegistersKeep
<1>6. CASE ins.op = "PUSH" /\ ins.sys # "PR"
  <2> DEFINE d == PushTo(c, ins.n, "WriteLong", c.sys[ins.sys])
  <2>1. Effect(c, ins) = Advance(d)
    BY <1>6 DEF Effect, AluOps, Comparisons, Shifts, Links
  <2>2. Started(c, d)
    BY <1>1, PushKeeps DEF Started, TrapaKinds, RteKinds
  <2> HIDE DEF d
  <2> QED BY <2>1, <2>2, AdvanceStarted
<1>7. CASE ins.op = "POP"
  <2> DEFINE d == PopFrom(c, ins.n, ins.sys)
  <2>1. Effect(c, ins) = Advance(d)
    BY <1>7 DEF Effect, AluOps, Comparisons, Shifts, Links
  <2>2. Started(c, d)
    BY <1>1, PopKeeps DEF Started, TrapaKinds, RteKinds
  <2> HIDE DEF d
  <2> QED BY <2>1, <2>2, AdvanceStarted
<1>8. CASE ins.op = "MOVA"
  <2>1. Effect(c, ins) = Advance([c EXCEPT !.r[0] = u32_add(pc_base(c.pc, 4), ins.x)])
    BY <1>8 DEF Effect, AluOps, Comparisons, Shifts, Links
  <2> QED BY <1>1, <1>2, <2>1, RegistersKeep
<1>9. CASE ins.op \in {"BT", "BF"} /\ BranchTaken(ins, c.sys["SR"])
  <2> DEFINE t == Target(ins, c.pc, c.r, c.sys)
  <2>1. Effect(c, ins) = [c EXCEPT !.pc = t]
    BY <1>9 DEF Effect, AluOps, Comparisons, Shifts, Links
  <2> HIDE DEF t
  <2>2. KeepsAccess(c, Effect(c, ins))
    BY <1>1, <2>1 DEF IsCore, CoreFields, Keeps, KeepsAccess
  <2> QED BY <2>2 DEF Started, Keeps, KeepsAccess
<1>10. CASE Links(ins)
  <2>1. Effect(c, ins) = Advance([c EXCEPT !.sys["PR"] = u32_add(c.pc, 4)])
    BY <1>10 DEF Effect, AluOps, Comparisons, Shifts, Links
  <2> QED BY <1>1, <1>2, <2>1, RegistersKeep
<1>11. CASE ins.op = "RTE"
  <2>1. Effect(c, ins) = Advance(BeginReturn(c))
    BY <1>11 DEF Effect, AluOps, Comparisons, Shifts, Links
  <2>2. Started(c, BeginReturn(c))
    <3>1. CASE c.has_exception_return_context
      <4> DEFINE o == MemOp("RtePopPc", to_phys(c.r[15]), 0)
      <4>1. o.kind = "RtePopPc" /\ BeginReturn(c) = Await(c, o)
        BY <3>1 DEF MemOp, Access, BeginReturn
      <4> HIDE DEF o
      <4>2. Keeps(c, BeginReturn(c)) /\ BeginReturn(c).pending_mem_op.kind = "RtePopPc"
        BY <1>1, <4>1, AwaitKeeps
      <4>3. BeginReturn(c).pending_mem_op.kind \notin TrapaKinds
        BY <4>2 DEF TrapaKinds
      <4> QED BY <3>1, <4>2, <4>3, Zenon DEF Started, Keeps
    <3>2. CASE ~c.has_exception_return_context
      BY <3>2 DEF BeginReturn
    <3> QED BY <3>1, <3>2
  <2> QED BY <2>1, <2>2, AdvanceStarted
<1>12. CASE ins.op = "TRAPA"
  <2> DEFINE d == PushTo(c, 15, "TrapaPushSr", c.sys["SR"])
  <2>1. Effect(c, ins) = [d EXCEPT !.pending_trapa_imm = Some(ins.x)]
    BY <1>12 DEF Effect, AluOps, Comparisons, Shifts, Links, BeginTrap
  <2>2. Keeps(c, d) /\ d.pending_mem_op.kind = "TrapaPushSr"
    BY <1>1, PushKeeps
  <2> HIDE DEF d
  <2>3. Keeps(c, [d EXCEPT !.pending_trapa_imm = Some(ins.x)])
    BY <2>2 DEF Keeps, IsCore, CoreFields
  <2>4. /\ [d EXCEPT !.pending_trapa_imm = Some(ins.x)].pending_trapa_imm = <<ins.x>>
        /\ [d EXCEPT !.pending_trapa_imm = Some(ins.x)].pending_mem_op.kind = "TrapaPushSr"
    BY <2>2 DEF Keeps, IsCore, CoreFields, Some
  <2>5. <<ins.x>> # << >>
    OBVIOUS
  <2> QED BY <2>1, <2>3, <2>4, <2>5 DEF Started, None, TrapaKinds, RteKinds
<1>13. CASE /\ ins.op \notin AluOps \cup {"POP", "MOVA", "RTE", "TRAPA"}
            /\ ~(ins.op \in {"STC", "LDC", "PUSH"} /\ ins.sys # "PR")
            /\ ~(ins.op \in {"BT", "BF"} /\ BranchTaken(ins, c.sys["SR"]))
            /\ ~Links(ins)
  <2>1. Effect(c, ins) = Advance(c)
    BY <1>13 DEF Effect
  <2> QED BY <2>1, AdvanceStarted
<1> QED BY <1>3, <1>4, <1>5, <1>6, <1>7, <1>8, <1>9, <1>10, <1>11, <1>12, <1>13

-----------------------------------------------------------------------------
(* The functions of the core preserve CoreOK *)

\* Restoring SR clears the flag and keeps all else that CoreOK speaks of.
LEMMA RestoreSrClears ==
    ASSUME NEW c, IsCore(c)
    PROVE  /\ IsCore(RestoreSr(c))
           /\ ~RestoreSr(c).pending_rte_restore
           /\ RestoreSr(c).pending_mem_op = c.pending_mem_op
           /\ RestoreSr(c).pending_trapa_imm = c.pending_trapa_imm
           /\ RestoreSr(c).has_exception_return_context = c.has_exception_return_context
<1>1. CASE c.pending_rte_restore
  BY <1>1 DEF RestoreSr, IsCore, CoreFields
<1>2. CASE ~c.pending_rte_restore
  BY <1>2 DEF RestoreSr
<1> QED BY <1>1, <1>2

\* Executing an instruction, in a delay slot or not (execute_instruction).
LEMMA ExecuteOK ==
    ASSUME NEW c, NEW ins, CoreOK(c)
    PROVE  CoreOK(execute_instruction(c, ins))
<1> DEFINE e == [c EXCEPT !.pending_branch_target = None]
           done == Effect(e, ins)
           next == next_branch_target(c, ins)
<1>1. /\ Started(e, e)
      /\ e.pending_rte_restore = c.pending_rte_restore
  BY DEF CoreOK, Started, Keeps, IsCore, CoreFields
<1>2. Started(e, done)
  BY <1>1, EffectStarts
<1> HIDE DEF done, next, e
<1>3. CASE c.pending_branch_target = None
  <2>1. execute_instruction(c, ins) = [done EXCEPT !.pending_branch_target = next]
    BY <1>3 DEF execute_instruction, done, e, next
  <2>2. Some(c.pending_new_pc) # None
    BY DEF Some, None
  <2>3. ~c.pending_rte_restore
    BY <1>3, <2>2 DEF CoreOK
  <2>4. ~done.pending_rte_restore
    BY <1>1, <1>2, <2>3, Zenon DEF Started, Keeps
  <2> QED BY <1>2, <2>1, <2>4 DEF CoreOK, Started, Keeps, IsCore, CoreFields
<1>4. CASE c.pending_branch_target # None
  <2> DEFINE d == RestoreSr(done)
             t == value_of(c.pending_branch_target)
  <2>1. execute_instruction(c, ins) = [d EXCEPT !.pc = t]
    BY <1>4 DEF execute_instruction, done, e
  <2>2. IsCore(done)
    BY <1>2 DEF Started, Keeps
  <2>3. /\ IsCore(d)
        /\ ~d.pending_rte_restore
        /\ d.pending_mem_op.kind \in TrapaKinds => d.pending_trapa_imm # None
        /\ d.pending_mem_op.kind \in RteKinds => d.has_exception_return_context
    BY <1>2, <2>2, RestoreSrClears, Zenon DEF Started
  <2> HIDE DEF d, t
  <2> QED BY <2>1, <2>3 DEF CoreOK, IsCore, CoreFields
<1> QED BY <1>3, <1>4

\* A core that has started something from a good state is in a good state.
LEMMA StartedOK ==
    ASSUME NEW c, NEW d, CoreOK(c), Started(c, d),
           d.pending_mem_op.kind \in RteKinds => c.pending_mem_op.kind \in RteKinds
    PROVE  CoreOK(d)
BY Zenon DEF CoreOK, Started, Keeps

\* Entering an exception (produce_until_bus, sh2_core.cpp:645-654).
LEMMA TakeExceptionOK ==
    ASSUME NEW c, CoreOK(c)
    PROVE  CoreOK(take_exception(c)) /\ Waiting(take_exception(c))
<1> DEFINE d == [PushTo(c, 15, "ExceptionPushSr", c.sys["SR"]) EXCEPT
                    !.pending_mem_op.aux = value_of(c.pending_exception_vector)]
<1>1. Keeps(c, d) /\ d.pending_mem_op.kind = "ExceptionPushSr"
  BY DEF CoreOK, IsCore, CoreFields, Keeps, PushTo, MemOp, Access
<1>2. take_exception(c) = [d EXCEPT !.pending_exception_vector = None]
  BY DEF take_exception
<1> HIDE DEF d
<1>3. /\ Keeps(c, take_exception(c))
      /\ take_exception(c).pending_mem_op.kind = "ExceptionPushSr"
  BY <1>1, <1>2 DEF Keeps, IsCore, CoreFields
<1>4. Started(c, take_exception(c)) /\ take_exception(c).pending_mem_op.kind \notin RteKinds
  BY <1>3 DEF Started, TrapaKinds, RteKinds
<1> QED BY <1>3, <1>4, StartedOK DEF Waiting

\* A memory instruction of a cached line leaves an access that is neither a
\* trap nor a return (sh2_core.cpp:683-914).
LEMMA DecodeOK ==
    ASSUME NEW c, CoreOK(c), NEW ins, ins.op \in MemoryOps
    PROVE  CoreOK(decode_memory(c, ins)) /\ Waiting(decode_memory(c, ins))
<1> DEFINE d == decode_memory(c, ins)
           Plain == {"ReadByte", "ReadWord", "ReadLong", "WriteByte", "WriteWord", "WriteLong",
                     "RmwAndByteRead", "RmwXorByteRead", "RmwOrByteRead"}
<1>1. IsCore(c)
  BY DEF CoreOK
<1>2. Keeps(c, d) /\ d.pending_mem_op.kind \in Plain
  <2>1. CASE ins.op = "LOAD"
    <3> DEFINE o == [Access(ReadKind(ins.size), to_phys(Address(ins, ins.m, c.pc, c.r, c.sys)),
                            ins.size, 0) EXCEPT
                        !.dst_reg = ins.n,
                        !.post_inc_reg = IF ins.mode = "@R+" THEN ins.m ELSE NoReg]
    <3>1. o.kind \in Plain
      BY DEF Access, ReadKind
    <3>2. d = Await(c, o)
      BY <2>1 DEF decode_memory, RmwOps
    <3> HIDE DEF o, d, Plain
    <3> QED BY <1>1, <3>1, <3>2, AwaitKeeps
  <2>2. CASE ins.op = "STORE"
    <3> DEFINE e == IF ins.mode = "@-R" THEN [c EXCEPT !.r[ins.n] = u32_sub(@, ins.size)] ELSE c
               o == Access(StoreKind(ins.size),
                           to_phys(Address(ins, ins.n, c.pc, c.r, c.sys)), ins.size,
                           Truncated(e.r[ins.m], ins.size))
    <3>1. o.kind \in Plain
      BY DEF Access, StoreKind
    <3>2. KeepsAccess(c, e)
      <4>1. KeepsAccess(c, c)
        BY <1>1 DEF Keeps, KeepsAccess
      <4>2. KeepsAccess(c, [c EXCEPT !.r[ins.n] = u32_sub(@, ins.size)])
        BY <1>1, RegistersKeep
      <4> QED BY <4>1, <4>2
    <3>3. d = Await(e, o)
      BY <2>2 DEF decode_memory, RmwOps
    <3> HIDE DEF o, d, e, Plain
    <3>4. Keeps(e, d) /\ d.pending_mem_op.kind \in Plain
      BY <3>1, <3>2, <3>3, AwaitKeeps DEF KeepsAccess, Keeps
    <3> QED BY <3>2, <3>4 DEF Keeps, KeepsAccess
  <2>3. CASE ins.op = "PUSH"
    <3>1. d = PushTo(c, ins.n, "WriteLong", c.sys[ins.sys])
      BY <2>3 DEF decode_memory, RmwOps
    <3> HIDE DEF d
    <3> QED BY <1>1, <3>1, PushKeeps
  <2>4. CASE ins.op = "POP"
    <3>1. d = PopFrom(c, ins.n, ins.sys)
      BY <2>4 DEF decode_memory, RmwOps
    <3> HIDE DEF d
    <3> QED BY <1>1, <3>1, PopKeeps
  <2>5. CASE ins.op \in RmwOps
    <3> DEFINE o == [Access(RmwReads[ins.op], to_phys(u32_add(c.sys["GBR"], c.r[0])), 1, 0) EXCEPT
                        !.aux = ins.x]
    <3>1. o.kind \in Plain
      BY <2>5 DEF Access, RmwReads, RmwOps
    <3>2. d = Await(c, o)
      BY <2>5 DEF decode_memory, RmwOps
    <3> HIDE DEF o, d, Plain
    <3> QED BY <1>1, <3>1, <3>2, AwaitKeeps
  <2> QED BY <2>1, <2>2, <2>3, <2>4, <2>5 DEF MemoryOps
<1>3. Started(c, d) /\ d.pending_mem_op.kind \notin RteKinds
  BY <1>2 DEF Started, TrapaKinds, RteKinds
<1> QED BY <1>2, <1>3, StartedOK DEF Waiting

\* The end of a memory instruction, in a delay slot or not.
LEMMA RetireOK ==
    ASSUME NEW c, CoreOK(c)
    PROVE  CoreOK(Retire(c))
<1>1. IsCore(c)
  BY DEF CoreOK
<1>2. CASE c.pending_branch_target = None
  <2>1. Retire(c) = Advance(c)
    BY <1>2 DEF Retire
  <2>2. Started(c, Advance(c)) /\ Advance(c).pending_mem_op = c.pending_mem_op
    BY AdvanceStarted, AdvanceKeeps, <1>1 DEF CoreOK, Started, Keeps, KeepsAccess
  <2> QED BY <2>1, <2>2, StartedOK
<1>3. CASE c.pending_branch_target # None
  <2> DEFINE d == RestoreSr(c)
             t == value_of(c.pending_branch_target)
  <2>1. Retire(c) = [d EXCEPT !.pc = t, !.pending_branch_target = None]
    BY <1>3 DEF Retire
  <2>2. /\ IsCore(d)
        /\ ~d.pending_rte_restore
        /\ d.pending_mem_op.kind \in TrapaKinds => d.pending_trapa_imm # None
        /\ d.pending_mem_op.kind \in RteKinds => d.has_exception_return_context
    BY <1>1, RestoreSrClears, Zenon DEF CoreOK
  <2> HIDE DEF d, t
  <2> QED BY <2>1, <2>2 DEF CoreOK, IsCore, CoreFields
<1> QED BY <1>2, <1>3

\* The answer to a load or store reaches registers only.
LEMMA LoadedKeeps ==
    ASSUME NEW c, IsCore(c), NEW p, NEW value
    PROVE  KeepsAccess(c, PostIncrement(Loaded(c, p, value), p))
<1>1. KeepsAccess(c, c)
  BY DEF Keeps, KeepsAccess
<1>2. KeepsAccess(c, Loaded(c, p, value))
  <2> DEFINE Reads == {"ReadByte", "ReadWord", "ReadLong"}
             v == Extended(value, p.size)
  <2>1. CASE p.kind \notin Reads
    BY <1>1, <2>1 DEF Loaded
  <2>2. CASE p.kind = "ReadLong" /\ p.load_to # "R"
    <3>1. Loaded(c, p, value) = [c EXCEPT !.sys[p.load_to] = value]
      BY <2>2 DEF Loaded
    <3> QED BY <3>1 DEF IsCore, CoreFields, Keeps, KeepsAccess
  <2>3. CASE p.kind \in Reads /\ ~(p.kind = "ReadLong" /\ p.load_to # "R")
    <3>1. Loaded(c, p, value) = [c EXCEPT !.r[p.dst_reg] = v]
      BY <2>3 DEF Loaded
    <3> HIDE DEF v
    <3> QED BY <3>1 DEF IsCore, CoreFields, Keeps, KeepsAccess
  <2> QED BY <2>1, <2>2, <2>3
<1> DEFINE d == Loaded(c, p, value)
<1> HIDE DEF d
<1>3. IsCore(d) /\ KeepsAccess(c, d)
  BY <1>2 DEF d, Keeps, KeepsAccess
<1>4. CASE p.post_inc_reg \in Regs \ {p.dst_reg}
  <2>1. PostIncrement(d, p) = [d EXCEPT !.r[p.post_inc_reg] = u32_add(@, p.size)]
    BY <1>4 DEF PostIncrement
  <2>2. KeepsAccess(d, PostIncrement(d, p))
    BY <1>3, <2>1 DEF IsCore, CoreFields, Keeps, KeepsAccess
  <2> QED BY <1>3, <2>2 DEF d, Keeps, KeepsAccess
<1>5. CASE p.post_inc_reg \notin Regs \ {p.dst_reg}
  BY <1>3, <1>5 DEF PostIncrement, d
<1> QED BY <1>4, <1>5

\* The answer to any pending access (apply_ifetch_and_step, sh2_core.cpp:937-1069).
LEMMA ApplyPendingOK ==
    ASSUME NEW before, CoreOK(before), NEW value
    PROVE  CoreOK(apply_pending(before, value))
<1> DEFINE p == before.pending_mem_op
           c == [before EXCEPT !.pending_mem_op = NoOp]
           d == apply_pending(before, value)
           Rmw == {RmwReads[o] : o \in RmwOps}
<1>1. /\ IsCore(c)
      /\ c.pending_mem_op.kind = "None"
      /\ c.pending_trapa_imm = before.pending_trapa_imm
      /\ c.pending_branch_target = before.pending_branch_target
      /\ c.pending_rte_restore = before.pending_rte_restore
      /\ c.pending_new_pc = before.pending_new_pc
      /\ c.has_exception_return_context = before.has_exception_return_context
  BY DEF CoreOK, IsCore, CoreFields, NoOp, MemOp, Access
<1>2. CoreOK(c)
  <2>1. c.pending_mem_op.kind \notin TrapaKinds \cup RteKinds
    BY <1>1 DEF TrapaKinds, RteKinds
  <2> HIDE DEF c
  <2> QED BY <1>1, <2>1, Zenon DEF CoreOK
<1>3. Rmw = {"RmwAndByteRead", "RmwXorByteRead", "RmwOrByteRead"}
  BY DEF RmwReads, RmwOps
<1>4. CASE p.kind = "ExceptionPushSr"
  <2>1. d = [PushTo(c, 15, "ExceptionPushPc", c.pc) EXCEPT !.pending_mem_op.aux = p.aux]
    BY <1>3, <1>4 DEF apply_pending
  <2> HIDE DEF c, d
  <2>2. Keeps(c, d) /\ d.pending_mem_op.kind = "ExceptionPushPc"
    BY <1>1, <2>1 DEF IsCore, CoreFields, Keeps, PushTo, MemOp, Access
  <2>3. Started(c, d) /\ d.pending_mem_op.kind \notin RteKinds
    BY <2>2 DEF Started, TrapaKinds, RteKinds
  <2> QED BY <1>2, <2>3, StartedOK DEF d
<1>5. CASE p.kind = "ExceptionPushPc"
  <2> DEFINE o == MemOp("ExceptionVectorRead", to_phys(u32_add(c.sys["VBR"], 4 * p.aux)), 0)
  <2>1. o.kind = "ExceptionVectorRead"
    BY DEF MemOp, Access
  <2>2. d = Await(c, o)
    BY <1>3, <1>5 DEF apply_pending, ReadVector
  <2> HIDE DEF c, d, o
  <2>3. Started(c, d) /\ d.pending_mem_op.kind \notin RteKinds
    BY <1>1, <2>1, <2>2, AwaitKeeps DEF Started, TrapaKinds, RteKinds
  <2> QED BY <1>2, <2>3, StartedOK DEF d
<1>6. CASE p.kind = "ExceptionVectorRead"
  <2>1. d = [c EXCEPT !.pc = value, !.has_exception_return_context = TRUE]
    BY <1>3, <1>6 DEF apply_pending, EnterHandler
  <2> HIDE DEF c, d
  <2> QED BY <1>1, <1>2, <2>1 DEF CoreOK, IsCore, CoreFields, TrapaKinds, RteKinds, d
<1>7. CASE p.kind = "TrapaPushSr"
  <2>1. d = PushTo(c, 15, "TrapaPushPc", u32_add(c.pc, 2))
    BY <1>3, <1>7 DEF apply_pending
  <2>2. c.pending_trapa_imm # None
    BY <1>1, <1>7 DEF CoreOK, TrapaKinds
  <2> HIDE DEF c, d
  <2>3. Started(c, d) /\ d.pending_mem_op.kind \notin RteKinds
    BY <1>1, <2>1, <2>2, PushKeeps DEF Started, TrapaKinds, RteKinds
  <2> QED BY <1>2, <2>3, StartedOK DEF d
<1>8. CASE p.kind = "TrapaPushPc"
  <2> DEFINE o == MemOp("TrapaVectorRead",
                        to_phys(u32_add(c.sys["VBR"], 4 * value_of(c.pending_trapa_imm))), 0)
  <2>1. o.kind = "TrapaVectorRead"
    BY DEF MemOp, Access
  <2>2. d = Await(c, o)
    BY <1>3, <1>8 DEF apply_pending, ReadVector
  <2>3. c.pending_trapa_imm # None
    BY <1>1, <1>8 DEF CoreOK, TrapaKinds
  <2> HIDE DEF c, d, o
  <2>4. Started(c, d) /\ d.pending_mem_op.kind \notin RteKinds
    BY <1>1, <2>1, <2>2, <2>3, AwaitKeeps DEF Started, TrapaKinds, RteKinds
  <2> QED BY <1>2, <2>4, StartedOK DEF d
<1>9. CASE p.kind = "TrapaVectorRead"
  <2>1. d = [[c EXCEPT !.pc = value, !.has_exception_return_context = TRUE] EXCEPT
                !.pending_trapa_imm = None]
    BY <1>3, <1>9 DEF apply_pending, EnterHandler
  <2> HIDE DEF c, d
  <2> QED BY <1>1, <1>2, <2>1 DEF CoreOK, IsCore, CoreFields, TrapaKinds, RteKinds, d
<1>10. CASE p.kind = "RtePopPc"
  <2> DEFINE e == [c EXCEPT !.pending_new_pc = value, !.r[15] = u32_add(@, 4)]
             o == MemOp("RtePopSr", to_phys(e.r[15]), 0)
  <2>1. o.kind = "RtePopSr"
    BY DEF MemOp, Access
  <2>2. d = Await(e, o)
    BY <1>3, <1>10 DEF apply_pending
  <2>3. /\ IsCore(e)
        /\ e.pending_rte_restore = c.pending_rte_restore
        /\ e.has_exception_return_context = c.has_exception_return_context
    BY <1>1 DEF IsCore, CoreFields
  <2>4. before.has_exception_return_context /\ ~before.pending_rte_restore
    BY <1>10 DEF CoreOK, RteKinds
  <2>5. e.has_exception_return_context /\ ~e.pending_rte_restore
    BY <1>1, <2>3, <2>4, Zenon
  <2> HIDE DEF c, d, e, o
  <2>6. Keeps(e, d) /\ d.pending_mem_op.kind = "RtePopSr"
    BY <2>1, <2>2, <2>3, AwaitKeeps
  <2>7. d.has_exception_return_context /\ ~d.pending_rte_restore
    BY <2>5, <2>6, Zenon DEF Keeps
  <2>8. d.pending_mem_op.kind \notin TrapaKinds
    BY <2>6 DEF TrapaKinds
  <2>9. CoreOK(d)
    BY <2>6, <2>7, <2>8, Zenon DEF CoreOK, Keeps
  <2> QED BY <2>9 DEF d
<1>11. CASE p.kind = "RtePopSr"
  <2>1. d = [c EXCEPT !.pending_new_sr = value, !.r[15] = u32_add(@, 4),
                      !.pending_rte_restore = TRUE,
                      !.pending_branch_target = Some(c.pending_new_pc),
                      !.has_exception_return_context = FALSE]
    BY <1>3, <1>11 DEF apply_pending
  <2> HIDE DEF c, d
  <2>2. /\ IsCore(d)
        /\ d.pending_mem_op.kind = "None"
        /\ d.pending_branch_target = Some(d.pending_new_pc)
    BY <1>1, <2>1 DEF IsCore, CoreFields
  <2>3. d.pending_mem_op.kind \notin TrapaKinds \cup RteKinds
    BY <2>2 DEF TrapaKinds, RteKinds
  <2>4. CoreOK(d)
    BY <2>2, <2>3, Zenon DEF CoreOK
  <2> QED BY <2>4 DEF d
<1>12. CASE p.kind \in Rmw
  <2> DEFINE o == Access("RmwWriteByte", p.phys_addr, 1,
                         RmwResult(RmwOp(p.kind), Truncated(value, 1), p.aux))
  <2>1. o.kind = "RmwWriteByte"
    BY DEF Access
  <2>2. d = Await(c, o)
    BY <1>3, <1>12 DEF apply_pending
  <2> HIDE DEF c, d, o
  <2>3. Started(c, d) /\ d.pending_mem_op.kind \notin RteKinds
    BY <1>1, <2>1, <2>2, AwaitKeeps DEF Started, TrapaKinds, RteKinds
  <2> QED BY <1>2, <2>3, StartedOK DEF d
<1>13. CASE /\ p.kind \notin TrapaKinds \cup RteKinds \cup Rmw
            /\ p.kind \notin {"ExceptionPushSr", "ExceptionPushPc", "ExceptionVectorRead"}
  <2> DEFINE e == PostIncrement(Loaded(c, p, value), p)
  <2>1. d = Retire(e)
    BY <1>13 DEF apply_pending, TrapaKinds, RteKinds
  <2>2. KeepsAccess(c, e)
    BY <1>1, LoadedKeeps
  <2> HIDE DEF c, d, e
  <2>3. Started(c, e) /\ e.pending_mem_op = c.pending_mem_op
    BY <1>2, <2>2, Zenon DEF CoreOK, Started, Keeps, KeepsAccess
  <2> QED BY <1>2, <2>1, <2>3, StartedOK, RetireOK DEF d
<1> QED BY <1>4, <1>5, <1>6, <1>7, <1>8, <1>9, <1>10, <1>11, <1>12, <1>13 DEF TrapaKinds, RteKinds

\* A fetch fills the line and executes, or is taken for the answer to the
\* access that is pending (apply_ifetch_and_step, sh2_core.cpp:934-1082).
LEMMA ApplyFetchOK ==
    ASSUME NEW c, CoreOK(c), NEW o, NEW ins
    PROVE  CoreOK(apply_fetch(c, o, ins))
<1>1. CASE Waiting(c)
  BY <1>1, ApplyPendingOK DEF apply_fetch
<1>2. CASE ~Waiting(c)
  <2> DEFINE d == IF o.fill THEN fill_line(c) ELSE c
  <2>1. KeepsAccess(c, fill_line(c)) /\ KeepsAccess(c, c)
    <3> DEFINE lines == {l \in c.icache : l % CacheLines # Line(c.pc) % CacheLines}
                          \cup {Line(c.pc)}
    <3>1. fill_line(c) = [c EXCEPT !.icache = lines]
      BY DEF fill_line
    <3> HIDE DEF lines
    <3>2. IsCore(c)
      BY DEF CoreOK
    <3>3. KeepsAccess(c, fill_line(c))
      BY <3>1, <3>2 DEF IsCore, CoreFields, Keeps, KeepsAccess
    <3> QED BY <3>2, <3>3, Zenon DEF Keeps, KeepsAccess
  <2>2. KeepsAccess(c, d)
    BY <2>1
  <2>3. apply_fetch(c, o, ins) = execute_instruction(d, ins)
    BY <1>2 DEF apply_fetch
  <2> HIDE DEF d
  <2>4. CoreOK(d)
    BY <2>2, Zenon DEF CoreOK, Keeps, KeepsAccess
  <2>5. ~Waiting(d)
    BY <1>2, <2>2 DEF Waiting, KeepsAccess
  <2> QED BY <2>3, <2>4, <2>5, ExecuteOK
<1> QED BY <1>1, <1>2

\* A request reaches the vector alone (request_exception_vector, sh2_core.cpp:1095).
LEMMA RequestOK ==
    ASSUME NEW c, CoreOK(c), NEW v
    PROVE  /\ CoreOK(request_exception_vector(c, v))
           /\ request_exception_vector(c, v).pending_mem_op = c.pending_mem_op
<1> DEFINE d == request_exception_vector(c, v)
<1>1. KeepsAccess(c, d)
  BY DEF CoreOK, IsCore, CoreFields, Keeps, KeepsAccess, request_exception_vector
<1> HIDE DEF d
<1>2. CoreOK(d) /\ d.pending_mem_op = c.pending_mem_op
  BY <1>1, Zenon DEF CoreOK, Keeps, KeepsAccess
<1> QED BY <1>2 DEF d

-----------------------------------------------------------------------------
(* The invariant of the host *)

\* A core that was just reset waits for nothing (SH2Core::reset).
LEMMA InitIInv == Init => IInv
<1> SUFFICES ASSUME Init PROVE IInv
  OBVIOUS
<1>1. /\ IsCore(core)
      /\ core.pending_mem_op.kind = "None"
      /\ core.pending_rte_restore = FALSE
  BY DEF Init, reset, IsCore, CoreFields, NoOp, MemOp, Access
<1>2. core.pending_mem_op.kind \notin TrapaKinds \cup RteKinds
  BY <1>1 DEF TrapaKinds, RteKinds
<1>3. CoreOK(core)
  BY <1>1, <1>2, Zenon DEF CoreOK
<1>4. op = NoBusOp /\ op.kind = "None"
  BY DEF Init, NoBusOp
<1> QED BY <1>3, <1>4 DEF IInv

\* Every step keeps the invariant: inside produce_until_bus nothing is on the
\* bus, so no access is replaced while its answer is on the way.
LEMMA NextIInv == IInv /\ [Next]_vars => IInv'
<1> SUFFICES ASSUME IInv, [Next]_vars PROVE IInv'
  OBVIOUS
<1>1. CoreOK(core)
  BY DEF IInv
<1>2. NoBusOp.kind = "None"
  BY DEF NoBusOp
<1>3. CASE TakeException
  BY <1>1, <1>3, TakeExceptionOK DEF TakeException, MayProduce, IInv
<1>4. CASE IssuePending
  BY <1>1, <1>4 DEF IssuePending, MayProduce, IInv
<1>5. CASE StartRun
  BY <1>1, <1>2, <1>5 DEF StartRun, MayProduce, IInv
<1>6. CASE RunHit
  <2>1. op = NoBusOp /\ op' = op
    BY <1>6 DEF RunHit, Running, Idle, IInv
  <2> QED BY <1>1, <1>2, <1>6, <2>1, ExecuteOK DEF RunHit, IInv
<1>7. CASE RunMemory
  BY <1>1, <1>7, DecodeOK DEF RunMemory, IInv
<1>8. CASE RunFetch
  BY <1>1, <1>8 DEF RunFetch, fetch_op, IInv
<1>9. CASE RunEnd
  BY <1>1, <1>9 DEF RunEnd, IInv, Waiting
<1>10. CASE DataResponse
  BY <1>1, <1>2, <1>10, ApplyPendingOK DEF DataResponse, IInv
<1>11. CASE FetchResponse
  <2>1. core' = apply_fetch(core, op, InstrAt(setup.program, op.addr)) /\ op' = NoBusOp
    BY <1>11 DEF FetchResponse
  <2> QED BY <1>1, <1>2, <2>1, ApplyFetchOK DEF IInv
<1>12. ASSUME NEW v \in Vectors, Request(v) PROVE IInv'
  BY <1>1, <1>12, RequestOK DEF Request, IInv, Waiting
<1>13. CASE UNCHANGED vars
  BY <1>1, <1>13 DEF vars, IInv, Waiting
<1> QED
  BY <1>3, <1>4, <1>5, <1>6, <1>7, <1>8, <1>9, <1>10, <1>11, <1>12, <1>13 DEF Next

\* Whatever the program, the memory, the budget and the caller, the optional
\* members of SH2Core are set when the pending access uses them: TRAPA reads its
\* vector with an immediate, RTE pops with a return context, SR is restored
\* behind the delay slot of the popped address, and every data access on the bus
\* finds the core waiting (produce_until_bus and apply_ifetch_and_step).
THEOREM PendingAlwaysWellFormed == Spec => []PendingWellFormed
<1>1. IInv => PendingWellFormed
  BY Zenon DEF IInv, CoreOK, PendingWellFormed
<1> QED BY <1>1, InitIInv, NextIInv, PTL DEF Spec

-----------------------------------------------------------------------------
(* Words and integers *)

\* Half of the words
Half == WordMod \div 2

\* The most significant bit tells the upper half of the words.
LEMMA WordFacts ==
    /\ Half \in Nat \ {0} /\ WordMod = 2 * Half /\ WordMod \in Nat \ {0}
    /\ \A w \in Word : /\ w \in Nat /\ w < WordMod
                       /\ msb(w) = (IF w < Half THEN 0 ELSE 1)
                       /\ signed(w) = (IF w < Half THEN w ELSE w - WordMod)
<1>1. PICK h \in Nat \ {0} : WordMod = 2 * h
  BY PowerAssumption DEF WordMod
<1>2. Half = h
  BY <1>1 DEF Half
<1>3. ASSUME NEW w \in Word
      PROVE  /\ w \in Nat /\ w < WordMod
             /\ msb(w) = (IF w < Half THEN 0 ELSE 1)
             /\ signed(w) = (IF w < Half THEN w ELSE w - WordMod)
  <2>1. w \in Nat /\ w < WordMod
    BY <1>1 DEF Word
  <2>2. msb(w) = w \div h
    BY <1>2 DEF msb, Half
  <2>3. CASE w < h
    <3>1. w \div h = 0
      BY <2>1, <2>3
    <3> QED
      BY <1>1, <1>2, <2>1, <2>2, <2>3, <3>1 DEF signed
  <2>4. CASE ~(w < h)
    <3>1. w \div h = 1
      BY <1>1, <2>1, <2>4
    <3> QED
      BY <1>1, <1>2, <2>1, <2>2, <2>4, <3>1 DEF signed
  <2> QED
    BY <2>3, <2>4
<1> QED
  BY <1>1, <1>2, <1>3

\* A sum or a difference of two words wraps at most once.
LEMMA WrapFacts ==
    ASSUME NEW s \in Int
    PROVE  /\ s % WordMod \in Word
           /\ 0 <= s /\ s < WordMod => s % WordMod = s
           /\ WordMod <= s /\ s < 2 * WordMod => s % WordMod = s - WordMod
           /\ 0 - WordMod <= s /\ s < 0 => s % WordMod = s + WordMod
<1>1. PICK w \in Nat \ {0} : w = WordMod
  BY WordFacts
<1>2. s % w \in 0..(w - 1)
  OBVIOUS
<1>3. 0 <= s /\ s < w => s % w = s
  OBVIOUS
<1>4. w <= s /\ s < 2 * w => s % w = s - w
  OBVIOUS
<1>5. 0 - w <= s /\ s < 0 => s % w = s + w
  OBVIOUS
<1> QED
  BY <1>1, <1>2, <1>3, <1>4, <1>5 DEF Word

\* The remainder is unique.
LEMMA UniqueRemainder ==
    ASSUME NEW M \in Nat \ {0}, NEW e \in Int, NEW z \in Int, 0 <= z, z < M
    PROVE  (M * e + z) % M = z
<1>1. PICK y \in Int : y = M * e + z
  OBVIOUS
<1>2. PICK d \in Int : d = y \div M
  OBVIOUS
<1>3. PICK r \in Int : r = y % M
  OBVIOUS
<1>4. y = M * d + r /\ 0 <= r /\ r < M
  BY <1>2, <1>3
<1>5. PICK k \in Int : k = d - e
  OBVIOUS
<1>6. M * k = M * d - M * e
  BY <1>5
<1>7. M * k = z - r
  BY <1>1, <1>4, <1>6
<1>8. k > 0 => M * k >= M
  OBVIOUS
<1>9. k < 0 => M * k <= 0 - M
  OBVIOUS
<1>10. k = 0
  BY <1>4, <1>7, <1>8, <1>9
<1>11. M * k = 0
  BY <1>10
<1> QED
  BY <1>1, <1>3, <1>4, <1>7, <1>11

\* MACH:MACL holds a product modulo the square of the word size.
LEMMA DoubleWord ==
    ASSUME NEW y \in Int
    PROVE  /\ (y \div WordMod) \in Int
           /\ ((y \div WordMod) % WordMod) * WordMod + (y % WordMod) = y % (WordMod * WordMod)
<1>1. PICK w \in Nat \ {0} : w = WordMod
  BY WordFacts
<1>2. PICK d \in Int : d = y \div w
  OBVIOUS
<1>3. PICK r \in Int : r = y % w
  OBVIOUS
<1>4. PICK e \in Int : e = d \div w
  OBVIOUS
<1>5. PICK f \in Int : f = d % w
  OBVIOUS
<1>6. y = w * d + r /\ 0 <= r /\ r < w
  BY <1>2, <1>3
<1>7. d = w * e + f /\ 0 <= f /\ f < w
  BY <1>4, <1>5
<1>8. w * d = (w * w) * e + w * f
  BY <1>7
<1>9. 0 <= w * f /\ w * f <= w * w - w
  <2>1. w * f <= w * (w - 1)
    BY <1>7
  <2> QED
    BY <1>7, <2>1
<1>10. PICK M \in Nat \ {0} : M = w * w
  OBVIOUS
<1>11. PICK z \in Int : z = f * w + r
  OBVIOUS
<1>12. z = w * f + r
  BY <1>11
<1>13. 0 <= z /\ z < M
  BY <1>6, <1>9, <1>10, <1>12
<1>14. y = M * e + z
  BY <1>6, <1>8, <1>10, <1>12
<1>15. y % M = z
  BY <1>13, <1>14, UniqueRemainder
<1> QED
  BY <1>1, <1>2, <1>3, <1>5, <1>10, <1>11, <1>15

\* Small products are exact.
LEMMA SmallProduct ==
    ASSUME NEW n \in Word, NEW m \in Word
    PROVE  (n * m) % (WordMod * WordMod) = n * m
<1>1. PICK w \in Nat \ {0} : w = WordMod
  BY WordFacts
<1>2. n \in Nat /\ n < w /\ m \in Nat /\ m < w
  BY <1>1, WordFacts
<1>3. n * m <= n * w /\ n * w <= (w - 1) * w /\ n * m >= 0
  BY <1>2
<1>4. PICK M \in Nat \ {0} : M = w * w
  OBVIOUS
<1>5. PICK y \in Int : y = n * m
  BY <1>2
<1>6. y < M /\ 0 <= y
  BY <1>2, <1>3, <1>4, <1>5
<1>7. y % M = y
  BY <1>6
<1> QED
  BY <1>1, <1>4, <1>5, <1>7

-----------------------------------------------------------------------------
(* Instructions *)

\* The fields that an instruction sets, and those it leaves alone.
LEMMA FieldFacts ==
    ASSUME NEW o \in Operands, NEW v, NEW c
    PROVE  /\ SetT(o, c) = [o EXCEPT !.T = truth(c)] /\ SetT(o, c).T = truth(c)
           /\ SetT(o, c).n = o.n
           /\ SetT(SetN(o, v), c).n = v /\ SetT(SetN(o, v), c).T = truth(c)
           /\ Product(o, v).MACH = (v \div WordMod) % WordMod
           /\ Product(o, v).MACL = v % WordMod
  BY DEF Operands, SetT, SetN, Product

\* Which instruction each name stands for.
LEMMA AluFacts ==
    ASSUME NEW o
    PROVE  /\ Alu("ADDC", o) = ADDC(o) /\ Alu("SUBC", o) = SUBC(o) /\ Alu("NEGC", o) = NEGC(o)
           /\ Alu("ADDV", o) = ADDV(o) /\ Alu("SUBV", o) = SUBV(o)
           /\ Alu("DMULU.L", o) = Product(o, o.n * o.m)
           /\ Alu("DMULS.L", o) = Product(o, signed(o.n) * signed(o.m))
           /\ Alu("SHAR", o) = SetT(SetN(o, sar(o.n, 1)), o.n % 2 = 1)
           /\ Alu("ROTCL", o) = SetT(SetN(o, shl(o.n, 1) + o.T), msb(o.n) = 1)
           /\ Alu("ROTCR", o) = SetT(SetN(o, shr(o.n, 1) + o.T * (WordMod \div 2)), o.n % 2 = 1)
<1> USE DEF Alu, Compare, Comparisons, Shift, Shifts
<1>1. Alu("ADDC", o) = ADDC(o) /\ Alu("SUBC", o) = SUBC(o) /\ Alu("NEGC", o) = NEGC(o)
  OBVIOUS
<1>2. Alu("ADDV", o) = ADDV(o) /\ Alu("SUBV", o) = SUBV(o)
  OBVIOUS
<1>3. /\ Alu("DMULU.L", o) = Product(o, o.n * o.m)
      /\ Alu("DMULS.L", o) = Product(o, signed(o.n) * signed(o.m))
  OBVIOUS
<1>4. Alu("SHAR", o) = SetT(SetN(o, sar(o.n, 1)), o.n % 2 = 1)
  OBVIOUS
<1>5. Alu("ROTCL", o) = SetT(SetN(o, shl(o.n, 1) + o.T), msb(o.n) = 1)
  OBVIOUS
<1>6. Alu("ROTCR", o) = SetT(SetN(o, shr(o.n, 1) + o.T * (WordMod \div 2)), o.n % 2 = 1)
  OBVIOUS
<1> QED
  BY <1>1, <1>2, <1>3, <1>4, <1>5, <1>6

\* The comparisons set T and nothing else.
LEMMA CompareFacts ==
    ASSUME NEW o
    PROVE  /\ Alu("CMP/GE", o) = [o EXCEPT !.T = truth(signed(o.n) >= signed(o.m))]
           /\ Alu("CMP/GT", o) = [o EXCEPT !.T = truth(signed(o.n) > signed(o.m))]
           /\ Alu("CMP/PL", o) = [o EXCEPT !.T = truth(signed(o.n) > 0)]
           /\ Alu("CMP/PZ", o) = [o EXCEPT !.T = truth(signed(o.n) >= 0)]
<1> USE DEF Alu, Compare, Comparisons, Shift, Shifts
<1>1. Alu("CMP/GE", o) = SetT(o, signed(o.n) >= signed(o.m))
  OBVIOUS
<1>2. Alu("CMP/GT", o) = SetT(o, signed(o.n) > signed(o.m))
  OBVIOUS
<1>3. Alu("CMP/PL", o) = SetT(o, signed(o.n) > 0)
  OBVIOUS
<1>4. Alu("CMP/PZ", o) = SetT(o, signed(o.n) >= 0)
  OBVIOUS
<1> QED
  BY <1>1, <1>2, <1>3, <1>4, Zenon DEF SetT

\* The flags and results of the signed instructions.
LEMMA SignedFacts ==
    ASSUME NEW o \in Operands, NEW p, p = signed(o.n), NEW q, q = signed(o.m)
    PROVE  /\ p \in (0 - Half)..(Half - 1) /\ q \in (0 - Half)..(Half - 1)
           /\ ADDV(o).T = 1 <=> p + q \notin (0 - Half)..(Half - 1)
           /\ SUBV(o).T = 1 <=> p - q \notin (0 - Half)..(Half - 1)
<1>1. o.n \in Word /\ o.m \in Word
  BY DEF Operands
<1>2. PICK h \in Nat \ {0} : h = Half /\ WordMod = 2 * h
  BY WordFacts
<1>3. PICK n \in Nat : n = o.n
  BY <1>1, WordFacts
<1>4. PICK m \in Nat : m = o.m
  BY <1>1, WordFacts
<1>5. /\ n < 2 * h /\ p = (IF n < h THEN n ELSE n - 2 * h) /\ msb(n) = (IF n < h THEN 0 ELSE 1)
      /\ m < 2 * h /\ q = (IF m < h THEN m ELSE m - 2 * h) /\ msb(m) = (IF m < h THEN 0 ELSE 1)
  BY <1>1, <1>2, <1>3, <1>4, WordFacts
<1>6. p \in (0 - h)..(h - 1) /\ q \in (0 - h)..(h - 1)
  BY <1>5
<1>7. ADDV(o).T = 1 <=> p + q \notin (0 - h)..(h - 1)
  <2>0. PICK t \in Int : t = n + m
    OBVIOUS
  <2>1. PICK s : s = u32_add(n, m)
    OBVIOUS
  <2>2. s \in Word /\ s = (IF n + m < 2 * h THEN n + m ELSE n + m - 2 * h)
    <3>1. /\ t % WordMod \in Word
          /\ 0 <= t /\ t < WordMod => t % WordMod = t
          /\ WordMod <= t /\ t < 2 * WordMod => t % WordMod = t - WordMod
      BY WrapFacts
    <3>2. s = t % WordMod
      BY <2>0, <2>1 DEF u32_add
    <3> QED
      BY <1>2, <1>5, <2>0, <3>1, <3>2
  <2>3. msb(s) = (IF s < h THEN 0 ELSE 1)
    BY <1>2, <2>2, WordFacts
  <2>4. ADDV(o).T = 1 <=> msb(n) = msb(m) /\ msb(n) # msb(s)
    BY <1>3, <1>4, <2>1 DEF ADDV, add_overflow, SetT, SetN, truth, Operands
  <2> QED
    BY <1>5, <2>2, <2>3, <2>4
<1>8. SUBV(o).T = 1 <=> p - q \notin (0 - h)..(h - 1)
  <2>0. PICK t \in Int : t = n - m
    OBVIOUS
  <2>1. PICK s : s = u32_sub(n, m)
    OBVIOUS
  <2>2. s \in Word /\ s = (IF n - m < 0 THEN n - m + 2 * h ELSE n - m)
    <3>1. /\ t % WordMod \in Word
          /\ 0 <= t /\ t < WordMod => t % WordMod = t
          /\ 0 - WordMod <= t /\ t < 0 => t % WordMod = t + WordMod
      BY WrapFacts
    <3>2. s = t % WordMod
      BY <2>0, <2>1 DEF u32_sub
    <3> QED
      BY <1>2, <1>5, <2>0, <3>1, <3>2
  <2>3. msb(s) = (IF s < h THEN 0 ELSE 1)
    BY <1>2, <2>2, WordFacts
  <2>4. SUBV(o).T = 1 <=> msb(n) # msb(m) /\ msb(n) # msb(s)
    BY <1>3, <1>4, <2>1 DEF SUBV, sub_overflow, SetT, SetN, truth, Operands
  <2> QED
    BY <1>5, <2>2, <2>3, <2>4
<1> QED
  BY <1>2, <1>6, <1>7, <1>8

\* SHAR halves, and T is the remainder.
LEMMA ShiftFacts ==
    ASSUME NEW o \in Operands
    PROVE  2 * signed(Alu("SHAR", o).n) + Alu("SHAR", o).T = signed(o.n)
<1>1. o.n \in Word
  BY DEF Operands
<1>2. PICK h \in Nat \ {0} : h = Half /\ WordMod = 2 * h
  BY WordFacts
<1>3. PICK n \in Nat : n = o.n
  BY <1>1, WordFacts
<1>4. PICK p \in Int : p = signed(n)
  BY <1>1, <1>3, WordFacts
<1>5. n < 2 * h /\ p = (IF n < h THEN n ELSE n - 2 * h)
  BY <1>1, <1>2, <1>3, <1>4, WordFacts
<1>6. PICK d \in Int : d = p \div 2
  OBVIOUS
<1>7. p = 2 * d + (p % 2) /\ (p % 2 = 0 \/ p % 2 = 1) /\ 0 - h <= d /\ d < h
  BY <1>5, <1>6
<1>8. sar(n, 1) = d % WordMod
  <2>1. 2 ^ 1 = 2
    OBVIOUS
  <2> QED
    BY <1>4, <1>6, <2>1 DEF sar
<1>9. PICK s : s = sar(n, 1)
  OBVIOUS
<1>10. s \in Word /\ s = (IF d < 0 THEN d + 2 * h ELSE d)
  <2>1. /\ d % WordMod \in Word
        /\ 0 <= d /\ d < WordMod => d % WordMod = d
        /\ 0 - WordMod <= d /\ d < 0 => d % WordMod = d + WordMod
    BY WrapFacts
  <2> QED
    BY <1>2, <1>7, <1>8, <1>9, <2>1
<1>11. signed(s) = d
  BY <1>2, <1>7, <1>10, WordFacts
<1>12. n % 2 = p % 2
  BY <1>5
<1>13. Alu("SHAR", o).n = s /\ Alu("SHAR", o).T = truth(n % 2 = 1)
  BY <1>3, <1>9, AluFacts, FieldFacts
<1>14. Alu("SHAR", o).T = p % 2
  BY <1>7, <1>12, <1>13 DEF truth
<1> QED
  BY <1>3, <1>4, <1>7, <1>11, <1>13, <1>14

\* The state of a chain
ChainTypeOK ==
    /\ job \in Jobs
    /\ lhs \in Number /\ rhs \in Number /\ result \in Number
    /\ carry_in \in Bit
    /\ alu \in Operands
    /\ left \in 0..Limbs

\* The signed instructions on the first limbs are those of the integers.
LEMMA IntegersFromType ==
    ASSUME ChainTypeOK
    PROVE  AgreesWithIntegers
<1>1. PICK n : n = lhs[1]
  OBVIOUS
<1>2. PICK m : m = rhs[1]
  OBVIOUS
<1>3. n \in Word /\ m \in Word
  <2>1. 1 \in 1..Limbs
    BY LimbsAssumption
  <2> QED
    BY <1>1, <1>2, <2>1 DEF ChainTypeOK, Number
<1>4. PICK o : o = [alu EXCEPT !.n = lhs[1], !.m = rhs[1]]
  OBVIOUS
<1>5. o \in Operands /\ o.n = n /\ o.m = m
  BY <1>1, <1>2, <1>3, <1>4 DEF ChainTypeOK, Operands
<1>6. PICK p \in Int : p = signed(n)
  BY <1>3, WordFacts
<1>7. PICK q \in Int : q = signed(m)
  BY <1>3, WordFacts
<1>8. /\ p \in (0 - Half)..(Half - 1) /\ q \in (0 - Half)..(Half - 1)
      /\ Alu("ADDV", o).T = 1 <=> p + q \notin (0 - Half)..(Half - 1)
      /\ Alu("SUBV", o).T = 1 <=> p - q \notin (0 - Half)..(Half - 1)
  BY <1>5, <1>6, <1>7, SignedFacts, AluFacts
<1>9. /\ Alu("CMP/GE", o).T = 1 <=> p >= q
      /\ Alu("CMP/GT", o).T = 1 <=> p > q
      /\ Alu("CMP/PL", o).T = 1 <=> p > 0
      /\ Alu("CMP/PZ", o).T = 1 <=> p >= 0
  <2>1. signed(o.n) = p /\ signed(o.m) = q /\ DOMAIN o = {"n", "m", "T", "Q", "M", "MACH", "MACL"}
    BY <1>5, <1>6, <1>7 DEF Operands
  <2>2. /\ Alu("CMP/GE", o) = [o EXCEPT !.T = truth(p >= q)]
        /\ Alu("CMP/GT", o) = [o EXCEPT !.T = truth(p > q)]
        /\ Alu("CMP/PL", o) = [o EXCEPT !.T = truth(p > 0)]
        /\ Alu("CMP/PZ", o) = [o EXCEPT !.T = truth(p >= 0)]
    BY <2>1, CompareFacts, Zenon
  <2>3. /\ Alu("CMP/GE", o).T = truth(p >= q) /\ Alu("CMP/GT", o).T = truth(p > q)
        /\ Alu("CMP/PL", o).T = truth(p > 0) /\ Alu("CMP/PZ", o).T = truth(p >= 0)
    BY <2>1, <2>2
  <2> QED
    BY <2>3 DEF truth
<1>10. n * m \in Int /\ p * q \in Int
  BY <1>3, WordFacts
<1>11. Alu("DMULU.L", o).MACH * WordMod + Alu("DMULU.L", o).MACL = n * m
  <2>1. PICK y \in Int : y = n * m
    BY <1>10
  <2>2. /\ Alu("DMULU.L", o).MACH = (y \div WordMod) % WordMod
        /\ Alu("DMULU.L", o).MACL = y % WordMod
    BY <1>5, <2>1, AluFacts DEF Product, Operands
  <2>3. y % (WordMod * WordMod) = y
    BY <1>3, <2>1, SmallProduct
  <2> QED
    BY <2>1, <2>2, <2>3, DoubleWord
<1>12. Alu("DMULS.L", o).MACH * WordMod + Alu("DMULS.L", o).MACL = (p * q) % (WordMod * WordMod)
  <2>1. PICK y \in Int : y = p * q
    BY <1>10
  <2>2. /\ Alu("DMULS.L", o).MACH = (y \div WordMod) % WordMod
        /\ Alu("DMULS.L", o).MACL = y % WordMod
    BY <1>5, <1>6, <1>7, <2>1, AluFacts DEF Product, Operands
  <2> QED
    BY <2>1, <2>2, DoubleWord
<1>13. 2 * signed(Alu("SHAR", o).n) + Alu("SHAR", o).T = p
  BY <1>5, <1>6, ShiftFacts
<1> QED
  BY <1>1, <1>2, <1>4, <1>6, <1>7, <1>8, <1>9, <1>11, <1>12, <1>13, Zenon
     DEF AgreesWithIntegers, Half

\* The instructions that pass T on from limb to limb
ChainOps == {"ADDC", "SUBC", "NEGC", "ROTCL", "ROTCR"}

\* What one instruction of a chain does, as arithmetic on its operands.  The
\* subtractions are exact unless Rm is all ones.
LEMMA LimbFacts ==
    ASSUME NEW o \in Operands, NEW ins \in ChainOps, NEW r, r = Alu(ins, o)
    PROVE  /\ r \in Operands
           /\ ins = "ADDC" => r.n + WordMod * r.T = o.n + o.m + o.T
           /\ ins = "ROTCL" => r.n + WordMod * r.T = 2 * o.n + o.T
           /\ ins = "ROTCR" => 2 * r.n + r.T = o.n + WordMod * o.T
           /\ ins = "SUBC" /\ o.m # WordMod - 1 => r.n - WordMod * r.T = o.n - o.m - o.T
           /\ ins = "NEGC" /\ o.m # WordMod - 1 => r.n - WordMod * r.T = 0 - o.m - o.T
<1>1. PICK h \in Nat \ {0} : h = Half /\ WordMod = 2 * h
  BY WordFacts
<1>2. PICK n \in Nat : n = o.n /\ n < 2 * h
  BY <1>1, WordFacts DEF Operands
<1>3. PICK m \in Nat : m = o.m /\ m < 2 * h
  BY <1>1, WordFacts DEF Operands
<1>4. PICK t \in {0, 1} : t = o.T
  BY DEF Operands, Bit
<1>5. ASSUME NEW v \in Word, NEW c, r = SetT(SetN(o, v), c)
      PROVE  r \in Operands /\ r.n = v /\ r.T = truth(c)
  <2>1. r = [o EXCEPT !.n = v, !.T = truth(c)]
    BY <1>5 DEF SetT, SetN, Operands
  <2>2. truth(c) \in Bit
    BY DEF truth, Bit
  <2> QED
    BY <1>5, <2>1, <2>2 DEF Operands
<1>6. CASE ins = "ADDC"
  <2>1. PICK s \in Nat : s = n + m + t
    BY <1>4
  <2>2. /\ s % WordMod \in Word
        /\ 0 <= s /\ s < WordMod => s % WordMod = s
        /\ WordMod <= s /\ s < 2 * WordMod => s % WordMod = s - WordMod
    BY WrapFacts
  <2>3. r = SetT(SetN(o, s % WordMod), s >= WordMod)
    BY <1>2, <1>3, <1>4, <1>6, <2>1, AluFacts DEF ADDC
  <2>4. r \in Operands /\ r.n = s % WordMod /\ r.T = truth(s >= WordMod)
    BY <1>5, <2>2, <2>3
  <2>5. r.n + WordMod * r.T = s
    BY <1>1, <1>2, <1>3, <1>4, <2>1, <2>2, <2>4 DEF truth
  <2> QED
    BY <1>2, <1>3, <1>4, <1>6, <2>1, <2>4, <2>5
<1>7. CASE ins = "SUBC"
  <2>1. PICK s \in Nat : s = m + t
    BY <1>4
  <2>2. PICK b : b = s % WordMod
    OBVIOUS
  <2>3. b \in Word /\ b \in Nat /\ b < 2 * h /\ (m # WordMod - 1 => b = s)
    <3>1. b \in Word /\ (0 <= s /\ s < WordMod => b = s)
      BY <2>2, WrapFacts
    <3>2. b \in Nat /\ b < WordMod
      BY <3>1, WordFacts
    <3> QED
      BY <1>1, <1>3, <1>4, <2>1, <3>1, <3>2
  <2>4. PICK d \in Int : d = n - b
    BY <2>3
  <2>5. /\ d % WordMod \in Word
        /\ 0 <= d /\ d < WordMod => d % WordMod = d
        /\ 0 - WordMod <= d /\ d < 0 => d % WordMod = d + WordMod
    BY WrapFacts
  <2>6. r = SetT(SetN(o, d % WordMod), n < b)
    BY <1>2, <1>3, <1>4, <1>7, <2>1, <2>2, <2>4, AluFacts DEF SUBC, u32_add, u32_sub
  <2>7. r \in Operands /\ r.n = d % WordMod /\ r.T = truth(n < b)
    BY <1>5, <2>5, <2>6
  <2>8. r.n - WordMod * r.T = d
    BY <1>1, <1>2, <2>3, <2>4, <2>5, <2>7 DEF truth
  <2> QED
    BY <1>1, <1>2, <1>3, <1>4, <1>7, <2>1, <2>3, <2>4, <2>7, <2>8
<1>8. CASE ins = "NEGC"
  <2>1. PICK s \in Nat : s = m + t
    BY <1>4
  <2>2. PICK b : b = s % WordMod
    OBVIOUS
  <2>3. b \in Word /\ b \in Nat /\ b < 2 * h /\ (m # WordMod - 1 => b = s)
    <3>1. b \in Word /\ (0 <= s /\ s < WordMod => b = s)
      BY <2>2, WrapFacts
    <3>2. b \in Nat /\ b < WordMod
      BY <3>1, WordFacts
    <3> QED
      BY <1>1, <1>3, <1>4, <2>1, <3>1, <3>2
  <2>4. PICK d \in Int : d = 0 - b
    BY <2>3
  <2>5. /\ d % WordMod \in Word
        /\ 0 <= d /\ d < WordMod => d % WordMod = d
        /\ 0 - WordMod <= d /\ d < 0 => d % WordMod = d + WordMod
    BY WrapFacts
  <2>6. r = SetT(SetN(o, d % WordMod), b # 0)
    BY <1>3, <1>4, <1>8, <2>1, <2>2, <2>4, AluFacts DEF NEGC, u32_add, u32_sub
  <2>7. r \in Operands /\ r.n = d % WordMod /\ r.T = truth(b # 0)
    BY <1>5, <2>5, <2>6
  <2>8. r.n - WordMod * r.T = d
    BY <1>1, <2>3, <2>4, <2>5, <2>7 DEF truth
  <2>9. m # WordMod - 1 => r.n - WordMod * r.T = 0 - m - t
    <3>1. m # WordMod - 1 => d = 0 - m - t
      BY <1>4, <2>1, <2>3, <2>4
    <3> QED
      BY <2>8, <3>1
  <2> QED
    BY <1>3, <1>4, <1>8, <2>7, <2>9
<1>9. CASE ins = "ROTCL"
  <2>1. PICK s \in Nat : s = n * 2
    OBVIOUS
  <2>2. shl(n, 1) = s % WordMod
    <3>1. 2 ^ 1 = 2
      OBVIOUS
    <3> QED
      BY <2>1, <3>1 DEF shl
  <2>3. /\ 0 <= s /\ s < WordMod => s % WordMod = s
        /\ WordMod <= s /\ s < 2 * WordMod => s % WordMod = s - WordMod
    BY WrapFacts
  <2>4. PICK v : v = shl(n, 1) + t
    OBVIOUS
  <2>5. v \in 0..(2 * h - 1) /\ v = (IF n < h THEN 2 * n + t ELSE 2 * n + t - 2 * h)
    BY <1>1, <1>2, <1>4, <2>1, <2>2, <2>3, <2>4
  <2>6. v \in Word
    BY <1>1, <2>5 DEF Word
  <2>7. msb(n) = (IF n < h THEN 0 ELSE 1)
    BY <1>1, <1>2, WordFacts DEF Operands
  <2>8. r = SetT(SetN(o, v), msb(n) = 1)
    BY <1>2, <1>4, <1>9, <2>4, AluFacts
  <2>9. r \in Operands /\ r.n = v /\ r.T = truth(msb(n) = 1)
    BY <1>5, <2>6, <2>8
  <2>10. r.n + WordMod * r.T = 2 * n + t
    <3>1. r.T = (IF n < h THEN 0 ELSE 1)
      BY <2>7, <2>9 DEF truth
    <3>2. CASE n < h
      BY <1>1, <1>4, <2>5, <2>9, <3>1, <3>2
    <3>3. CASE ~(n < h)
      BY <1>1, <1>4, <2>5, <2>9, <3>1, <3>3
    <3> QED
      BY <3>2, <3>3
  <2> QED
    BY <1>2, <1>4, <1>9, <2>9, <2>10
<1>10. CASE ins = "ROTCR"
  <2>1. PICK d \in Nat : d = n \div 2
    OBVIOUS
  <2>2. n = 2 * d + (n % 2) /\ (n % 2 = 0 \/ n % 2 = 1) /\ d < h
    BY <1>2, <2>1
  <2>3. shr(n, 1) = d
    <3>1. 2 ^ 1 = 2
      OBVIOUS
    <3> QED
      BY <2>1, <3>1 DEF shr
  <2>4. PICK v : v = d + t * h
    OBVIOUS
  <2>5. v \in 0..(2 * h - 1) /\ 2 * v = 2 * d + 2 * h * t
    <3>1. CASE t = 0
      BY <2>2, <2>4, <3>1
    <3>2. CASE t = 1
      BY <2>2, <2>4, <3>2
    <3> QED
      BY <1>4, <3>1, <3>2
  <2>6. v \in Word
    BY <1>1, <2>5 DEF Word
  <2>7. r = SetT(SetN(o, v), n % 2 = 1)
    BY <1>1, <1>2, <1>4, <1>10, <2>3, <2>4, AluFacts DEF Half
  <2>8. r \in Operands /\ r.n = v /\ r.T = truth(n % 2 = 1)
    BY <1>5, <2>6, <2>7
  <2>9. r.T = n % 2
    BY <2>2, <2>8 DEF truth
  <2>10. 2 * r.n + r.T = n + WordMod * t
    BY <1>1, <1>4, <2>2, <2>5, <2>8, <2>9
  <2> QED
    BY <1>2, <1>4, <1>10, <2>8, <2>10
<1> QED
  BY <1>6, <1>7, <1>8, <1>9, <1>10 DEF ChainOps

-----------------------------------------------------------------------------
(* Numbers of several words *)

\* Induction up to n.
LEMMA UpTo ==
    ASSUME NEW n \in Nat, NEW G, 0 \in G, \A k \in 1..n : k - 1 \in G => k \in G
    PROVE  \A k \in 0..n : k \in G
<1> DEFINE R == {ss \in Nat \X Nat : ss[1] < ss[2]}
           B == {k \in 0..n : k \notin G}
<1>1. R = OpToRel(<, Nat)
  BY Zenon DEF OpToRel
<1>2. \A i, j \in Nat : <<j, i>> \in R <=> j < i
  OBVIOUS
<1> HIDE DEF R
<1>3. IsWellFoundedOn(R, Nat)
  BY <1>1, NatLessThanWellFounded, Zenon
<1>4. SUFFICES ASSUME B # {} PROVE FALSE
  OBVIOUS
<1>5. B \subseteq Nat
  OBVIOUS
<1> HIDE DEF B
<1>6. PICK k \in B : \A j \in B : ~(<<j, k>> \in R)
  BY <1>3, <1>4, <1>5, WFMin, Zenon
<1>7. k \in 1..n /\ k - 1 \in 0..n /\ k \notin G /\ <<k - 1, k>> \in R
  <2>1. k \in 0..n /\ k \notin G
    BY <1>6 DEF B
  <2>2. k # 0
    BY <2>1
  <2>3. k \in 1..n /\ k - 1 \in 0..n /\ k \in Nat /\ k - 1 \in Nat /\ k - 1 < k
    BY <2>1, <2>2
  <2> QED
    BY <1>2, <2>1, <2>3
<1>8. k - 1 \in G
  BY <1>6, <1>7 DEF B
<1> QED
  BY <1>7, <1>8

\* t is the sequence with first value c and t[k] = u * t[k - 1] + g[k]
Recurs(t, n, c, u, g) ==
    t \in [0..n -> Int] /\ t[0] = c /\ \A k \in 1..n : t[k] = u * t[k - 1] + g[k]

\* There is such a sequence.
LEMMA RecurrenceExists ==
    ASSUME NEW n \in Nat, NEW c \in Int, NEW u \in Int, NEW g \in [1..n -> Int]
    PROVE  \E t : Recurs(t, n, c, u, g)
<1> DEFINE Good(m) == \E t : Recurs(t, m, c, u, g)
           G == {m \in 0..n : Good(m)}
<1>1. Good(0)
  <2>1. Recurs([k \in 0..0 |-> c], 0, c, u, g)
    BY DEF Recurs
  <2> QED
    BY <2>1
<1>2. ASSUME NEW m \in 1..n, Good(m - 1) PROVE Good(m)
  <2>1. PICK t : Recurs(t, m - 1, c, u, g)
    BY <1>2
  <2>2. /\ t \in [0..(m - 1) -> Int] /\ t[0] = c /\ g[m] \in Int /\ m \in Nat /\ m # 0
        /\ \A k \in 1..(m - 1) : t[k] = u * t[k - 1] + g[k]
    BY <2>1 DEF Recurs
  <2>3. PICK v \in Int : v = u * t[m - 1] + g[m]
    BY <2>2
  <2>4. PICK e : e = [k \in 0..m |-> IF k = m THEN v ELSE t[k]]
    OBVIOUS
  <2>5. e \in [0..m -> Int] /\ e[0] = c /\ e[m] = v
    BY <2>2, <2>4
  <2>6. \A k \in 0..(m - 1) : e[k] = t[k]
    BY <2>2, <2>4
  <2>7. ASSUME NEW k \in 1..m PROVE e[k] = u * e[k - 1] + g[k]
    <3>1. CASE k = m
      BY <2>2, <2>3, <2>5, <2>6, <3>1
    <3>2. CASE k # m
      <4>1. k \in 1..(m - 1) /\ k \in 0..(m - 1) /\ k - 1 \in 0..(m - 1)
        BY <2>2, <3>2
      <4> QED
        BY <2>2, <2>6, <4>1
    <3> QED
      BY <3>1, <3>2
  <2>8. Recurs(e, m, c, u, g)
    BY <2>5, <2>7 DEF Recurs
  <2> QED
    BY <2>8
<1> HIDE DEF Good
<1>3. 0 \in G
  BY <1>1
<1>4. ASSUME NEW k \in 1..n, k - 1 \in G PROVE k \in G
  BY <1>2, <1>4
<1> HIDE DEF G
<1>5. \A k \in 0..n : k \in G
  BY <1>3, <1>4, UpTo
<1>6. n \in 0..n
  OBVIOUS
<1> QED
  BY <1>5, <1>6 DEF G, Good

\* The weights of the limbs.
LEMMA PlaceFacts ==
    /\ \A k \in 0..Limbs : Place[k] \in Int
    /\ Place[0] = 1
    /\ \A k \in 1..Limbs : Place[k] = WordMod * Place[k - 1]
<1>1. Limbs \in Nat /\ WordMod \in Int
  BY LimbsAssumption, WordFacts
<1> DEFINE P(t) == t = [k \in 0..Limbs |-> IF k = 0 THEN 1 ELSE WordMod * t[k - 1]]
<1>2. PICK g : g = [k \in 1..Limbs |-> 0]
  OBVIOUS
<1>3. g \in [1..Limbs -> Int] /\ \A k \in 1..Limbs : g[k] = 0
  BY <1>2
<1>4. PICK t : Recurs(t, Limbs, 1, WordMod, g)
  BY <1>1, <1>3, RecurrenceExists
<1>5. P(t)
  <2>1. /\ t \in [0..Limbs -> Int] /\ t[0] = 1
        /\ \A k \in 1..Limbs : t[k] = WordMod * t[k - 1] + g[k]
    BY <1>4 DEF Recurs
  <2>2. ASSUME NEW k \in 0..Limbs PROVE t[k] = (IF k = 0 THEN 1 ELSE WordMod * t[k - 1])
    <3>1. CASE k = 0
      BY <2>1, <3>1
    <3>2. CASE k # 0
      <4>1. k \in 1..Limbs /\ k - 1 \in 0..Limbs
        BY <1>1, <3>2
      <4>2. t[k - 1] \in Int /\ g[k] = 0 /\ t[k] = WordMod * t[k - 1] + g[k]
        BY <1>3, <2>1, <4>1
      <4> QED
        BY <1>1, <3>2, <4>2
    <3> QED
      BY <3>1, <3>2
  <2> QED
    BY <2>1, <2>2
<1>6. Place = CHOOSE s : P(s)
  BY Zenon DEF Place
<1>7. P(Place)
  <2> HIDE DEF P
  <2> QED
    BY <1>5, <1>6, Zenon
<1>8. Place[0] = 1 /\ \A k \in 1..Limbs : Place[k] = WordMod * Place[k - 1]
  <2>1. \A k \in 0..Limbs : Place[k] = (IF k = 0 THEN 1 ELSE WordMod * Place[k - 1])
    BY <1>7, Zenon
  <2>2. 0 \in 0..Limbs /\ \A k \in 1..Limbs : k \in 0..Limbs /\ k # 0
    BY <1>1
  <2> QED
    BY <2>1, <2>2, Zenon
<1>9. \A k \in 0..Limbs : Place[k] \in Int
  <2> DEFINE G == {k \in 0..Limbs : Place[k] \in Int}
  <2>1. 0 \in G
    BY <1>1, <1>8
  <2>2. ASSUME NEW k \in 1..Limbs, k - 1 \in G PROVE k \in G
    <3>1. Place[k] = WordMod * Place[k - 1] /\ Place[k - 1] \in Int
      BY <1>8, <2>2
    <3> QED
      BY <1>1, <3>1
  <2> HIDE DEF G
  <2>3. \A k \in 0..Limbs : k \in G
    BY <1>1, <2>1, <2>2, UpTo
  <2> QED
    BY <2>3 DEF G
<1> QED
  BY <1>8, <1>9

\* The value of the first limbs, one limb after the other.
LEMMA PartialFacts ==
    ASSUME NEW number \in Number
    PROVE  /\ \A k \in 0..Limbs : Partial(number)[k] \in Int
           /\ Partial(number)[0] = 0
           /\ \A k \in 1..Limbs :
                 Partial(number)[k] = Partial(number)[k - 1] + number[k] * Place[k - 1]
<1>1. Limbs \in Nat
  BY LimbsAssumption
<1>2. \A k \in 1..Limbs : number[k] * Place[k - 1] \in Int
  <2> TAKE k \in 1..Limbs
  <2>1. number[k] \in Int
    BY WordFacts DEF Number
  <2>2. Place[k - 1] \in Int
    BY <1>1, PlaceFacts
  <2> QED
    BY <2>1, <2>2
<1> DEFINE P(t) == t = [k \in 0..Limbs |-> IF k = 0 THEN 0 ELSE t[k - 1] + number[k] * Place[k - 1]]
<1>3. PICK g : g = [k \in 1..Limbs |-> number[k] * Place[k - 1]]
  OBVIOUS
<1>4. g \in [1..Limbs -> Int] /\ \A k \in 1..Limbs : g[k] = number[k] * Place[k - 1]
  BY <1>2, <1>3
<1>5. PICK t : Recurs(t, Limbs, 0, 1, g)
  BY <1>1, <1>4, RecurrenceExists
<1>6. P(t)
  <2>1. /\ t \in [0..Limbs -> Int] /\ t[0] = 0
        /\ \A k \in 1..Limbs : t[k] = 1 * t[k - 1] + g[k]
    BY <1>5 DEF Recurs
  <2>2. ASSUME NEW k \in 0..Limbs
        PROVE  t[k] = (IF k = 0 THEN 0 ELSE t[k - 1] + number[k] * Place[k - 1])
    <3>1. CASE k = 0
      BY <2>1, <3>1
    <3>2. CASE k # 0
      <4>1. k \in 1..Limbs /\ k - 1 \in 0..Limbs
        BY <1>1, <3>2
      <4>2. /\ t[k - 1] \in Int /\ g[k] = number[k] * Place[k - 1] /\ g[k] \in Int
            /\ t[k] = 1 * t[k - 1] + g[k]
        BY <1>4, <2>1, <4>1
      <4>3. t[k] = t[k - 1] + g[k]
        BY <4>2
      <4> QED
        BY <3>2, <4>2, <4>3
    <3> QED
      BY <3>1, <3>2
  <2> QED
    BY <2>1, <2>2, Zenon
<1>7. PICK sum : sum = Partial(number)
  OBVIOUS
<1>8. sum = CHOOSE s : P(s)
  BY <1>7, Zenon DEF Partial
<1>9. P(sum)
  <2> HIDE DEF P
  <2> QED
    BY <1>6, <1>8, Zenon
<1>10. sum[0] = 0 /\ \A k \in 1..Limbs : sum[k] = sum[k - 1] + number[k] * Place[k - 1]
  <2>1. \A k \in 0..Limbs : sum[k] = (IF k = 0 THEN 0 ELSE sum[k - 1] + number[k] * Place[k - 1])
    BY <1>9, Zenon
  <2>2. 0 \in 0..Limbs /\ \A k \in 1..Limbs : k \in 0..Limbs /\ k # 0
    BY <1>1
  <2> QED
    BY <2>1, <2>2, Zenon
<1>11. \A k \in 0..Limbs : sum[k] \in Int
  <2> DEFINE G == {k \in 0..Limbs : sum[k] \in Int}
  <2>1. 0 \in G
    BY <1>1, <1>10
  <2>2. ASSUME NEW k \in 1..Limbs, k - 1 \in G PROVE k \in G
    <3>1. /\ sum[k] = sum[k - 1] + number[k] * Place[k - 1] /\ sum[k - 1] \in Int
          /\ number[k] * Place[k - 1] \in Int
      BY <1>2, <1>10, <2>2
    <3> QED
      BY <1>1, <3>1
  <2> HIDE DEF G
  <2>3. \A k \in 0..Limbs : k \in G
    BY <1>1, <2>1, <2>2, UpTo
  <2> QED
    BY <2>3 DEF G
<1> QED
  BY <1>7, <1>10, <1>11

\* Numbers that agree between two limbs gain the same value between them.
LEMMA SameLimbs ==
    ASSUME NEW f \in Number, NEW g \in Number, NEW i \in 0..Limbs,
           NEW j \in 0..Limbs, i <= j, \A k \in (i + 1)..j : f[k] = g[k]
    PROVE  Partial(f)[j] - Partial(f)[i] = Partial(g)[j] - Partial(g)[i]
<1> DEFINE Same(k) == Partial(f)[k] - Partial(f)[i] = Partial(g)[k] - Partial(g)[i]
           G == {k \in 0..Limbs : i <= k /\ k <= j => Same(k)}
<1>1. Limbs \in Nat
  BY LimbsAssumption
<1>2. \A k \in 0..Limbs : Partial(f)[k] \in Int /\ Partial(g)[k] \in Int
  BY PartialFacts
<1>3. Same(i)
  BY <1>2
<1>4. ASSUME NEW k \in 1..Limbs, i <= k - 1, k <= j, Same(k - 1) PROVE Same(k)
  <2>1. f[k] = g[k] /\ k - 1 \in 0..Limbs
    BY <1>1, <1>4
  <2>2. PICK v : v = f[k] * Place[k - 1]
    OBVIOUS
  <2>3. v \in Int
    <3>1. f[k] \in Int
      BY WordFacts DEF Number
    <3>2. Place[k - 1] \in Int
      BY <2>1, PlaceFacts
    <3> QED
      BY <2>2, <3>1, <3>2
  <2>4. Partial(f)[k] = Partial(f)[k - 1] + v /\ Partial(g)[k] = Partial(g)[k - 1] + v
    BY <2>1, <2>2, PartialFacts
  <2> QED
    BY <1>2, <1>4, <2>1, <2>3, <2>4
<1> HIDE DEF Same
<1>5. 0 \in G
  BY <1>1, <1>3
<1>6. ASSUME NEW k \in 1..Limbs, k - 1 \in G PROVE k \in G
  <2>1. CASE i <= k - 1 /\ k <= j
    BY <1>1, <1>4, <1>6, <2>1
  <2>2. CASE ~(i <= k - 1 /\ k <= j)
    BY <1>1, <1>3, <2>2
  <2> QED
    BY <2>1, <2>2
<1> HIDE DEF G
<1>7. \A k \in 0..Limbs : k \in G
  BY <1>1, <1>5, <1>6, UpTo
<1>8. Same(j)
  BY <1>7 DEF G
<1> QED
  BY <1>8 DEF Same

-----------------------------------------------------------------------------
(* The chain *)

\* What the limbs done so far show, for a chain that starts at the lowest limb
\* (done is how many) and for one that starts at the highest (left to do)
Added(done) ==
    Partial(result)[done] + Place[done] * alu.T
        = Partial(lhs)[done] + Partial(rhs)[done] + carry_in

Doubled(done) ==
    Partial(result)[done] + Place[done] * alu.T = 2 * Partial(lhs)[done] + carry_in

Subtracted(done) ==
    Partial(result)[done] - Place[done] * alu.T
        = Partial(lhs)[done] - Partial(rhs)[done] - carry_in

Negated(done) ==
    Partial(result)[done] - Place[done] * alu.T = 0 - Partial(lhs)[done] - carry_in

Halved(todo) ==
    2 * (NumberValue(result) - Partial(result)[todo]) + Place[todo] * alu.T
        = NumberValue(lhs) - Partial(lhs)[todo] + Base * carry_in

ChainInv ==
    /\ job = "ADDC" => Added(Limbs - left)
    /\ job = "ROTCL" => Doubled(Limbs - left)
    /\ job = "ROTCR" => Halved(left)
    /\ job = "SUBC" /\ ~Wraps(rhs) => Subtracted(Limbs - left)
    /\ job = "NEGC" /\ ~Wraps(lhs) => Negated(Limbs - left)

\* The limb that a step works on, and what it leaves behind.
LEMMA StepFacts ==
    ASSUME ChainTypeOK, ChainStep
    PROVE  \E k \in 1..Limbs, o \in Operands :
              /\ k = (IF job = "ROTCR" THEN left ELSE Limbs + 1 - left)
              /\ o.n = lhs[k] /\ o.m = (IF job = "NEGC" THEN lhs[k] ELSE rhs[k]) /\ o.T = alu.T
              /\ alu' = Alu(job, o) /\ alu' \in Operands
              /\ result' = [result EXCEPT ![k] = alu'.n] /\ result' \in Number
              /\ left' = left - 1 /\ UNCHANGED <<job, lhs, rhs, carry_in>>
<1>1. Limbs \in Nat /\ left \in 1..Limbs
  BY LimbsAssumption DEF ChainTypeOK, ChainStep
<1>2. PICK k \in 1..Limbs : k = Limb /\ k = (IF job = "ROTCR" THEN left ELSE Limbs + 1 - left)
  <2>1. Limb \in 1..Limbs
    BY <1>1 DEF Limb
  <2> QED
    BY <2>1 DEF Limb
<1>3. lhs[k] \in Word /\ rhs[k] \in Word
  BY DEF ChainTypeOK, Number
<1>4. PICK o : o = LimbOperands
  OBVIOUS
<1>5. /\ o \in Operands /\ o.n = lhs[k] /\ o.m = (IF job = "NEGC" THEN lhs[k] ELSE rhs[k])
      /\ o.T = alu.T
  BY <1>2, <1>3, <1>4 DEF LimbOperands, ChainTypeOK, Operands
<1>6. job \in ChainOps
  BY JobsAssumption DEF ChainTypeOK, ChainOps
<1>7. alu' = Alu(job, o) /\ alu' \in Operands
  BY <1>4, <1>5, <1>6, LimbFacts DEF ChainStep
<1>8. alu'.n \in Word
  BY <1>7 DEF Operands
<1>9. result' = [result EXCEPT ![k] = alu'.n] /\ left' = left - 1
      /\ UNCHANGED <<job, lhs, rhs, carry_in>>
  BY <1>2 DEF ChainStep
<1>10. result' \in Number
  BY <1>8, <1>9 DEF ChainTypeOK, Number
<1> QED
  BY <1>2, <1>5, <1>7, <1>9, <1>10

\* A limb counts with its weight, and what leaves it with that of the next.
LEMMA Weighed ==
    ASSUME NEW n \in Int, NEW w \in Int, NEW t \in Int, NEW weight \in Int
    PROVE  /\ n * weight + (w * weight) * t = (n + w * t) * weight
           /\ n * weight - (w * weight) * t = (n - w * t) * weight
  OBVIOUS

\* Replacing limb k of the result.
LEMMA LimbReplaced ==
    ASSUME NEW f \in Number, NEW k \in 1..Limbs, NEW v \in Word,
           NEW g \in Number, g[k] = v, \A i \in 1..Limbs : i # k => g[i] = f[i]
    PROVE  /\ Partial(g)[k - 1] = Partial(f)[k - 1]
           /\ Partial(g)[k] = Partial(f)[k - 1] + v * Place[k - 1]
           /\ NumberValue(g) - Partial(g)[k] = NumberValue(f) - Partial(f)[k]
<1>1. Limbs \in Nat
  BY LimbsAssumption
<1>3. k - 1 \in 0..Limbs /\ k \in 0..Limbs /\ 0 \in 0..Limbs /\ Limbs \in 0..Limbs
      /\ 0 <= k - 1 /\ k <= Limbs
  BY <1>1
<1>4. /\ Partial(g)[0] = 0 /\ Partial(f)[0] = 0
      /\ Partial(g)[k - 1] \in Int /\ Partial(f)[k - 1] \in Int
      /\ Partial(g)[k] = Partial(g)[k - 1] + g[k] * Place[k - 1]
  BY <1>3, PartialFacts
<1>5. PICK z \in 0..Limbs : z = 0
  BY <1>3
<1>6. Partial(g)[k - 1] - Partial(g)[z] = Partial(f)[k - 1] - Partial(f)[z]
  <2>1. z <= k - 1 /\ \A i \in (z + 1)..(k - 1) : g[i] = f[i]
    BY <1>1, <1>3, <1>5
  <2> HIDE <1>5
  <2> QED
    BY <1>3, <2>1, SameLimbs
<1>7. Partial(g)[k - 1] = Partial(f)[k - 1]
  BY <1>4, <1>5, <1>6
<1>8. \A i \in (k + 1)..Limbs : g[i] = f[i]
  BY <1>1
<1>9. Partial(g)[Limbs] - Partial(g)[k] = Partial(f)[Limbs] - Partial(f)[k]
  BY <1>3, <1>8, SameLimbs
<1> QED
  BY <1>4, <1>7, <1>9 DEF NumberValue

\* No step of a chain leaves the invariant.
LEMMA ChainStepInv ==
    ASSUME ChainTypeOK, ChainInv, ChainStep
    PROVE  ChainTypeOK' /\ ChainInv'
<1>1. PICK k \in 1..Limbs, o \in Operands :
              /\ k = (IF job = "ROTCR" THEN left ELSE Limbs + 1 - left)
              /\ o.n = lhs[k] /\ o.m = (IF job = "NEGC" THEN lhs[k] ELSE rhs[k]) /\ o.T = alu.T
              /\ alu' = Alu(job, o) /\ alu' \in Operands
              /\ result' = [result EXCEPT ![k] = alu'.n] /\ result' \in Number
              /\ left' = left - 1 /\ UNCHANGED <<job, lhs, rhs, carry_in>>
  BY StepFacts
<1>2. /\ Limbs \in Nat /\ left \in 0..Limbs /\ left > 0 /\ k - 1 \in 0..Limbs /\ k \in 0..Limbs
      /\ Limbs \in 0..Limbs
  BY LimbsAssumption DEF ChainTypeOK, ChainStep
<1>3. ChainTypeOK'
  BY <1>1, <1>2 DEF ChainTypeOK
<1>4. PICK r \in Operands : r = alu'
  BY <1>1
<1>5. PICK w \in Nat : w = WordMod
  BY WordFacts
<1>6. PICK a \in Nat : a = lhs[k]
  BY WordFacts DEF ChainTypeOK, Number
<1>7. PICK b \in Nat : b = rhs[k]
  BY WordFacts DEF ChainTypeOK, Number
<1>8. PICK t \in Int : t = alu.T
  BY DEF ChainTypeOK, Operands, Bit
<1>9. PICK v \in Nat : v = r.n /\ v \in Word
  BY WordFacts DEF Operands
<1>10. PICK u \in Int : u = r.T
  BY DEF Operands, Bit
<1>11. PICK c \in Int : c = carry_in
  BY DEF ChainTypeOK, Bit
<1>12. PICK pl \in Int : pl = Place[k - 1] /\ Place[k] = w * pl
  BY <1>2, <1>5, PlaceFacts
<1>13. PICK A \in Int : A = Partial(lhs)[k - 1] /\ Partial(lhs)[k] = A + a * pl
  BY <1>2, <1>6, <1>12, PartialFacts DEF ChainTypeOK
<1>14. PICK B \in Int : B = Partial(rhs)[k - 1] /\ Partial(rhs)[k] = B + b * pl
  BY <1>2, <1>7, <1>12, PartialFacts DEF ChainTypeOK
<1>15. PICK R \in Int : R = Partial(result)[k - 1]
  BY <1>2, PartialFacts DEF ChainTypeOK
<1>16. /\ Partial(result')[k - 1] = R /\ Partial(result')[k] = R + v * pl
       /\ NumberValue(result') - Partial(result')[k] = NumberValue(result) - Partial(result)[k]
  <2>1. PICK f \in Number : f = result
    BY DEF ChainTypeOK
  <2>2. PICK g \in Number : g = result'
    BY <1>1
  <2>3. g[k] = v /\ \A i \in 1..Limbs : i # k => g[i] = f[i]
    BY <1>1, <1>4, <1>9, <2>1, <2>2 DEF Number
  <2> HIDE <2>1, <2>2
  <2>4. /\ Partial(g)[k - 1] = Partial(f)[k - 1]
        /\ Partial(g)[k] = Partial(f)[k - 1] + v * Place[k - 1]
        /\ NumberValue(g) - Partial(g)[k] = NumberValue(f) - Partial(f)[k]
    BY <1>9, <2>3, LimbReplaced
  <2> QED
    BY <1>12, <1>15, <2>1, <2>2, <2>4
<1>17. /\ v * pl + (w * pl) * u = (v + w * u) * pl
       /\ v * pl - (w * pl) * u = (v - w * u) * pl
  BY Weighed
<1>0. /\ job = "ADDC" => v + w * u = a + b + t
      /\ job = "ROTCL" => v + w * u = 2 * a + t
      /\ job = "ROTCR" => 2 * v + u = a + w * t
      /\ job = "SUBC" /\ b # w - 1 => v - w * u = a - b - t
      /\ job = "NEGC" /\ a # w - 1 => v - w * u = 0 - a - t
  <2>1. PICK ins \in ChainOps : ins = job
    BY JobsAssumption DEF ChainTypeOK, ChainOps
  <2>2. r = Alu(ins, o)
    BY <1>1, <1>4, <2>1
  <2>3. /\ ins = "ADDC" => r.n + w * r.T = o.n + o.m + o.T
        /\ ins = "ROTCL" => r.n + w * r.T = 2 * o.n + o.T
        /\ ins = "ROTCR" => 2 * r.n + r.T = o.n + w * o.T
        /\ ins = "SUBC" /\ o.m # w - 1 => r.n - w * r.T = o.n - o.m - o.T
        /\ ins = "NEGC" /\ o.m # w - 1 => r.n - w * r.T = 0 - o.m - o.T
    BY <1>5, <2>2, LimbFacts
  <2>4. o.n = a /\ o.m = (IF job = "NEGC" THEN a ELSE b) /\ o.T = t
    BY <1>1, <1>6, <1>7, <1>8
  <2> QED
    BY <1>9, <1>10, <2>1, <2>3, <2>4
<1>18. CASE job = "ADDC"
  <2>1. v + w * u = a + b + t
    BY <1>0, <1>18
  <2>2. (v + w * u) * pl = a * pl + b * pl + pl * t
    BY <2>1
  <2>3. R + pl * t = A + B + c
    BY <1>1, <1>2, <1>8, <1>11, <1>12, <1>13, <1>14, <1>15, <1>18 DEF ChainInv, Added
  <2>4. (R + v * pl) + (w * pl) * u = (A + a * pl) + (B + b * pl) + c
    BY <1>17, <2>2, <2>3
  <2>5. Limbs - left' = k
    BY <1>1, <1>2, <1>18
  <2> QED
    BY <1>1, <1>3, <1>4, <1>10, <1>11, <1>12, <1>13, <1>14, <1>16, <1>18, <2>4, <2>5
       DEF ChainInv, Added
<1>19. CASE job = "ROTCL"
  <2>1. v + w * u = 2 * a + t
    BY <1>0, <1>19
  <2>2. (v + w * u) * pl = 2 * (a * pl) + pl * t
    BY <2>1
  <2>3. R + pl * t = 2 * A + c
    BY <1>1, <1>2, <1>8, <1>11, <1>12, <1>13, <1>15, <1>19 DEF ChainInv, Doubled
  <2>4. (R + v * pl) + (w * pl) * u = 2 * (A + a * pl) + c
    BY <1>17, <2>2, <2>3
  <2>5. Limbs - left' = k
    BY <1>1, <1>2, <1>19
  <2> QED
    BY <1>1, <1>3, <1>4, <1>10, <1>11, <1>12, <1>13, <1>16, <1>19, <2>4, <2>5
       DEF ChainInv, Doubled
<1>20. CASE job = "SUBC"
  <2>1. SUFFICES ASSUME ~Wraps(rhs) PROVE Subtracted(k)'
    BY <1>1, <1>2, <1>3, <1>20 DEF ChainInv
  <2>2. b # w - 1
    BY <1>5, <1>7, <2>1 DEF Wraps
  <2>3. v - w * u = a - b - t
    BY <1>0, <1>20, <2>2
  <2>4. (v - w * u) * pl = a * pl - b * pl - pl * t
    BY <2>3
  <2>5. R - pl * t = A - B - c
    BY <1>1, <1>2, <1>8, <1>11, <1>12, <1>13, <1>14, <1>15, <1>20, <2>1 DEF ChainInv, Subtracted
  <2>6. (R + v * pl) - (w * pl) * u = (A + a * pl) - (B + b * pl) - c
    BY <1>17, <2>4, <2>5
  <2> QED
    BY <1>1, <1>4, <1>10, <1>11, <1>12, <1>13, <1>14, <1>16, <2>6 DEF Subtracted
<1>21. CASE job = "NEGC"
  <2>1. SUFFICES ASSUME ~Wraps(lhs) PROVE Negated(k)'
    BY <1>1, <1>2, <1>3, <1>21 DEF ChainInv
  <2>2. a # w - 1
    BY <1>5, <1>6, <2>1 DEF Wraps
  <2>3. v - w * u = 0 - a - t
    BY <1>0, <1>21, <2>2
  <2>4. (v - w * u) * pl = 0 - a * pl - pl * t
    BY <2>3
  <2>5. R - pl * t = 0 - A - c
    BY <1>1, <1>2, <1>8, <1>11, <1>12, <1>13, <1>15, <1>21, <2>1 DEF ChainInv, Negated
  <2>6. (R + v * pl) - (w * pl) * u = 0 - (A + a * pl) - c
    BY <1>17, <2>4, <2>5
  <2> QED
    BY <1>1, <1>4, <1>10, <1>11, <1>12, <1>13, <1>16, <2>6 DEF Negated
<1>22. CASE job = "ROTCR"
  <2>1. 2 * v + u = a + w * t
    BY <1>0, <1>22
  <2>2. 2 * (v * pl) + pl * u = a * pl + (w * pl) * t
    <3>1. (2 * v + u) * pl = 2 * (v * pl) + pl * u
      OBVIOUS
    <3>2. (a + w * t) * pl = a * pl + (w * pl) * t
      OBVIOUS
    <3> QED
      BY <2>1, <3>1, <3>2
  <2>3. PICK D \in Int : D = NumberValue(result) - Partial(result)[k]
    BY <1>2, PartialFacts DEF ChainTypeOK, NumberValue
  <2>4. PICK E \in Int : E = NumberValue(lhs)
    BY <1>2, PartialFacts DEF ChainTypeOK, NumberValue
  <2>5. PICK F \in Int : F = Base * c
    BY <1>2, PlaceFacts DEF Base
  <2>6. 2 * D + (w * pl) * t = E - (A + a * pl) + F
    BY <1>1, <1>8, <1>11, <1>12, <1>13, <1>22, <2>3, <2>4, <2>5 DEF ChainInv, Halved
  <2>7. PICK V \in Int : V = NumberValue(result')
    BY <1>1, <1>2, PartialFacts DEF NumberValue
  <2>8. V - R = D + v * pl
    BY <1>16, <2>3, <2>7
  <2>9. 2 * (V - R) + pl * u = E - A + F
    BY <2>2, <2>6, <2>8
  <2>10. left' = k - 1
    BY <1>1, <1>22
  <2> QED
    BY <1>1, <1>3, <1>4, <1>10, <1>11, <1>12, <1>13, <1>16, <1>22, <2>4, <2>5, <2>7, <2>9, <2>10
       DEF ChainInv, Halved
<1> QED
  BY <1>18, <1>19, <1>20, <1>21, <1>22, JobsAssumption DEF ChainTypeOK

\* Before the first instruction nothing is done.
LEMMA ChainStarts ==
    ASSUME ChainInit
    PROVE  ChainTypeOK /\ ChainInv
<1>1. Limbs \in Nat \ {0} /\ WordMod \in Nat \ {0}
  BY LimbsAssumption, WordFacts
<1>2. 0 \in Word /\ carry_in \in Bit /\ 0 \in Bit
  BY <1>1 DEF ChainInit, Word, Bit
<1>3. alu \in Operands /\ alu.T = carry_in
  BY <1>2 DEF ChainInit, Operands
<1>4. result \in Number
  BY <1>2 DEF ChainInit, Number
<1>5. ChainTypeOK
  BY <1>1, <1>2, <1>3, <1>4 DEF ChainInit, ChainTypeOK
<1>6. left = Limbs /\ Limbs - left = 0
  BY <1>1 DEF ChainInit
<1>7. PICK c \in Int : c = carry_in
  BY <1>2 DEF Bit
<1>8. Place[0] = 1 /\ Partial(result)[0] = 0 /\ Partial(lhs)[0] = 0 /\ Partial(rhs)[0] = 0
  BY <1>5, PlaceFacts, PartialFacts DEF ChainTypeOK
<1>9. /\ Partial(result)[Limbs] \in Int /\ Partial(lhs)[Limbs] \in Int /\ Place[Limbs] \in Int
  BY <1>1, <1>5, PlaceFacts, PartialFacts DEF ChainTypeOK
<1>10. Added(0) /\ Doubled(0) /\ Subtracted(0) /\ Negated(0)
  BY <1>3, <1>7, <1>8 DEF Added, Doubled, Subtracted, Negated
<1>11. Halved(Limbs)
  BY <1>3, <1>7, <1>9 DEF Halved, NumberValue, Base
<1> QED
  BY <1>5, <1>6, <1>10, <1>11 DEF ChainInv

\* After the last one everything is.
LEMMA ChainEnds ==
    ASSUME ChainTypeOK, ChainInv
    PROVE  CarriesChain
<1> SUFFICES ASSUME left = 0 PROVE CarriesChain
  BY DEF CarriesChain
<1>1. Limbs \in Nat /\ Limbs - left = Limbs
  BY LimbsAssumption
<1>2. PICK c \in Int : c = carry_in
  BY DEF ChainTypeOK, Bit
<1>3. PICK t \in Int : t = alu.T
  BY DEF ChainTypeOK, Operands, Bit
<1>4. /\ Place[0] = 1 /\ Partial(result)[0] = 0 /\ Partial(lhs)[0] = 0
      /\ Partial(result)[Limbs] \in Int /\ Partial(lhs)[Limbs] \in Int
      /\ Place[Limbs] \in Int
  BY <1>1, PlaceFacts, PartialFacts DEF ChainTypeOK
<1>5. Halved(0) => 2 * NumberValue(result) + alu.T = NumberValue(lhs) + Base * carry_in
  BY <1>2, <1>3, <1>4 DEF Halved, NumberValue, Base
<1>6. /\ job = "ADDC" =>
            NumberValue(result) + Base * alu.T = NumberValue(lhs) + NumberValue(rhs) + carry_in
      /\ job = "ROTCL" => NumberValue(result) + Base * alu.T = 2 * NumberValue(lhs) + carry_in
  BY <1>1 DEF ChainInv, Added, Doubled, NumberValue, Base
<1>7. /\ job = "SUBC" /\ ~Wraps(rhs) =>
            NumberValue(result) - Base * alu.T = NumberValue(lhs) - NumberValue(rhs) - carry_in
      /\ job = "NEGC" /\ ~Wraps(lhs) =>
            NumberValue(result) - Base * alu.T = 0 - NumberValue(lhs) - carry_in
  BY <1>1 DEF ChainInv, Subtracted, Negated, NumberValue, Base
<1>8. job = "ROTCR" => 2 * NumberValue(result) + alu.T = NumberValue(lhs) + Base * carry_in
  BY <1>5 DEF ChainInv
<1> QED
  BY <1>6, <1>7, <1>8 DEF CarriesChain

\* Every chain keeps the invariant to its end.
LEMMA ChainAlways == ChainSpec => [](ChainTypeOK /\ ChainInv)
<1>1. ChainInit => ChainTypeOK /\ ChainInv
  BY ChainStarts
<1>2. ChainTypeOK /\ ChainInv /\ [ChainStep]_chainVars => (ChainTypeOK /\ ChainInv)'
  <2> SUFFICES ASSUME ChainTypeOK, ChainInv, [ChainStep]_chainVars
               PROVE  (ChainTypeOK /\ ChainInv)'
    OBVIOUS
  <2>1. CASE ChainStep
    BY <2>1, ChainStepInv
  <2>2. CASE UNCHANGED chainVars
    BY <2>2 DEF chainVars, ChainTypeOK, ChainInv, Added, Doubled, Subtracted, Negated, Halved
  <2> QED
    BY <2>1, <2>2
<1> QED
  BY <1>1, <1>2, PTL DEF ChainSpec

\* For words of any width and numbers of any length, chains of ADDC, SUBC,
\* NEGC, ROTCL and ROTCR through T compute what the integers do, the
\* subtractions as long as no limb of the subtrahend is all ones.
THEOREM CarriesAreExact == ChainSpec => []CarriesChain
<1>1. ChainTypeOK /\ ChainInv => CarriesChain
  BY ChainEnds
<1> QED
  BY <1>1, ChainAlways, PTL

\* For words of any width, the signed comparisons, overflow flags, double-word
\* products and arithmetic shift are those of the integers.
THEOREM SignedIsInteger == ChainSpec => []AgreesWithIntegers
<1>1. ChainTypeOK => AgreesWithIntegers
  BY IntegersFromType
<1> QED
  BY <1>1, ChainAlways, PTL

-----------------------------------------------------------------------------
(* Addresses and bytes *)

\* A physical address is its own physical address (to_phys).
LEMMA PhysAgain == \A a \in Int : to_phys(a) \in Int /\ to_phys(to_phys(a)) = to_phys(a)
BY AliasBitAssumption DEF to_phys

\* Quotient and remainder.
LEMMA DivisionFacts ==
    ASSUME NEW M \in Nat \ {0}, NEW y \in Int
    PROVE  \E d \in Int, r \in Int :
              /\ d = y \div M /\ r = y % M /\ y = M * d + r
              /\ 0 <= r /\ r < M /\ (y >= 0 => d >= 0)
<1>1. PICK d \in Int : d = y \div M
  OBVIOUS
<1>2. PICK r \in Int : r = y % M
  OBVIOUS
<1>3. y = M * d + r /\ 0 <= r /\ r < M
  BY <1>1, <1>2
<1>4. d < 0 => M * d <= 0 - M
  OBVIOUS
<1>5. y >= 0 => d >= 0
  BY <1>3, <1>4
<1> QED BY <1>1, <1>2, <1>3, <1>5

\* Two pushes move the stack pointer by eight, and so do two pops.
LEMMA FourTwice ==
    ASSUME NEW a \in Int
    PROVE  /\ u32_sub(u32_sub(a, 4), 4) = u32_sub(a, 8)
           /\ u32_add(u32_add(a, 4), 4) = u32_add(a, 8)
<1>1. PICK M \in Nat \ {0} : M = WordMod
  BY PowerAssumption DEF WordMod
<1>2. ASSUME NEW b \in Int, NEW k \in Int PROVE ((b % M) + k) % M = (b + k) % M
  <2>1. PICK d \in Int : d = b \div M
    OBVIOUS
  <2>2. PICK r \in Int : r = b % M
    OBVIOUS
  <2>3. b = M * d + r
    BY <2>1, <2>2
  <2>4. PICK e \in Int, z \in Int : r + k = M * e + z /\ 0 <= z /\ z < M
    <3>1. r + k \in Int
      OBVIOUS
    <3> QED BY <3>1, DivisionFacts
  <2>5. (M * e + z) % M = z
    BY <2>4, UniqueRemainder
  <2>6. b + k = M * (d + e) + z
    BY <2>3, <2>4
  <2>7. (M * (d + e) + z) % M = z
    BY <2>4, UniqueRemainder
  <2> QED BY <2>2, <2>4, <2>5, <2>6, <2>7
<1>3. (a - 4) % M \in Int /\ (a + 4) % M \in Int
  OBVIOUS
<1>4. (((a - 4) % M) - 4) % M = (a - 8) % M
  <2>1. (((a - 4) % M) + (0 - 4)) % M = ((a - 4) + (0 - 4)) % M
    BY <1>2, SMTT(40)
  <2> QED BY <1>3, <2>1
<1>5. (((a + 4) % M) + 4) % M = (a + 8) % M
  <2>1. (((a + 4) % M) + 4) % M = ((a + 4) + 4) % M
    BY <1>2, SMTT(40)
  <2> QED BY <1>3, <2>1
<1> QED BY <1>1, <1>4, <1>5 DEF u32_sub, u32_add

\* A halfword of a word has its two low bytes.
LEMMA HalfwordBytes ==
    ASSUME NEW B \in Nat \ {0}, NEW v \in Nat
    PROVE  /\ (v % (B * B)) % B = v % B
           /\ ((v % (B * B)) \div B) % B = (v \div B) % B
<1>1. PICK q \in Int, r \in Int : /\ q = v \div B /\ r = v % B /\ v = B * q + r
                                 /\ 0 <= r /\ r < B /\ q >= 0
  BY DivisionFacts
<1>2. PICK e \in Int, s \in Int : s = q % B /\ q = B * e + s /\ 0 <= s /\ s < B
  BY DivisionFacts
<1>3. PICK z \in Int : z = B * s + r
  OBVIOUS
<1>4. PICK C \in Nat \ {0} : C = B * B
  OBVIOUS
<1>5. v = C * e + z
  <2>1. B * q = B * (B * e) + B * s
    BY <1>2
  <2>2. B * (B * e) = (B * B) * e
    OBVIOUS
  <2> QED BY <1>1, <1>3, <1>4, <2>1, <2>2
<1>6. 0 <= z /\ z < C
  <2>1. 0 <= B * s /\ B * s <= B * (B - 1)
    BY <1>2
  <2>2. B * (B - 1) = B * B - B
    OBVIOUS
  <2>3. B * s \in Int
    OBVIOUS
  <2> QED BY <1>1, <1>3, <1>4, <2>1, <2>2, <2>3
<1>7. v % C = z
  <2>1. (C * e + z) % C = z
    BY <1>6, UniqueRemainder
  <2> QED BY <1>5, <2>1
<1>8. z % B = r
  <2>1. (B * s + r) % B = r
    BY <1>1, UniqueRemainder
  <2> QED BY <1>3, <2>1
<1>9. z \div B = s
  <2>1. PICK d \in Int : d = z \div B /\ z = B * d + r
    BY <1>8, DivisionFacts
  <2>2. PICK k \in Int : k = d - s
    OBVIOUS
  <2>3. B * k = B * d - B * s
    BY <2>2
  <2>4. B * k = 0
    BY <1>3, <2>1, <2>3
  <2>5. k = 0
    BY <2>4
  <2> QED BY <2>1, <2>2, <2>5
<1>10. s % B = s
  BY <1>2
<1> QED BY <1>1, <1>2, <1>4, <1>7, <1>8, <1>9, <1>10

\* The low bytes of a register are all that a store of this size writes
\* (Truncated is the cast to the size of the access).
LEMMA TruncatedBytes ==
    ASSUME NEW m, NEW a, NEW size \in AccessSizes, NEW v \in Word
    PROVE  WriteMem(m, a, size, Truncated(v, size)) = WriteMem(m, a, size, v)
<1>1. PICK B \in Nat \ {0} : B = 2 ^ ByteBits
  BY ByteAssumption
<1>2. /\ v \in Nat /\ v < WordMod /\ ByteBits \in Int
  BY WordFacts, WordBitsAssumption DEF ByteBits
<1>3. ASSUME NEW f, NEW b
      PROVE  Overwrite(f, b, size, Truncated(v, size)) = Overwrite(f, b, size, v)
  <2>1. CASE size = 1
    <3>1. Truncated(v, 1) = v % B
      <4>1. 1 * ByteBits = ByteBits
        BY <1>2
      <4> QED BY <1>1, <4>1 DEF Truncated, low
    <3>2. (v % B) % B = v % B
      BY <1>2
    <3>3. ByteOf(v % B, 1, 0) = ByteOf(v, 1, 0)
      <4>1. \A x : ByteOf(x, 1, 0) = x % B
        BY <1>1 DEF ByteOf, ShiftedBy
      <4> QED BY <3>2, <4>1
    <3>4. \A x : Overwrite(f, b, 1, x) = [f EXCEPT ![b] = ByteOf(x, 1, 0)]
      BY DEF Overwrite
    <3> QED BY <2>1, <3>1, <3>3, <3>4, Zenon
  <2>2. CASE size = 2
    <3>1. PICK w : w = v % (B * B)
      OBVIOUS
    <3>2. Truncated(v, 2) = w
      BY <1>1, <3>1, ByteAssumption DEF Truncated, low
    <3>3. w % B = v % B /\ (w \div B) % B = (v \div B) % B
      BY <1>2, <3>1, HalfwordBytes
    <3>4. ByteOf(w, 2, 0) = ByteOf(v, 2, 0) /\ ByteOf(w, 2, 1) = ByteOf(v, 2, 1)
      <4>1. \A x : ByteOf(x, 2, 1) = x % B /\ ByteOf(x, 2, 0) = (x \div B) % B
        BY <1>1 DEF ByteOf, ShiftedBy
      <4> QED BY <3>3, <4>1
    <3>5. \A x : Overwrite(f, b, 2, x) =
                    [f EXCEPT ![b] = ByteOf(x, 2, 0), ![b + 1] = ByteOf(x, 2, 1)]
      BY DEF Overwrite
    <3> QED BY <2>2, <3>2, <3>4, <3>5, Zenon
  <2>3. CASE size = 4
    <3>1. Truncated(v, 4) = v % WordMod
      BY ByteAssumption DEF Truncated, low, WordMod
    <3>2. v % WordMod = v
      BY <1>2, WordFacts
    <3> QED BY <2>3, <3>1, <3>2
  <2> QED BY <2>1, <2>2, <2>3 DEF AccessSizes
<1> QED BY <1>3 DEF WriteMem, write

\* A byte in memory is a byte.
LEMMA ByteStays ==
    ASSUME NEW m, \A a \in DOMAIN m : m[a] \in Byte, NEW a \in Int
    PROVE  Truncated(ReadMem(m, a, 1), 1) = ReadMem(m, a, 1)
<1>1. PICK B \in Nat \ {0} : B = 2 ^ ByteBits
  BY ByteAssumption
<1>2. PICK v : v = ReadMem(m, a, 1)
  OBVIOUS
<1>3. PICK p \in Int : p = to_phys(a)
  BY PhysAgain
<1>4. v \in 0..(B - 1)
  <2>1. CASE access_in_range(m, p, 1)
    <3>1. p \in DOMAIN m
      BY <2>1 DEF access_in_range
    <3>2. v = m[p]
      BY <1>2, <1>3, <2>1 DEF ReadMem, read, Assemble
    <3> QED BY <1>1, <3>1, <3>2 DEF Byte
  <2>2. CASE ~access_in_range(m, p, 1)
    BY <1>2, <1>3, <2>2 DEF ReadMem, read
  <2> QED BY <2>1, <2>2
<1>5. v % B = v
  BY <1>4
<1>6. Truncated(v, 1) = v % B
  <2>1. ByteBits \in Int /\ 1 * ByteBits = ByteBits
    BY WordBitsAssumption DEF ByteBits
  <2> QED BY <1>1, <2>1 DEF Truncated, low
<1> QED BY <1>2, <1>5, <1>6

-----------------------------------------------------------------------------
(* The operators of Sh2Isa, instantiated, are those of this module *)

\* The ALU.
LEMMA SameAlu == \A o, x : Arch!Alu(o, x) = Alu(o, x)
BY DEF Alu, Arch!Alu, SetT, Arch!SetT, SetN, Arch!SetN, u32_add, Arch!u32_add, ADDC, Arch!ADDC,
   ADDV, Arch!ADDV, u32_sub, Arch!u32_sub, SUBC, Arch!SUBC, SUBV, Arch!SUBV, NEGC, Arch!NEGC,
   And, Arch!And, Xor, Arch!Xor, Or, Arch!Or, Not, Arch!Not, Comparisons, Arch!Comparisons,
   Compare, Arch!Compare, low, Arch!low, sext, Arch!sext, Macl, Arch!Macl, signed, Arch!signed,
   Product, Arch!Product, DIV0S, Arch!DIV0S, DIV1, Arch!DIV1, Shifts, Arch!Shifts, Shift,
   Arch!Shift, truth, Arch!truth, WordMod, Arch!WordMod, add_overflow, Arch!add_overflow,
   sub_overflow, Arch!sub_overflow, word, Arch!word, bits, Arch!bits, SymmetricDifference,
   Arch!SymmetricDifference, Quarters, Arch!Quarters, msb, Arch!msb, shl, Arch!shl, shr,
   Arch!shr, sar, Arch!sar, ShiftCount, Arch!ShiftCount, MapThenSumSet, Arch!MapThenSumSet,
   MapThenFoldSet, Arch!MapThenFoldSet

\* The result of an instruction on the registers.
LEMMA SameAluResult == \A i, r, sys : Arch!AluResult(i, r, sys) = AluResult(i, r, sys)
BY SameAlu DEF AluResult, Arch!AluResult, t_flag, Arch!t_flag, q_flag, Arch!q_flag, m_flag,
   Arch!m_flag

\* What it leaves in the registers.
LEMMA SameRegisters ==
    ASSUME NEW i, NEW r, NEW sys
    PROVE  /\ Arch!AluRegs(i, r, sys) = AluRegs(i, r, sys)
           /\ Arch!AluSys(i, r, sys) = AluSys(i, r, sys)
<1> DEFINE out == AluResult(i, r, sys)
           flags == WithFlags(sys["SR"], out)
<1>1. AluSys(i, r, sys) = [sys EXCEPT !["SR"] = flags, !["MACH"] = out.MACH, !["MACL"] = out.MACL]
  BY DEF AluSys
<1>2. Arch!AluResult(i, r, sys) = out
  BY SameAluResult
<1>3. Arch!WithFlags(sys["SR"], out) = flags
  BY DEF WithFlags, Arch!WithFlags, t_flag, Arch!t_flag, q_flag, Arch!q_flag, m_flag, Arch!m_flag
<1> HIDE DEF out, flags
<1>4. Arch!AluSys(i, r, sys) =
        [sys EXCEPT !["SR"] = flags, !["MACH"] = out.MACH, !["MACL"] = out.MACL]
  BY <1>2, <1>3 DEF Arch!AluSys
<1>5. Arch!AluRegs(i, r, sys) = AluRegs(i, r, sys)
  BY SameAluResult DEF AluRegs, Arch!AluRegs
<1> QED BY <1>1, <1>4, <1>5

\* Words, options and the sorts of instructions.
LEMMA SameSorts ==
    /\ \A a, b : Arch!u32_add(a, b) = u32_add(a, b) /\ Arch!u32_sub(a, b) = u32_sub(a, b)
    /\ Arch!None = None /\ \A v : Arch!Some(v) = Some(v) /\ Arch!value_of(v) = value_of(v)
    /\ Arch!AluOps = AluOps /\ Arch!RmwOps = RmwOps /\ Arch!DelayedBranches = DelayedBranches
    /\ Arch!SysRegs = SysRegs
BY DEF u32_add, Arch!u32_add, u32_sub, Arch!u32_sub, WordMod, Arch!WordMod, None, Arch!None,
   Some, Arch!Some, value_of, Arch!value_of, AluOps, Arch!AluOps, Comparisons,
   Arch!Comparisons, Shifts, Arch!Shifts, RmwOps, Arch!RmwOps, DelayedBranches,
   Arch!DelayedBranches, SysRegs, Arch!SysRegs

\* Memory.
LEMMA SameMemory ==
    ASSUME NEW m, NEW a, NEW size, NEW v
    PROVE  /\ Arch!ReadMem(m, a, size) = ReadMem(m, a, size)
           /\ Arch!WriteMem(m, a, size, v) = WriteMem(m, a, size, v)
           /\ Arch!Extended(v, size) = Extended(v, size)
<1>1. \A b : Arch!to_phys(b) = to_phys(b)
  BY DEF to_phys, Arch!to_phys
<1>2. \A b : Arch!access_in_range(m, b, size) <=> access_in_range(m, b, size)
  BY DEF access_in_range, Arch!access_in_range
<1>3. \A s, i : Arch!ByteOf(v, s, i) = ByteOf(v, s, i)
  BY DEF ByteOf, Arch!ByteOf, ShiftedBy, Arch!ShiftedBy, ByteBits, Arch!ByteBits
<1>4. \A b : Arch!Overwrite(m, b, size, v) = Overwrite(m, b, size, v)
  <2> TAKE b
  <2> DEFINE x(s, i) == ByteOf(v, s, i)
             written == CASE size = 1 -> [m EXCEPT ![b] = x(1, 0)]
                          [] size = 2 -> [m EXCEPT ![b] = x(2, 0), ![b + 1] = x(2, 1)]
                          [] size = 4 -> [m EXCEPT ![b] = x(4, 0), ![b + 1] = x(4, 1),
                                                   ![b + 2] = x(4, 2), ![b + 3] = x(4, 3)]
  <2>1. /\ Arch!ByteOf(v, 1, 0) = x(1, 0) /\ Arch!ByteOf(v, 2, 0) = x(2, 0)
        /\ Arch!ByteOf(v, 2, 1) = x(2, 1) /\ Arch!ByteOf(v, 4, 0) = x(4, 0)
        /\ Arch!ByteOf(v, 4, 1) = x(4, 1) /\ Arch!ByteOf(v, 4, 2) = x(4, 2)
        /\ Arch!ByteOf(v, 4, 3) = x(4, 3)
    BY <1>3
  <2>2. Overwrite(m, b, size, v) = written
    BY Zenon DEF Overwrite
  <2> HIDE DEF x
  <2>3. Arch!Overwrite(m, b, size, v) = written
    BY <2>1, Zenon DEF Arch!Overwrite
  <2> QED BY <2>2, <2>3, Zenon
<1>5. \A b : Arch!Assemble(m, b, size) = Assemble(m, b, size)
  BY DEF Assemble, Arch!Assemble, ByteBits, Arch!ByteBits
<1>6. Arch!Extended(v, size) = Extended(v, size)
  BY DEF Extended, Arch!Extended, sext, Arch!sext, low, Arch!low, WordMod, Arch!WordMod,
     ByteBits, Arch!ByteBits
<1> QED BY <1>1, <1>2, <1>4, <1>5, <1>6 DEF ReadMem, Arch!ReadMem, WriteMem, Arch!WriteMem,
        read, Arch!read, write, Arch!write

\* Operands, addresses and branches.
LEMMA SameOperands ==
    ASSUME NEW i, NEW b, NEW pc, NEW r, NEW sys, NEW o, NEW v, NEW w
    PROVE  /\ Arch!pc_base(pc, v) = pc_base(pc, v)
           /\ Arch!Address(i, b, pc, r, sys) = Address(i, b, pc, r, sys)
           /\ Arch!RmwResult(o, v, w) = RmwResult(o, v, w)
           /\ Arch!BranchTaken(i, v) = BranchTaken(i, v)
           /\ Arch!Target(i, pc, r, sys) = Target(i, pc, r, sys)
           /\ Arch!Links(i) <=> Links(i)
<1>1. \A u : Arch!pc_base(pc, u) = pc_base(pc, u)
  BY SameSorts DEF pc_base, Arch!pc_base
<1>2. Arch!Address(i, b, pc, r, sys) = Address(i, b, pc, r, sys)
  BY <1>1, SameSorts DEF Address, Arch!Address
<1>3. Arch!RmwResult(o, v, w) = RmwResult(o, v, w)
  BY DEF RmwResult, Arch!RmwResult, And, Arch!And, Xor, Arch!Xor, Or, Arch!Or, word, Arch!word,
     bits, Arch!bits, SymmetricDifference, Arch!SymmetricDifference, MapThenSumSet,
     Arch!MapThenSumSet, MapThenFoldSet, Arch!MapThenFoldSet
<1>4. Arch!BranchTaken(i, v) = BranchTaken(i, v)
  BY DEF BranchTaken, Arch!BranchTaken, t_flag, Arch!t_flag
<1>5. Arch!Target(i, pc, r, sys) = Target(i, pc, r, sys)
  BY SameSorts DEF Target, Arch!Target
<1>6. Arch!Links(i) <=> Links(i)
  BY DEF Links, Arch!Links
<1> QED BY <1>1, <1>2, <1>3, <1>4, <1>5, <1>6

\* The instruction at an address.
LEMMA SameInstr == \A program, pc : Arch!InstrAt(program, pc) = InstrAt(program, pc)
BY DEF InstrAt, Arch!InstrAt, to_phys, Arch!to_phys, IllegalInstr, Arch!IllegalInstr

\* Physical and virtual addresses lead to the same byte.
LEMMA MemPhys ==
    ASSUME NEW m, NEW a \in Int, NEW size, NEW v
    PROVE  /\ ReadMem(m, to_phys(a), size) = ReadMem(m, a, size)
           /\ WriteMem(m, to_phys(a), size, v) = WriteMem(m, a, size, v)
BY PhysAgain DEF ReadMem, WriteMem

-----------------------------------------------------------------------------
(* What the core and the memory are once the pending accesses are done *)

At(c, m) == [core |-> c, mem |-> m]
After(c, m) == Settle(Settle(Settle(Settle(At(c, m)))))

Kind(c) == c.pending_mem_op.kind
Answered(c, m) ==
    apply_pending(c, ReadMem(m, c.pending_mem_op.phys_addr, c.pending_mem_op.size))

\* d has the fields of c, but for the given ones
Agree(c, d, fields) == IsCore(d) /\ \A f \in CoreFields \ fields : d[f] = c[f]

\* Settled is the fourth of the stages.
LEMMA SettledIs == Settled = After(core, mem)
<1>1. \A s : Settles({s}) = {Settle(s)}
  BY DEF Settles
<1>2. PICK x : x = At(core, mem)
  OBVIOUS
<1>3. Settles(Settles(Settles(Settles({x})))) = {Settle(Settle(Settle(Settle(x))))}
  BY <1>1
<1>4. \A y : (CHOOSE s \in {y} : TRUE) = y
  OBVIOUS
<1>5. Settled = CHOOSE s \in Settles(Settles(Settles(Settles({x})))) : TRUE
  BY <1>2 DEF Settled, At
<1> QED BY <1>2, <1>3, <1>4, <1>5 DEF After

\* The same in the next state.
LEMMA SettledNext == Settled' = After(core', mem')
<1>1. \A s : Settles({s}) = {Settle(s)}
  BY DEF Settles
<1>2. PICK x : x = At(core', mem')
  OBVIOUS
<1>3. Settles(Settles(Settles(Settles({x})))) = {Settle(Settle(Settle(Settle(x))))}
  BY <1>1
<1>4. \A y : (CHOOSE s \in {y} : TRUE) = y
  OBVIOUS
<1>5. Settled' = CHOOSE s \in Settles(Settles(Settles(Settles({x})))) : TRUE
  BY <1>2 DEF Settled, At
<1> QED BY <1>2, <1>3, <1>4, <1>5 DEF After

\* A stage answers the pending access, if there is one.
LEMMA SettleIs ==
    ASSUME NEW c, NEW m
    PROVE  /\ ~Waiting(c) => Settle(At(c, m)) = At(c, m)
           /\ Waiting(c) => Settle(At(c, m)) = At(Answered(c, m), Commit(m, data_op(c)))
           /\ At(c, m).core = c /\ At(c, m).mem = m
BY DEF Settle, At, Answered

\* Nothing is pending: nothing changes.
LEMMA AfterRest ==
    ASSUME NEW c, NEW m, ~Waiting(c)
    PROVE  After(c, m) = At(c, m)
BY SettleIs DEF After

\* A push changes Rn and the pending access.
LEMMA PushAgrees ==
    ASSUME NEW c, IsCore(c), NEW n, NEW kind, NEW v, NEW top, top = u32_sub(c.r[n], 4)
    PROVE  LET d == PushTo(c, n, kind, v)
           IN  /\ Agree(c, d, {"r", "pending_mem_op"})
               /\ d.r = [c.r EXCEPT ![n] = top]
               /\ d.pending_mem_op = MemOp(kind, to_phys(top), v)
<1>1. PICK o : o = MemOp(kind, to_phys(top), v)
  OBVIOUS
<1>2. PushTo(c, n, kind, v) = [c EXCEPT !.r[n] = top, !.pending_mem_op = o]
  BY <1>1 DEF PushTo
<1> QED BY <1>1, <1>2 DEF Agree, IsCore, CoreFields

\* Waiting for an access changes the pending access.
LEMMA AwaitAgrees ==
    ASSUME NEW c, IsCore(c), NEW o
    PROVE  Agree(c, Await(c, o), {"pending_mem_op"}) /\ Await(c, o).pending_mem_op = o
BY DEF Agree, IsCore, CoreFields, Await

\* Agreement is transitive.
LEMMA AgreeTwice ==
    ASSUME NEW c, NEW d, NEW e, NEW F, NEW G, Agree(c, d, F), Agree(d, e, G)
    PROVE  Agree(c, e, F \cup G)
BY DEF Agree

\* The fields that the answers to accesses speak of.
LEMMA AgreeFields ==
    ASSUME NEW c, NEW d, NEW F, Agree(c, d, F)
    PROVE  /\ IsCore(d)
           /\ "pc" \notin F => d.pc = c.pc
           /\ "r" \notin F => d.r = c.r
           /\ "sys" \notin F => d.sys = c.sys
           /\ "icache" \notin F => d.icache = c.icache
           /\ "pending_mem_op" \notin F => d.pending_mem_op = c.pending_mem_op
           /\ "pending_branch_target" \notin F => d.pending_branch_target = c.pending_branch_target
           /\ "pending_exception_vector" \notin F =>
                 d.pending_exception_vector = c.pending_exception_vector
           /\ "has_exception_return_context" \notin F =>
                 d.has_exception_return_context = c.has_exception_return_context
           /\ "pending_new_pc" \notin F => d.pending_new_pc = c.pending_new_pc
           /\ "pending_new_sr" \notin F => d.pending_new_sr = c.pending_new_sr
           /\ "pending_rte_restore" \notin F => d.pending_rte_restore = c.pending_rte_restore
           /\ "pending_trapa_imm" \notin F => d.pending_trapa_imm = c.pending_trapa_imm
BY DEF Agree, CoreFields

\* The answer takes the access away first.
LEMMA ClearedAgrees ==
    ASSUME NEW b, IsCore(b), NEW c, c = [b EXCEPT !.pending_mem_op = NoOp]
    PROVE  /\ Agree(b, c, {"pending_mem_op"}) /\ c.pending_mem_op = NoOp
           /\ NoOp.kind = "None"
BY DEF Agree, IsCore, CoreFields, NoOp, MemOp, Access

\* SR is on the stack: push pc (ExceptionPushSr, TrapaPushSr).
LEMMA ApplyPushSr ==
    ASSUME NEW b, IsCore(b), Kind(b) \in {"ExceptionPushSr", "TrapaPushSr"}, NEW v,
           NEW top, top = u32_sub(b.r[15], 4)
    PROVE  LET d == apply_pending(b, v)
           IN  /\ Agree(b, d, {"r", "pending_mem_op"})
               /\ d.r = [b.r EXCEPT ![15] = top]
               /\ d.pending_mem_op.phys_addr = to_phys(top) /\ d.pending_mem_op.size = 4
               /\ Kind(b) = "ExceptionPushSr" =>
                     /\ Kind(d) = "ExceptionPushPc" /\ d.pending_mem_op.value = b.pc
                     /\ d.pending_mem_op.aux = b.pending_mem_op.aux
               /\ Kind(b) = "TrapaPushSr" =>
                     Kind(d) = "TrapaPushPc" /\ d.pending_mem_op.value = u32_add(b.pc, 2)
<1> DEFINE p == b.pending_mem_op
           c == [b EXCEPT !.pending_mem_op = NoOp]
<1>1. {RmwReads[o] : o \in RmwOps} = {"RmwAndByteRead", "RmwXorByteRead", "RmwOrByteRead"}
  BY DEF RmwReads, RmwOps
<1>2. /\ Agree(b, c, {"pending_mem_op"}) /\ IsCore(c) /\ c.r = b.r /\ c.pc = b.pc
  BY ClearedAgrees, AgreeFields
<1>3. CASE Kind(b) = "ExceptionPushSr"
  <2>1. PICK e : e = PushTo(c, 15, "ExceptionPushPc", c.pc)
    OBVIOUS
  <2>2. apply_pending(b, v) = [e EXCEPT !.pending_mem_op.aux = p.aux]
    BY <1>1, <1>3, <2>1 DEF apply_pending, Kind
  <2> HIDE DEF c, p
  <2>3. /\ Agree(c, e, {"r", "pending_mem_op"}) /\ e.r = [c.r EXCEPT ![15] = top]
        /\ e.pending_mem_op = MemOp("ExceptionPushPc", to_phys(top), b.pc)
    BY <1>2, <2>1, PushAgrees
  <2>4. PICK o : o = [e.pending_mem_op EXCEPT !.aux = p.aux]
    OBVIOUS
  <2>5. apply_pending(b, v) = [e EXCEPT !.pending_mem_op = o]
    BY <2>2, <2>4
  <2>6. PICK d : d = [e EXCEPT !.pending_mem_op = o]
    OBVIOUS
  <2>7. Agree(e, d, {"pending_mem_op"}) /\ d.pending_mem_op = o /\ d.r = e.r
    BY <2>3, <2>6 DEF Agree, IsCore, CoreFields
  <2>8. Agree(b, d, {"r", "pending_mem_op"})
    BY <1>2, <2>3, <2>7 DEF Agree
  <2>9. /\ o.kind = "ExceptionPushPc" /\ o.phys_addr = to_phys(top) /\ o.size = 4
        /\ o.value = b.pc /\ o.aux = p.aux
    BY <2>3, <2>4 DEF MemOp, Access
  <2> QED BY <1>2, <1>3, <2>3, <2>5, <2>6, <2>7, <2>8, <2>9 DEF p, Kind
<1>4. CASE Kind(b) = "TrapaPushSr"
  <2>1. PICK e : e = PushTo(c, 15, "TrapaPushPc", u32_add(c.pc, 2))
    OBVIOUS
  <2>2. apply_pending(b, v) = e
    BY <1>1, <1>4, <2>1 DEF apply_pending, Kind
  <2> HIDE DEF c
  <2>3. /\ Agree(c, e, {"r", "pending_mem_op"}) /\ e.r = [c.r EXCEPT ![15] = top]
        /\ e.pending_mem_op = MemOp("TrapaPushPc", to_phys(top), u32_add(b.pc, 2))
    BY <1>2, <2>1, PushAgrees
  <2>4. Agree(b, e, {"r", "pending_mem_op"})
    BY <1>2, <2>3 DEF Agree
  <2>5. /\ Kind(e) = "TrapaPushPc" /\ e.pending_mem_op.phys_addr = to_phys(top)
        /\ e.pending_mem_op.size = 4 /\ e.pending_mem_op.value = u32_add(b.pc, 2)
    BY <2>3 DEF MemOp, Access, Kind
  <2> QED BY <1>2, <1>4, <2>2, <2>3, <2>4, <2>5
<1> QED BY <1>3, <1>4

\* Both are on the stack: read the vector (ExceptionPushPc, TrapaPushPc).
LEMMA ApplyPushPc ==
    ASSUME NEW b, IsCore(b), Kind(b) \in {"ExceptionPushPc", "TrapaPushPc"}, NEW v,
           NEW vector,
           vector = IF Kind(b) = "ExceptionPushPc" THEN b.pending_mem_op.aux
                                                  ELSE value_of(b.pending_trapa_imm)
    PROVE  LET d == apply_pending(b, v)
               kind == IF Kind(b) = "ExceptionPushPc" THEN "ExceptionVectorRead"
                                                      ELSE "TrapaVectorRead"
           IN  /\ Agree(b, d, {"pending_mem_op"})
               /\ d.pending_mem_op = MemOp(kind, to_phys(u32_add(b.sys["VBR"], 4 * vector)), 0)
<1> DEFINE c == [b EXCEPT !.pending_mem_op = NoOp]
           kind == IF Kind(b) = "ExceptionPushPc" THEN "ExceptionVectorRead" ELSE "TrapaVectorRead"
<1>1. {RmwReads[o] : o \in RmwOps} = {"RmwAndByteRead", "RmwXorByteRead", "RmwOrByteRead"}
  BY DEF RmwReads, RmwOps
<1>2. /\ Agree(b, c, {"pending_mem_op"}) /\ IsCore(c) /\ c.sys = b.sys
      /\ c.pending_trapa_imm = b.pending_trapa_imm
  BY ClearedAgrees, AgreeFields
<1>3. PICK o : o = MemOp(kind, to_phys(u32_add(b.sys["VBR"], 4 * vector)), 0)
  OBVIOUS
<1>4. apply_pending(b, v) = ReadVector(c, kind, vector)
  BY <1>1, <1>2 DEF apply_pending, Kind
<1> HIDE DEF c, kind
<1>5. apply_pending(b, v) = Await(c, o)
  BY <1>2, <1>3, <1>4 DEF ReadVector
<1>6. Agree(b, Await(c, o), {"pending_mem_op"}) /\ Await(c, o).pending_mem_op = o
  BY <1>2, AwaitAgrees DEF Agree
<1> QED BY <1>3, <1>5, <1>6 DEF kind

\* The vector has been read: enter the handler.
LEMMA ApplyVector ==
    ASSUME NEW b, IsCore(b), Kind(b) \in {"ExceptionVectorRead", "TrapaVectorRead"}, NEW v
    PROVE  LET d == apply_pending(b, v)
           IN  /\ Agree(b, d, {"pc", "has_exception_return_context", "pending_mem_op",
                               "pending_trapa_imm"})
               /\ d.pc = v /\ d.has_exception_return_context = TRUE /\ Kind(d) = "None"
<1> DEFINE c == [b EXCEPT !.pending_mem_op = NoOp]
<1>1. {RmwReads[o] : o \in RmwOps} = {"RmwAndByteRead", "RmwXorByteRead", "RmwOrByteRead"}
  BY DEF RmwReads, RmwOps
<1>2. Agree(b, c, {"pending_mem_op"}) /\ IsCore(c) /\ c.pending_mem_op.kind = "None"
  BY ClearedAgrees, AgreeFields
<1>3. PICK e : e = [c EXCEPT !.pc = v, !.has_exception_return_context = TRUE]
  OBVIOUS
<1>4. \/ apply_pending(b, v) = e
      \/ apply_pending(b, v) = [e EXCEPT !.pending_trapa_imm = None]
  BY <1>1, <1>3 DEF apply_pending, Kind, EnterHandler
<1> HIDE DEF c
<1>5. /\ Agree(c, e, {"pc", "has_exception_return_context"})
      /\ e.pc = v /\ e.has_exception_return_context = TRUE /\ Kind(e) = "None"
  BY <1>2, <1>3 DEF Agree, IsCore, CoreFields, Kind
<1>6. PICK d : d = [e EXCEPT !.pending_trapa_imm = None]
  OBVIOUS
<1>7. /\ Agree(e, d, {"pending_trapa_imm"})
      /\ d.pc = v /\ d.has_exception_return_context = TRUE /\ Kind(d) = "None"
  BY <1>5, <1>6 DEF Agree, IsCore, CoreFields, Kind
<1>8. /\ Agree(b, e, {"pc", "has_exception_return_context", "pending_mem_op",
                      "pending_trapa_imm"})
      /\ Agree(b, d, {"pc", "has_exception_return_context", "pending_mem_op",
                      "pending_trapa_imm"})
  BY <1>2, <1>5, <1>7 DEF Agree
<1> QED BY <1>4, <1>5, <1>6, <1>7, <1>8

\* The return address is popped: pop SR (RtePopPc).
LEMMA ApplyPopPc ==
    ASSUME NEW b, IsCore(b), Kind(b) = "RtePopPc", NEW v
    PROVE  LET d == apply_pending(b, v)
           IN  /\ Agree(b, d, {"r", "pending_new_pc", "pending_mem_op"})
               /\ d.r = [b.r EXCEPT ![15] = u32_add(b.r[15], 4)] /\ d.pending_new_pc = v
               /\ d.pending_mem_op = MemOp("RtePopSr", to_phys(d.r[15]), 0)
<1> DEFINE c == [b EXCEPT !.pending_mem_op = NoOp]
<1>1. {RmwReads[o] : o \in RmwOps} = {"RmwAndByteRead", "RmwXorByteRead", "RmwOrByteRead"}
  BY DEF RmwReads, RmwOps
<1>2. Agree(b, c, {"pending_mem_op"}) /\ IsCore(c) /\ c.r = b.r
  BY ClearedAgrees, AgreeFields
<1>3. PICK e : e = [c EXCEPT !.pending_new_pc = v, !.r[15] = u32_add(@, 4)]
  OBVIOUS
<1>4. PICK o : o = MemOp("RtePopSr", to_phys(e.r[15]), 0)
  OBVIOUS
<1>5. apply_pending(b, v) = Await(e, o)
  BY <1>1, <1>3, <1>4 DEF apply_pending, Kind
<1> HIDE DEF c
<1>0. PICK r : r = [b.r EXCEPT ![15] = u32_add(b.r[15], 4)]
  OBVIOUS
<1>6. Agree(c, e, {"r", "pending_new_pc"}) /\ e.r = r /\ e.pending_new_pc = v
  BY <1>0, <1>2, <1>3 DEF Agree, IsCore, CoreFields
<1>7. PICK d : d = Await(e, o)
  OBVIOUS
<1>8. Agree(e, d, {"pending_mem_op"}) /\ d.pending_mem_op = o
  BY <1>6, <1>7, AwaitAgrees DEF Agree
<1>9. /\ Agree(b, d, {"r", "pending_new_pc", "pending_mem_op"})
      /\ d.r = r /\ d.pending_new_pc = v
  <2>1. Agree(b, d, {"r", "pending_new_pc", "pending_mem_op"})
    BY <1>2, <1>6, <1>8 DEF Agree
  <2>2. d.r = e.r /\ d.pending_new_pc = e.pending_new_pc
    BY <1>8, AgreeFields
  <2> QED BY <1>6, <2>1, <2>2
<1> QED BY <1>0, <1>4, <1>5, <1>6, <1>7, <1>8, <1>9

\* SR is popped: the return happens behind the delay slot (RtePopSr).
LEMMA ApplyPopSr ==
    ASSUME NEW b, IsCore(b), Kind(b) = "RtePopSr", NEW v
    PROVE  LET d == apply_pending(b, v)
           IN  /\ Agree(b, d, {"r", "pending_new_sr", "pending_rte_restore", "pending_mem_op",
                               "pending_branch_target", "has_exception_return_context"})
               /\ d.r = [b.r EXCEPT ![15] = u32_add(b.r[15], 4)]
               /\ d.pending_new_sr = v /\ d.pending_rte_restore = TRUE
               /\ d.pending_branch_target = Some(b.pending_new_pc)
               /\ d.has_exception_return_context = FALSE /\ Kind(d) = "None"
<1> DEFINE c == [b EXCEPT !.pending_mem_op = NoOp]
<1>1. {RmwReads[o] : o \in RmwOps} = {"RmwAndByteRead", "RmwXorByteRead", "RmwOrByteRead"}
  BY DEF RmwReads, RmwOps
<1>2. /\ Agree(b, c, {"pending_mem_op"}) /\ IsCore(c) /\ c.r = b.r
      /\ c.pending_mem_op.kind = "None" /\ c.pending_new_pc = b.pending_new_pc
  BY ClearedAgrees, AgreeFields
<1>3. PICK t : t = Some(c.pending_new_pc)
  OBVIOUS
<1>4. PICK d : d = [c EXCEPT !.pending_new_sr = v, !.r[15] = u32_add(@, 4),
                             !.pending_rte_restore = TRUE, !.pending_branch_target = t,
                             !.has_exception_return_context = FALSE]
  OBVIOUS
<1>5. apply_pending(b, v) = d
  BY <1>1, <1>3, <1>4 DEF apply_pending, Kind
<1> HIDE DEF c
<1>6. /\ Agree(c, d, {"r", "pending_new_sr", "pending_rte_restore",
                      "pending_branch_target", "has_exception_return_context"})
      /\ d.r = [c.r EXCEPT ![15] = u32_add(c.r[15], 4)]
      /\ d.pending_new_sr = v /\ d.pending_rte_restore = TRUE
      /\ d.pending_branch_target = t
      /\ d.has_exception_return_context = FALSE /\ Kind(d) = "None"
  BY <1>2, <1>4 DEF Agree, IsCore, CoreFields, Kind
<1>7. Agree(b, d, {"r", "pending_new_sr", "pending_rte_restore", "pending_mem_op",
                   "pending_branch_target", "has_exception_return_context"})
  BY <1>2, <1>6 DEF Agree
<1> QED BY <1>2, <1>3, <1>5, <1>6, <1>7

\* The byte has been read: write it back (the reads of AND.B, XOR.B and OR.B).
LEMMA ApplyRmw ==
    ASSUME NEW b, IsCore(b), NEW o \in RmwOps, Kind(b) = RmwReads[o], NEW v
    PROVE  LET d == apply_pending(b, v)
               p == b.pending_mem_op
           IN  /\ Agree(b, d, {"pending_mem_op"})
               /\ d.pending_mem_op = Access("RmwWriteByte", p.phys_addr, 1,
                                            RmwResult(o, Truncated(v, 1), p.aux))
<1> DEFINE c == [b EXCEPT !.pending_mem_op = NoOp]
           p == b.pending_mem_op
<1>1. /\ Kind(b) \in {"RmwAndByteRead", "RmwXorByteRead", "RmwOrByteRead"}
      /\ Kind(b) \in {RmwReads[x] : x \in RmwOps} /\ RmwOp(Kind(b)) = o
  <2>1. \A x \in RmwOps : RmwReads[x] = RmwReads[o] => x = o
    BY DEF RmwReads, RmwOps
  <2>2. RmwOp(RmwReads[o]) = o
    BY <2>1 DEF RmwOp
  <2> QED BY <2>2 DEF RmwReads, RmwOps
<1>2. Agree(b, c, {"pending_mem_op"}) /\ IsCore(c)
  BY ClearedAgrees, AgreeFields
<1>3. PICK w : w = Access("RmwWriteByte", p.phys_addr, 1, RmwResult(o, Truncated(v, 1), p.aux))
  OBVIOUS
<1>4. apply_pending(b, v) = Await(c, w)
  BY <1>1, <1>3 DEF apply_pending, Kind
<1> HIDE DEF c
<1>5. Agree(b, Await(c, w), {"pending_mem_op"}) /\ Await(c, w).pending_mem_op = w
  BY <1>2, AwaitAgrees DEF Agree
<1> QED BY <1>3, <1>4, <1>5

-----------------------------------------------------------------------------
(* The end of an instruction, in a delay slot or not *)

EmptySlot == [target |-> None, sr |-> None]

\* SR is restored only behind a delay slot
SlotOK(c) ==
    /\ c.pending_rte_restore \in BOOLEAN
    /\ c.pending_rte_restore => c.pending_branch_target # None

\* d is c after an instruction that leads to next, to the slot taken and to sys,
\* unless it was itself in a delay slot: Leave and LeaveSys of Sh2Isa
Left(c, d, next, taken, sys) ==
    /\ d.pc = IF SlotOf(c) = EmptySlot THEN next ELSE value_of(SlotOf(c).target)
    /\ SlotOf(d) = IF SlotOf(c) = EmptySlot THEN taken ELSE EmptySlot
    /\ d.sys = IF SlotOf(c).sr = None THEN sys
                                      ELSE [sys EXCEPT !["SR"] = value_of(SlotOf(c).sr)]

\* What a slot says of the pending branch.
LEMMA SlotFacts ==
    ASSUME NEW c, SlotOK(c)
    PROVE  /\ SlotOf(c).target = c.pending_branch_target
           /\ SlotOf(c) = EmptySlot <=> c.pending_branch_target = None
           /\ SlotOf(c).sr = None <=> ~c.pending_rte_restore
           /\ c.pending_rte_restore => value_of(SlotOf(c).sr) = c.pending_new_sr
<1>1. \A v : Some(v) # None /\ value_of(Some(v)) = v
  BY DEF Some, None, value_of
<1>2. SlotOf(c).target = c.pending_branch_target
  BY DEF SlotOf
<1>3. SlotOf(c).sr = IF c.pending_rte_restore THEN Some(c.pending_new_sr) ELSE None
  BY DEF SlotOf
<1>4. CASE c.pending_branch_target = None
  <2>1. ~c.pending_rte_restore
    BY <1>4 DEF SlotOK
  <2>2. SlotOf(c) = EmptySlot
    BY <1>4, <2>1 DEF SlotOf, EmptySlot
  <2> QED BY <1>2, <1>3, <1>4, <2>1, <2>2
<1>5. CASE c.pending_branch_target # None
  <2>1. SlotOf(c) # EmptySlot
    BY <1>2, <1>5 DEF EmptySlot
  <2> QED BY <1>1, <1>2, <1>3, <1>5, <2>1 DEF SlotOK
<1> QED BY <1>4, <1>5

\* Restoring SR.
LEMMA RestoreAgrees ==
    ASSUME NEW c, IsCore(c), c.pending_rte_restore \in BOOLEAN
    PROVE  LET d == RestoreSr(c)
           IN  /\ Agree(c, d, {"sys", "pending_rte_restore"}) /\ d.pending_rte_restore = FALSE
               /\ d.sys = IF c.pending_rte_restore
                            THEN [c.sys EXCEPT !["SR"] = c.pending_new_sr] ELSE c.sys
<1>1. CASE c.pending_rte_restore
  <2>1. PICK d : d = [c EXCEPT !.sys["SR"] = c.pending_new_sr, !.pending_rte_restore = FALSE]
    OBVIOUS
  <2>2. RestoreSr(c) = d
    BY <1>1, <2>1 DEF RestoreSr
  <2>3. /\ Agree(c, d, {"sys", "pending_rte_restore"}) /\ d.pending_rte_restore = FALSE
        /\ d.sys = [c.sys EXCEPT !["SR"] = c.pending_new_sr]
    BY <2>1 DEF Agree, IsCore, CoreFields
  <2> QED BY <1>1, <2>2, <2>3
<1>2. CASE ~c.pending_rte_restore
  <2>1. RestoreSr(c) = c /\ c.pending_rte_restore = FALSE
    BY <1>2, Zenon DEF RestoreSr
  <2>2. Agree(c, c, {"sys", "pending_rte_restore"})
    BY DEF Agree
  <2> QED BY <1>2, <2>1, <2>2
<1> QED BY <1>1, <1>2

\* A memory instruction is complete (the end of apply_ifetch_and_step).
LEMMA RetireLeaves ==
    ASSUME NEW c, IsCore(c), SlotOK(c)
    PROVE  /\ Left(c, Retire(c), u32_add(c.pc, 2), EmptySlot, c.sys)
           /\ Agree(c, Retire(c), {"pc", "sys", "pending_branch_target", "pending_rte_restore"})
           /\ SlotOK(Retire(c))
<1>1. CASE c.pending_branch_target = None
  <2>1. PICK d : d = [c EXCEPT !.pc = u32_add(c.pc, 2)]
    OBVIOUS
  <2>2. Retire(c) = d
    BY <1>1, <2>1 DEF Retire, Advance
  <2>3. Agree(c, d, {"pc"}) /\ d.pc = u32_add(c.pc, 2)
    BY <2>1 DEF Agree, IsCore, CoreFields
  <2>4. /\ d.sys = c.sys /\ d.pending_branch_target = c.pending_branch_target
        /\ d.pending_rte_restore = c.pending_rte_restore /\ d.pending_new_sr = c.pending_new_sr
    BY <2>3, AgreeFields
  <2>5. SlotOf(d) = SlotOf(c)
    BY <2>4 DEF SlotOf
  <2>6. SlotOf(c) = EmptySlot /\ SlotOf(c).sr = None
    BY <1>1, SlotFacts DEF SlotOK
  <2>7. Agree(c, d, {"pc", "sys", "pending_branch_target", "pending_rte_restore"})
    BY <2>3 DEF Agree
  <2>8. SlotOK(d)
    BY <2>4, Zenon DEF SlotOK
  <2> QED BY <2>2, <2>3, <2>4, <2>5, <2>6, <2>7, <2>8 DEF Left
<1>2. CASE c.pending_branch_target # None
  <2>1. PICK e : e = RestoreSr(c)
    OBVIOUS
  <2>2. PICK t : t = value_of(c.pending_branch_target)
    OBVIOUS
  <2>3. PICK d : d = [e EXCEPT !.pc = t, !.pending_branch_target = None]
    OBVIOUS
  <2>4. Retire(c) = d
    BY <1>2, <2>1, <2>2, <2>3 DEF Retire
  <2>5. /\ Agree(c, e, {"sys", "pending_rte_restore"}) /\ e.pending_rte_restore = FALSE
        /\ e.sys = IF c.pending_rte_restore
                     THEN [c.sys EXCEPT !["SR"] = c.pending_new_sr] ELSE c.sys
    BY <2>1, RestoreAgrees DEF SlotOK
  <2>6. /\ Agree(e, d, {"pc", "pending_branch_target"}) /\ d.pc = t
        /\ d.pending_branch_target = None
    BY <2>3, <2>5 DEF Agree, IsCore, CoreFields
  <2>7. Agree(c, d, {"pc", "sys", "pending_branch_target", "pending_rte_restore"})
    BY <2>5, <2>6 DEF Agree
  <2>8. d.pending_rte_restore = FALSE /\ d.sys = e.sys
    BY <2>5, <2>6, AgreeFields
  <2>9. SlotOf(d) = EmptySlot
    BY <2>6, <2>8 DEF SlotOf, EmptySlot
  <2>10. SlotOK(d)
    BY <2>8 DEF SlotOK
  <2>11. /\ SlotOf(c) # EmptySlot /\ value_of(SlotOf(c).target) = t
         /\ SlotOf(c).sr = None <=> ~c.pending_rte_restore
         /\ c.pending_rte_restore => value_of(SlotOf(c).sr) = c.pending_new_sr
    BY <1>2, <2>2, SlotFacts
  <2> QED BY <2>4, <2>5, <2>6, <2>7, <2>8, <2>9, <2>10, <2>11 DEF Left
<1> QED BY <1>1, <1>2

Reads == {"ReadByte", "ReadWord", "ReadLong"}
PlainKinds == Reads \cup {"WriteByte", "WriteWord", "WriteLong", "RmwWriteByte"}

\* Where the answer v goes
ToSys(p) == p.kind = "ReadLong" /\ p.load_to # "R"
LoadedSys(p, sys, v) == IF ToSys(p) THEN [sys EXCEPT ![p.load_to] = v] ELSE sys
LoadedReg(p, r, v) ==
    IF p.kind \in Reads /\ ~ToSys(p) THEN [r EXCEPT ![p.dst_reg] = Extended(v, p.size)] ELSE r
SteppedReg(p, r) ==
    IF p.post_inc_reg \in Regs \ {p.dst_reg}
      THEN [r EXCEPT ![p.post_inc_reg] = u32_add(r[p.post_inc_reg], p.size)] ELSE r

\* What an instruction may change
Registers == {"pc", "r", "sys", "pending_branch_target", "pending_rte_restore"}

\* The answer to the only or the last access of an instruction.
LEMMA ApplyPlain ==
    ASSUME NEW b, IsCore(b), SlotOK(b), Kind(b) \in PlainKinds, NEW v
    PROVE  LET d == apply_pending(b, v)
               p == b.pending_mem_op
           IN  /\ Agree(b, d, Registers \cup {"pending_mem_op"})
               /\ Left(b, d, u32_add(b.pc, 2), EmptySlot, LoadedSys(p, b.sys, v))
               /\ d.r = SteppedReg(p, LoadedReg(p, b.r, v))
               /\ SlotOK(d) /\ Kind(d) = "None"
<1> DEFINE c == [b EXCEPT !.pending_mem_op = NoOp]
<1>1. {RmwReads[o] : o \in RmwOps} = {"RmwAndByteRead", "RmwXorByteRead", "RmwOrByteRead"}
  BY DEF RmwReads, RmwOps
<1>2. Agree(b, c, {"pending_mem_op"}) /\ c.pending_mem_op = NoOp /\ NoOp.kind = "None"
  BY ClearedAgrees
<1>3. PICK p : p = b.pending_mem_op
  OBVIOUS
<1>4. apply_pending(b, v) = Retire(PostIncrement(Loaded(c, p, v), p))
  BY <1>1, <1>3 DEF apply_pending, Kind, PlainKinds, Reads
<1> HIDE DEF c
<1>5. /\ IsCore(c) /\ c.r = b.r /\ c.sys = b.sys /\ c.pc = b.pc
      /\ c.pending_branch_target = b.pending_branch_target
      /\ c.pending_rte_restore = b.pending_rte_restore /\ c.pending_new_sr = b.pending_new_sr
  BY <1>2, AgreeFields
<1>6. PICK e : e = Loaded(c, p, v)
  OBVIOUS
<1>7. /\ Agree(c, e, {"r", "sys"}) /\ e.r = LoadedReg(p, c.r, v) /\ e.sys = LoadedSys(p, c.sys, v)
  <2>0. Agree(c, c, {"r", "sys"})
    BY <1>5 DEF Agree
  <2>1. CASE p.kind \notin Reads
    <3>1. e = c /\ ~ToSys(p)
      BY <1>6, <2>1 DEF Loaded, Reads, ToSys
    <3> QED BY <2>0, <2>1, <3>1 DEF LoadedReg, LoadedSys
  <2>2. CASE p.kind \in Reads /\ ToSys(p)
    <3>1. e = [c EXCEPT !.sys[p.load_to] = v]
      BY <1>6, <2>2 DEF Loaded, Reads, ToSys
    <3>2. Agree(c, e, {"r", "sys"}) /\ e.r = c.r /\ e.sys = [c.sys EXCEPT ![p.load_to] = v]
      BY <1>5, <3>1 DEF Agree, IsCore, CoreFields
    <3> QED BY <2>2, <3>2 DEF LoadedReg, LoadedSys
  <2>3. CASE p.kind \in Reads /\ ~ToSys(p)
    <3>1. PICK x : x = Extended(v, p.size)
      OBVIOUS
    <3>2. e = [c EXCEPT !.r[p.dst_reg] = x]
      BY <1>6, <2>3, <3>1 DEF Loaded, Reads, ToSys
    <3>3. Agree(c, e, {"r", "sys"}) /\ e.sys = c.sys /\ e.r = [c.r EXCEPT ![p.dst_reg] = x]
      BY <1>5, <3>2 DEF Agree, IsCore, CoreFields
    <3> QED BY <2>3, <3>1, <3>3 DEF LoadedReg, LoadedSys
  <2> QED BY <2>1, <2>2, <2>3
<1>8. PICK g : g = PostIncrement(e, p)
  OBVIOUS
<1>9. Agree(e, g, {"r"}) /\ g.r = SteppedReg(p, e.r)
  <2>1. CASE p.post_inc_reg \in Regs \ {p.dst_reg}
    <3>1. PICK i, x : i = p.post_inc_reg /\ x = u32_add(e.r[i], p.size)
      OBVIOUS
    <3>2. g = [e EXCEPT !.r[i] = x]
      BY <1>8, <2>1, <3>1 DEF PostIncrement
    <3>3. Agree(e, g, {"r"}) /\ g.r = [e.r EXCEPT ![i] = x]
      BY <1>7, <3>2 DEF Agree, IsCore, CoreFields
    <3> QED BY <2>1, <3>1, <3>3 DEF SteppedReg
  <2>2. CASE p.post_inc_reg \notin Regs \ {p.dst_reg}
    BY <1>7, <1>8, <2>2 DEF PostIncrement, SteppedReg, Agree
  <2> QED BY <2>1, <2>2
<1>10. /\ IsCore(g) /\ g.sys = e.sys /\ g.pc = b.pc /\ g.pending_mem_op = NoOp
       /\ g.pending_branch_target = b.pending_branch_target
       /\ g.pending_rte_restore = b.pending_rte_restore /\ g.pending_new_sr = b.pending_new_sr
  <2>1. Agree(c, g, {"r", "sys"})
    BY <1>7, <1>9 DEF Agree
  <2>2. g.sys = e.sys
    BY <1>9, AgreeFields
  <2> QED BY <1>2, <1>5, <2>1, <2>2, AgreeFields
<1>11. SlotOf(g) = SlotOf(b) /\ SlotOK(g)
  <2>1. SlotOf(g) = SlotOf(b)
    BY <1>10 DEF SlotOf
  <2>2. SlotOK(g)
    BY <1>10, Zenon DEF SlotOK
  <2> QED BY <2>1, <2>2
<1>12. PICK d : d = Retire(g)
  OBVIOUS
<1>13. /\ Left(g, d, u32_add(g.pc, 2), EmptySlot, g.sys) /\ SlotOK(d)
       /\ Agree(g, d, {"pc", "sys", "pending_branch_target", "pending_rte_restore"})
  BY <1>10, <1>11, <1>12, RetireLeaves
<1>14. Left(b, d, u32_add(b.pc, 2), EmptySlot, LoadedSys(p, b.sys, v))
  BY <1>5, <1>7, <1>10, <1>11, <1>13 DEF Left
<1>15. d.r = g.r /\ d.pending_mem_op = NoOp
  BY <1>10, <1>13, AgreeFields
<1>16. Agree(b, d, Registers \cup {"pending_mem_op"})
  BY <1>2, <1>7, <1>9, <1>13 DEF Agree, Registers
<1>17. Kind(d) = "None"
  BY <1>2, <1>15 DEF Kind
<1> QED BY <1>3, <1>4, <1>5, <1>6, <1>7, <1>8, <1>9, <1>12, <1>13, <1>14, <1>15, <1>16, <1>17

-----------------------------------------------------------------------------
(* Chains of accesses *)

RmwReadKinds == {"RmwAndByteRead", "RmwXorByteRead", "RmwOrByteRead"}
EntryKinds == TrapaKinds \cup {"ExceptionPushSr", "ExceptionPushPc", "ExceptionVectorRead"}
AllKinds == {"None"} \cup PlainKinds \cup RmwReadKinds \cup EntryKinds \cup RteKinds

\* How many accesses an access begins
Chain(kind) ==
    CASE kind = "None" -> 0
      [] kind \in {"ExceptionPushSr", "TrapaPushSr"} -> 3
      [] kind \in {"ExceptionPushPc", "TrapaPushPc", "RtePopPc"} \cup RmwReadKinds -> 2
      [] OTHER -> 1

Sound(c) == IsCore(c) /\ SlotOK(c) /\ Kind(c) \in AllKinds

\* An answer shortens the chain and leaves a sound core.
LEMMA ApplyShortens ==
    ASSUME NEW b, Sound(b), Waiting(b), NEW v
    PROVE  /\ Sound(apply_pending(b, v))
           /\ Chain(Kind(apply_pending(b, v))) = Chain(Kind(b)) - 1
<1>1. PICK d : d = apply_pending(b, v)
  OBVIOUS
<1>2. IsCore(b) /\ SlotOK(b) /\ Kind(b) \in AllKinds \ {"None"}
  BY DEF Sound, Waiting, Kind
<1>3. ASSUME NEW F, Agree(b, d, F), F \cap {"pending_branch_target", "pending_rte_restore"} = {}
      PROVE  IsCore(d) /\ SlotOK(d)
  <2>1. /\ IsCore(d) /\ d.pending_branch_target = b.pending_branch_target
        /\ d.pending_rte_restore = b.pending_rte_restore
    BY <1>3, AgreeFields
  <2> QED BY <1>2, <2>1, Zenon DEF SlotOK
<1>4. CASE Kind(b) \in {"ExceptionPushSr", "TrapaPushSr"}
  <2>1. /\ Agree(b, d, {"r", "pending_mem_op"})
        /\ Kind(d) \in {"ExceptionPushPc", "TrapaPushPc"}
    BY <1>1, <1>2, <1>4, ApplyPushSr
  <2>2. IsCore(d) /\ SlotOK(d)
    BY <1>3, <2>1
  <2> QED BY <1>1, <1>4, <2>1, <2>2 DEF Sound, AllKinds, EntryKinds, TrapaKinds, Chain,
             RmwReadKinds
<1>5. CASE Kind(b) \in {"ExceptionPushPc", "TrapaPushPc"}
  <2>1. /\ Agree(b, d, {"pending_mem_op"})
        /\ Kind(d) \in {"ExceptionVectorRead", "TrapaVectorRead"}
    <3>1. PICK vector, kind :
            /\ vector = IF Kind(b) = "ExceptionPushPc" THEN b.pending_mem_op.aux
                                                       ELSE value_of(b.pending_trapa_imm)
            /\ kind = IF Kind(b) = "ExceptionPushPc" THEN "ExceptionVectorRead"
                                                     ELSE "TrapaVectorRead"
      OBVIOUS
    <3>2. /\ Agree(b, d, {"pending_mem_op"})
          /\ d.pending_mem_op = MemOp(kind, to_phys(u32_add(b.sys["VBR"], 4 * vector)), 0)
      BY <1>1, <1>2, <1>5, <3>1, ApplyPushPc, SMTT(40)
    <3> QED BY <3>1, <3>2 DEF Kind, MemOp, Access
  <2>2. IsCore(d) /\ SlotOK(d)
    BY <1>3, <2>1
  <2> QED BY <1>1, <1>5, <2>1, <2>2 DEF Sound, AllKinds, EntryKinds, TrapaKinds, Chain,
             RmwReadKinds
<1>6. CASE Kind(b) \in {"ExceptionVectorRead", "TrapaVectorRead"}
  <2>1. /\ Agree(b, d, {"pc", "has_exception_return_context", "pending_mem_op",
                        "pending_trapa_imm"})
        /\ Kind(d) = "None"
    BY <1>1, <1>2, <1>6, ApplyVector
  <2>2. IsCore(d) /\ SlotOK(d)
    BY <1>3, <2>1
  <2> QED BY <1>1, <1>6, <2>1, <2>2 DEF Sound, AllKinds, Chain, RmwReadKinds
<1>7. CASE Kind(b) = "RtePopPc"
  <2>1. Agree(b, d, {"r", "pending_new_pc", "pending_mem_op"}) /\ Kind(d) = "RtePopSr"
    <3>1. /\ Agree(b, d, {"r", "pending_new_pc", "pending_mem_op"})
          /\ d.pending_mem_op = MemOp("RtePopSr", to_phys(d.r[15]), 0)
      <4>1. LET f == apply_pending(b, v)
            IN  /\ Agree(b, f, {"r", "pending_new_pc", "pending_mem_op"})
                /\ f.pending_mem_op = MemOp("RtePopSr", to_phys(f.r[15]), 0)
        BY <1>2, <1>7, ApplyPopPc, Zenon
      <4> QED BY <1>1, <4>1
    <3> QED BY <3>1 DEF Kind, MemOp, Access
  <2>2. IsCore(d) /\ SlotOK(d)
    BY <1>3, <2>1
  <2> QED BY <1>1, <1>7, <2>1, <2>2 DEF Sound, AllKinds, RteKinds, Chain, RmwReadKinds
<1>8. CASE Kind(b) = "RtePopSr"
  <2>1. /\ IsCore(d) /\ d.pending_branch_target = Some(b.pending_new_pc)
        /\ d.pending_rte_restore = TRUE /\ Kind(d) = "None"
    BY <1>1, <1>2, <1>8, ApplyPopSr DEF Agree
  <2>2. SlotOK(d)
    <3>1. Some(b.pending_new_pc) # None
      BY DEF Some, None
    <3> QED BY <2>1, <3>1 DEF SlotOK
  <2> QED BY <1>1, <1>8, <2>1, <2>2 DEF Sound, AllKinds, Chain, RmwReadKinds
<1>9. CASE Kind(b) \in RmwReadKinds
  <2>1. PICK o \in RmwOps : Kind(b) = RmwReads[o]
    BY <1>9 DEF RmwReadKinds, RmwReads, RmwOps
  <2>2. Agree(b, d, {"pending_mem_op"}) /\ Kind(d) = "RmwWriteByte"
    <3>1. /\ Agree(b, d, {"pending_mem_op"})
          /\ d.pending_mem_op =
                Access("RmwWriteByte", b.pending_mem_op.phys_addr, 1,
                       RmwResult(o, Truncated(v, 1), b.pending_mem_op.aux))
      BY <1>1, <1>2, <2>1, ApplyRmw
    <3> QED BY <3>1 DEF Kind, Access
  <2>3. IsCore(d) /\ SlotOK(d)
    BY <1>3, <2>2
  <2> QED BY <1>1, <1>9, <2>2, <2>3 DEF Sound, AllKinds, PlainKinds, Chain, RmwReadKinds
<1>10. CASE Kind(b) \in PlainKinds
  <2>1. IsCore(d) /\ SlotOK(d) /\ Kind(d) = "None"
    BY <1>1, <1>2, <1>10, ApplyPlain DEF Agree
  <2> QED BY <1>1, <1>10, <2>1 DEF Sound, AllKinds, PlainKinds, Reads, Chain, RmwReadKinds
<1> QED BY <1>2, <1>4, <1>5, <1>6, <1>7, <1>8, <1>9, <1>10
        DEF AllKinds, EntryKinds, TrapaKinds, RteKinds

\* Four stages are enough, so the answer to the first access changes nothing.
LEMMA AfterAnswer ==
    ASSUME NEW c, Sound(c), Waiting(c), NEW m
    PROVE  After(Answered(c, m), Commit(m, data_op(c))) = After(c, m)
<1> DEFINE Short(s, n) == \E b, k : s = At(b, k) /\ Sound(b) /\ Chain(Kind(b)) <= n
<1>1. ASSUME NEW b, Sound(b)
      PROVE  Chain(Kind(b)) \in 0..3 /\ (Waiting(b) <=> Chain(Kind(b)) # 0)
  BY <1>1 DEF Chain, Sound, Waiting, Kind, RmwReadKinds
<1>2. ASSUME NEW s, NEW n \in 1..3, Short(s, n) PROVE Short(Settle(s), n - 1)
  <2>1. PICK b, k : s = At(b, k) /\ Sound(b) /\ Chain(Kind(b)) <= n
    BY <1>2
  <2>2. CASE Waiting(b)
    <3>1. PICK d, j : d = Answered(b, k) /\ j = Commit(k, data_op(b))
      OBVIOUS
    <3>2. Settle(s) = At(d, j)
      BY <2>1, <2>2, <3>1, SettleIs
    <3>3. Sound(d) /\ Chain(Kind(d)) = Chain(Kind(b)) - 1
      BY <2>1, <2>2, <3>1, ApplyShortens DEF Answered
    <3>4. Chain(Kind(d)) <= n - 1
      BY <1>1, <2>1, <3>3
    <3> QED BY <3>2, <3>3, <3>4
  <2>3. CASE ~Waiting(b)
    <3>1. Settle(s) = At(b, k)
      BY <2>1, <2>3, SettleIs
    <3>2. Chain(Kind(b)) <= n - 1
      BY <1>1, <2>1, <2>3
    <3> QED BY <2>1, <3>1, <3>2
  <2> QED BY <2>2, <2>3
<1>3. ASSUME NEW s, Short(s, 0) PROVE Settle(s) = s
  <2>1. PICK b, k : s = At(b, k) /\ Sound(b) /\ Chain(Kind(b)) <= 0
    BY <1>3
  <2>2. ~Waiting(b)
    BY <1>1, <2>1
  <2> QED BY <2>1, <2>2, SettleIs
<1>4. PICK s0 : s0 = At(c, m)
  OBVIOUS
<1>5. PICK s1 : s1 = Settle(s0)
  OBVIOUS
<1>6. PICK s2 : s2 = Settle(s1)
  OBVIOUS
<1>7. PICK s3 : s3 = Settle(s2)
  OBVIOUS
<1>8. Short(s0, 3)
  <2>1. Chain(Kind(c)) <= 3
    BY <1>1
  <2> QED BY <1>4, <2>1
<1> HIDE DEF Short
<1>9. Short(s1, 2)
  BY <1>2, <1>5, <1>8
<1>10. Short(s2, 1)
  BY <1>2, <1>6, <1>9
<1>11. Short(s3, 0)
  BY <1>2, <1>7, <1>10
<1>12. Settle(s3) = s3
  BY <1>3, <1>11
<1>13. After(c, m) = s3
  BY <1>4, <1>5, <1>6, <1>7, <1>12 DEF After
<1>14. s1 = At(Answered(c, m), Commit(m, data_op(c)))
  BY <1>4, <1>5, SettleIs
<1>15. After(Answered(c, m), Commit(m, data_op(c))) = Settle(Settle(Settle(Settle(s1))))
  BY <1>14 DEF After
<1> QED BY <1>6, <1>7, <1>12, <1>13, <1>15

\* The effect of the pending access on memory.
LEMMA CommitIs ==
    ASSUME NEW c, NEW m, NEW p, p = c.pending_mem_op
    PROVE  /\ Kind(c) \in WriteKinds =>
                 Commit(m, data_op(c)) = WriteMem(m, p.phys_addr, p.size, p.value)
           /\ Kind(c) \notin WriteKinds => Commit(m, data_op(c)) = m
BY DEF Commit, data_op, Kind

\* One access is left.
LEMMA AfterOne ==
    ASSUME NEW c, Sound(c), Chain(Kind(c)) = 1, NEW m
    PROVE  After(c, m) = At(Answered(c, m), Commit(m, data_op(c)))
<1>1. Waiting(c)
  BY DEF Waiting, Kind, Chain
<1>2. PICK d, n : d = Answered(c, m) /\ n = Commit(m, data_op(c))
  OBVIOUS
<1>3. Sound(d) /\ Chain(Kind(d)) = 0
  BY <1>1, <1>2, ApplyShortens DEF Answered
<1>4. ~Waiting(d)
  BY <1>3 DEF Waiting, Kind, Chain
<1>5. After(d, n) = At(d, n)
  BY <1>4, AfterRest
<1> QED BY <1>1, <1>2, <1>5, AfterAnswer

\* What the accesses of an entry leave, once r15 is top
EntryDone(c, m, d, n, top, sr, vector, return) ==
    /\ Kind(d) = "None"
    /\ Agree(c, d, {"pc", "r", "has_exception_return_context", "pending_mem_op",
                    "pending_trapa_imm"})
    /\ d.r = [c.r EXCEPT ![15] = u32_sub(top, 4)]
    /\ n = WriteMem(WriteMem(m, top, 4, sr), u32_sub(top, 4), 4, return)
    /\ d.pc = ReadMem(n, u32_add(c.sys["VBR"], 4 * vector), 4)

\* The three accesses of an exception entry: SR and the return address are on the
\* stack, pc comes from the vector (produce_until_bus, apply_ifetch_and_step).
LEMMA AfterEntry ==
    ASSUME NEW c, Sound(c), Kind(c) \in {"ExceptionPushSr", "TrapaPushSr"}, NEW m,
           NEW top \in Int, 15 \in DOMAIN c.r, c.r[15] = top,
           c.pending_mem_op.phys_addr = to_phys(top), c.pending_mem_op.size = 4,
           NEW sr, c.pending_mem_op.value = sr,
           NEW vector \in Int, c.sys["VBR"] \in Int, NEW return,
           IF Kind(c) = "ExceptionPushSr"
             THEN vector = c.pending_mem_op.aux /\ return = c.pc
             ELSE vector = value_of(c.pending_trapa_imm) /\ return = u32_add(c.pc, 2)
    PROVE  \E d, n : After(c, m) = At(d, n) /\ EntryDone(c, m, d, n, top, sr, vector, return)
<1>1. IsCore(c) /\ Waiting(c) /\ Kind(c) \in WriteKinds /\ Chain(Kind(c)) = 3
  <2>1. Chain(Kind(c)) = 3
    BY DEF Chain, RmwReadKinds
  <2> QED BY <2>1 DEF Sound, Waiting, Kind, WriteKinds
<1>2. PICK low4 \in Int : low4 = u32_sub(top, 4)
  BY WordFacts DEF u32_sub
<1>3. PICK at \in Int : at = u32_add(c.sys["VBR"], 4 * vector)
  BY WordFacts DEF u32_add
\* SR
<1>4. PICK m1 : m1 = WriteMem(m, top, 4, sr)
  OBVIOUS
<1>5. PICK c1 : c1 = Answered(c, m)
  OBVIOUS
<1>6. Commit(m, data_op(c)) = m1
  BY <1>1, <1>4, CommitIs, MemPhys
<1>7. After(c, m) = After(c1, m1) /\ Sound(c1) /\ Chain(Kind(c1)) = 2
  BY <1>1, <1>5, <1>6, AfterAnswer, ApplyShortens DEF Answered
<1>8. /\ Agree(c, c1, {"r", "pending_mem_op"}) /\ c1.r = [c.r EXCEPT ![15] = low4]
      /\ c1.pending_mem_op.phys_addr = to_phys(low4) /\ c1.pending_mem_op.size = 4
      /\ Kind(c1) \in {"ExceptionPushPc", "TrapaPushPc"} /\ c1.pending_mem_op.value = return
      /\ vector = IF Kind(c1) = "ExceptionPushPc" THEN c1.pending_mem_op.aux
                                                  ELSE value_of(c.pending_trapa_imm)
  BY <1>1, <1>2, <1>5, ApplyPushSr DEF Answered
<1>9. /\ IsCore(c1) /\ c1.sys = c.sys /\ c1.pending_trapa_imm = c.pending_trapa_imm
  BY <1>8, AgreeFields
\* The return address
<1>10. Waiting(c1) /\ Kind(c1) \in WriteKinds
  BY <1>8 DEF Waiting, Kind, WriteKinds
<1>11. PICK n : n = WriteMem(m1, low4, 4, return)
  OBVIOUS
<1>12. PICK c2 : c2 = Answered(c1, m1)
  OBVIOUS
<1>13. Commit(m1, data_op(c1)) = n
  BY <1>8, <1>10, <1>11, CommitIs, MemPhys
<1>14. After(c1, m1) = After(c2, n) /\ Sound(c2) /\ Chain(Kind(c2)) = 1
  BY <1>7, <1>10, <1>12, <1>13, AfterAnswer, ApplyShortens DEF Answered
<1>15. PICK kind : kind = IF Kind(c1) = "ExceptionPushPc" THEN "ExceptionVectorRead"
                                                          ELSE "TrapaVectorRead"
  OBVIOUS
<1>16. /\ Agree(c1, c2, {"pending_mem_op"})
       /\ c2.pending_mem_op = MemOp(kind, to_phys(at), 0)
  BY <1>3, <1>8, <1>9, <1>12, <1>15, ApplyPushPc DEF Answered
<1>17. /\ Kind(c2) = kind /\ c2.pending_mem_op.phys_addr = to_phys(at)
       /\ c2.pending_mem_op.size = 4 /\ IsCore(c2) /\ kind \notin WriteKinds
  BY <1>15, <1>16 DEF MemOp, Access, Kind, Agree, WriteKinds
\* The vector
<1>18. PICK d : d = Answered(c2, n)
  OBVIOUS
<1>19. Commit(n, data_op(c2)) = n
  BY <1>17, CommitIs
<1>20. After(c2, n) = At(d, n)
  BY <1>14, <1>18, <1>19, AfterOne
<1>21. PICK v : v = ReadMem(n, at, 4)
  OBVIOUS
<1>22. d = apply_pending(c2, v)
  BY <1>17, <1>18, <1>21, MemPhys DEF Answered
<1>23. /\ Agree(c2, d, {"pc", "has_exception_return_context", "pending_mem_op",
                        "pending_trapa_imm"})
       /\ d.pc = v /\ d.has_exception_return_context = TRUE /\ Kind(d) = "None"
  BY <1>15, <1>17, <1>22, ApplyVector
<1>24. Agree(c, d, {"pc", "r", "has_exception_return_context", "pending_mem_op",
                    "pending_trapa_imm"})
  BY <1>8, <1>16, <1>23 DEF Agree
<1>25. d.r = c1.r
  BY <1>16, <1>23, AgreeFields
<1>26. EntryDone(c, m, d, n, top, sr, vector, return)
  BY <1>2, <1>3, <1>4, <1>8, <1>11, <1>21, <1>23, <1>24, <1>25 DEF EntryDone
<1> QED BY <1>7, <1>14, <1>20, <1>26

\* What the accesses of a return leave, when r15 is top before them
ReturnDone(c, m, d, top) ==
    /\ Kind(d) = "None"
    /\ Agree(c, d, {"r", "pending_new_pc", "pending_new_sr", "pending_rte_restore",
                    "pending_mem_op", "pending_branch_target", "has_exception_return_context"})
    /\ d.r = [c.r EXCEPT ![15] = u32_add(u32_add(top, 4), 4)]
    /\ SlotOf(d) = [target |-> Some(ReadMem(m, top, 4)),
                    sr     |-> Some(ReadMem(m, u32_add(top, 4), 4))]

\* The two accesses of a return: pc and SR come from the stack and take effect
\* behind the delay slot.
LEMMA AfterReturn ==
    ASSUME NEW c, Sound(c), Kind(c) = "RtePopPc", NEW m,
           NEW top \in Int, 15 \in DOMAIN c.r, c.r[15] = top,
           c.pending_mem_op.phys_addr = to_phys(top), c.pending_mem_op.size = 4
    PROVE  \E d : After(c, m) = At(d, m) /\ ReturnDone(c, m, d, top)
<1>1. IsCore(c) /\ Waiting(c) /\ Kind(c) \notin WriteKinds /\ Chain(Kind(c)) = 2
  <2>1. Chain(Kind(c)) = 2
    BY DEF Chain, RmwReadKinds
  <2> QED BY <2>1 DEF Sound, Waiting, Kind, WriteKinds
<1>2. PICK high4 \in Int : high4 = u32_add(top, 4)
  BY WordFacts DEF u32_add
<1>3. PICK x : x = ReadMem(m, top, 4)
  OBVIOUS
<1>4. PICK c1 : c1 = Answered(c, m)
  OBVIOUS
<1>5. After(c, m) = After(c1, m) /\ Sound(c1) /\ Chain(Kind(c1)) = 1
  BY <1>1, <1>4, CommitIs, AfterAnswer, ApplyShortens DEF Answered
<1>6. c1 = apply_pending(c, x)
  BY <1>3, <1>4, MemPhys DEF Answered
<1>7. /\ Agree(c, c1, {"r", "pending_new_pc", "pending_mem_op"})
      /\ c1.r = [c.r EXCEPT ![15] = high4] /\ c1.pending_new_pc = x
      /\ c1.pending_mem_op = MemOp("RtePopSr", to_phys(c1.r[15]), 0)
  BY <1>1, <1>2, <1>6, ApplyPopPc
<1>8. c1.r[15] = high4
  BY <1>7
<1>9. /\ Kind(c1) = "RtePopSr" /\ c1.pending_mem_op.phys_addr = to_phys(high4)
      /\ c1.pending_mem_op.size = 4 /\ IsCore(c1) /\ Kind(c1) \notin WriteKinds
  BY <1>7, <1>8 DEF MemOp, Access, Kind, Agree, WriteKinds
<1>10. PICK y : y = ReadMem(m, high4, 4)
  OBVIOUS
<1>11. PICK d : d = apply_pending(c1, y)
  OBVIOUS
<1>12. Answered(c1, m) = d
  BY <1>9, <1>10, <1>11, MemPhys DEF Answered
<1>13. After(c1, m) = At(d, m)
  BY <1>5, <1>9, <1>12, AfterOne, CommitIs
<1>14. /\ Agree(c1, d, {"r", "pending_new_sr", "pending_rte_restore", "pending_mem_op",
                        "pending_branch_target", "has_exception_return_context"})
       /\ d.r = [c1.r EXCEPT ![15] = u32_add(c1.r[15], 4)]
       /\ d.pending_new_sr = y /\ d.pending_rte_restore = TRUE
       /\ d.pending_branch_target = Some(c1.pending_new_pc)
       /\ d.has_exception_return_context = FALSE /\ Kind(d) = "None"
  <2>1. LET e == apply_pending(c1, y)
        IN  /\ Agree(c1, e, {"r", "pending_new_sr", "pending_rte_restore", "pending_mem_op",
                             "pending_branch_target", "has_exception_return_context"})
            /\ e.r = [c1.r EXCEPT ![15] = u32_add(c1.r[15], 4)]
            /\ e.pending_new_sr = y /\ e.pending_rte_restore = TRUE
            /\ e.pending_branch_target = Some(c1.pending_new_pc)
            /\ e.has_exception_return_context = FALSE /\ Kind(e) = "None"
    BY <1>9, ApplyPopSr, Zenon
  <2> QED BY <1>11, <2>1, Zenon
<1>15. d.r = [c.r EXCEPT ![15] = u32_add(high4, 4)]
  BY <1>7, <1>8, <1>14
<1>16. SlotOf(d) = [target |-> Some(x), sr |-> Some(y)]
  BY <1>7, <1>14 DEF SlotOf
<1>17. Agree(c, d, {"r", "pending_new_pc", "pending_new_sr", "pending_rte_restore",
                    "pending_mem_op", "pending_branch_target", "has_exception_return_context"})
  BY <1>7, <1>14 DEF Agree
<1>18. ReturnDone(c, m, d, top)
  BY <1>2, <1>3, <1>10, <1>14, <1>15, <1>16, <1>17 DEF ReturnDone
<1> QED BY <1>5, <1>13, <1>18

\* What a single access leaves in memory and in the core
PlainMem(c, m, p, a) == IF Kind(c) \in WriteKinds THEN WriteMem(m, a, p.size, p.value) ELSE m
PlainDone(c, m, d, p, a) ==
    /\ Agree(c, d, Registers \cup {"pending_mem_op"})
    /\ Left(c, d, u32_add(c.pc, 2), EmptySlot, LoadedSys(p, c.sys, ReadMem(m, a, p.size)))
    /\ d.r = SteppedReg(p, LoadedReg(p, c.r, ReadMem(m, a, p.size)))
    /\ SlotOK(d) /\ Kind(d) = "None"

\* A single access.
LEMMA AfterPlain ==
    ASSUME NEW c, Sound(c), Kind(c) \in PlainKinds, NEW m,
           NEW p, p = c.pending_mem_op, NEW a \in Int, p.phys_addr = to_phys(a)
    PROVE  \E d : /\ After(c, m) = At(d, PlainMem(c, m, p, a))
                  /\ PlainDone(c, m, d, p, a)
<1>1. IsCore(c) /\ SlotOK(c) /\ Chain(Kind(c)) = 1
  <2>1. Chain(Kind(c)) = 1
    BY DEF Chain, PlainKinds, Reads, RmwReadKinds
  <2> QED BY <2>1 DEF Sound
<1>2. PICK v : v = ReadMem(m, a, p.size)
  OBVIOUS
<1>3. PICK d : d = apply_pending(c, v)
  OBVIOUS
<1>4. Answered(c, m) = d
  BY <1>2, <1>3, MemPhys DEF Answered
<1>5. After(c, m) = At(d, Commit(m, data_op(c)))
  BY <1>1, <1>4, AfterOne
<1>6. Commit(m, data_op(c)) = PlainMem(c, m, p, a)
  BY CommitIs, MemPhys DEF PlainMem
<1>7. /\ Agree(c, d, Registers \cup {"pending_mem_op"})
      /\ Left(c, d, u32_add(c.pc, 2), EmptySlot, LoadedSys(p, c.sys, v))
      /\ d.r = SteppedReg(p, LoadedReg(p, c.r, v))
      /\ SlotOK(d) /\ Kind(d) = "None"
  BY <1>1, <1>3, ApplyPlain
<1>8. PlainDone(c, m, d, p, a)
  BY <1>2, <1>7 DEF PlainDone
<1> QED BY <1>5, <1>6, <1>8

\* What a read-modify-write leaves in the core
ModifyDone(c, d) ==
    /\ Agree(c, d, Registers \cup {"pending_mem_op"})
    /\ Left(c, d, u32_add(c.pc, 2), EmptySlot, c.sys)
    /\ d.r = c.r /\ SlotOK(d) /\ Kind(d) = "None"

\* The two accesses of a read-modify-write.
LEMMA AfterModify ==
    ASSUME NEW c, Sound(c), NEW o \in RmwOps, Kind(c) = RmwReads[o], NEW m,
           \A b \in DOMAIN m : m[b] \in Byte,
           NEW p, p = c.pending_mem_op, NEW a \in Int, p.phys_addr = to_phys(a), p.size = 1
    PROVE  \E d : /\ After(c, m) = At(d, WriteMem(m, a, 1, RmwResult(o, ReadMem(m, a, 1), p.aux)))
                  /\ ModifyDone(c, d)
<1>1. IsCore(c) /\ Waiting(c) /\ Kind(c) \notin WriteKinds
  <2>1. Kind(c) \in RmwReadKinds
    BY DEF RmwReads, RmwOps, RmwReadKinds
  <2> QED BY <2>1 DEF Sound, Waiting, Kind, WriteKinds, RmwReadKinds
<1>2. PICK v : v = ReadMem(m, a, 1)
  OBVIOUS
<1>3. PICK c1 : c1 = apply_pending(c, v)
  OBVIOUS
<1>4. Answered(c, m) = c1
  BY <1>2, <1>3, MemPhys DEF Answered
<1>5. After(c, m) = After(c1, m) /\ Sound(c1)
  BY <1>1, <1>3, <1>4, CommitIs, AfterAnswer, ApplyShortens
<1>6. PICK w : w = RmwResult(o, v, p.aux)
  OBVIOUS
<1>7. /\ Agree(c, c1, {"pending_mem_op"})
      /\ c1.pending_mem_op = Access("RmwWriteByte", to_phys(a), 1, w)
  BY <1>1, <1>2, <1>3, <1>6, ApplyRmw, ByteStays
<1>8. PICK q : q = c1.pending_mem_op
  OBVIOUS
<1>9. /\ Kind(c1) = "RmwWriteByte" /\ q.kind = "RmwWriteByte" /\ q.phys_addr = to_phys(a)
      /\ q.size = 1 /\ q.value = w /\ q.post_inc_reg = NoReg
  BY <1>7, <1>8 DEF Kind, Access
<1>10. Kind(c1) \in PlainKinds /\ Kind(c1) \in WriteKinds
  BY <1>9 DEF PlainKinds, WriteKinds
<1>11. PICK d : After(c1, m) = At(d, PlainMem(c1, m, q, a)) /\ PlainDone(c1, m, d, q, a)
  BY <1>5, <1>8, <1>9, <1>10, AfterPlain
<1>12. \A y : LoadedSys(q, c1.sys, y) = c1.sys /\ LoadedReg(q, c1.r, y) = c1.r
  BY <1>9 DEF LoadedSys, LoadedReg, ToSys, Reads
<1>13. SteppedReg(q, c1.r) = c1.r
  BY <1>9, RegsAssumption DEF SteppedReg, NoReg
<1>14. /\ c1.pc = c.pc /\ c1.sys = c.sys /\ c1.r = c.r
       /\ c1.pending_branch_target = c.pending_branch_target
       /\ c1.pending_rte_restore = c.pending_rte_restore /\ c1.pending_new_sr = c.pending_new_sr
  BY <1>7, AgreeFields
<1>15. SlotOf(c1) = SlotOf(c)
  BY <1>14 DEF SlotOf
<1>16. Left(c, d, u32_add(c.pc, 2), EmptySlot, c.sys)
  BY <1>11, <1>12, <1>14, <1>15 DEF Left, PlainDone
<1>17. Agree(c, d, Registers \cup {"pending_mem_op"})
  BY <1>7, <1>11 DEF Agree, PlainDone
<1>18. d.r = c.r /\ SlotOK(d) /\ Kind(d) = "None"
  BY <1>11, <1>12, <1>13, <1>14 DEF PlainDone
<1>19. After(c, m) = At(d, WriteMem(m, a, 1, w))
  BY <1>5, <1>9, <1>10, <1>11 DEF PlainMem
<1>20. ModifyDone(c, d)
  BY <1>16, <1>17, <1>18 DEF ModifyDone
<1> QED BY <1>2, <1>6, <1>19, <1>20

-----------------------------------------------------------------------------
(* Instructions without memory accesses *)

\* What such an instruction makes of pc, the registers and the system registers
NextPc(i, pc, r, sys) ==
    IF i.op \in {"BT", "BF"} /\ BranchTaken(i, sys["SR"]) THEN Target(i, pc, r, sys)
                                                         ELSE u32_add(pc, 2)
NextRegs(i, pc, r, sys) ==
    CASE i.op \in AluOps -> AluRegs(i, r, sys)
      [] i.op = "STC"    -> [r EXCEPT ![i.n] = sys[i.sys]]
      [] i.op = "MOVA"   -> [r EXCEPT ![0] = u32_add(pc_base(pc, 4), i.x)]
      [] OTHER           -> r
NextSys(i, pc, r, sys) ==
    CASE i.op \in AluOps -> AluSys(i, r, sys)
      [] i.op = "LDC"    -> [sys EXCEPT ![i.sys] = r[i.n]]
      [] Links(i)        -> [sys EXCEPT !["PR"] = u32_add(pc, 4)]
      [] OTHER           -> sys

\* No access follows the instruction
Calm(c, i) ==
    /\ i.op \in Ops \ MemoryOps /\ i.op # "TRAPA"
    /\ i.op = "RTE" => ~c.has_exception_return_context
    /\ i.op \in {"STC", "LDC"} => i.sys # "PR"

\* Advancing pc.
LEMMA AdvanceAgrees ==
    ASSUME NEW c, IsCore(c), NEW d, NEW F, Agree(c, d, F)
    PROVE  LET e == Advance(d)
           IN  /\ Agree(c, e, F \cup {"pc"}) /\ e.pc = u32_add(d.pc, 2)
               /\ e.r = d.r /\ e.sys = d.sys
<1>1. PICK e : e = [d EXCEPT !.pc = u32_add(d.pc, 2)]
  OBVIOUS
<1>2. Advance(d) = e
  BY <1>1 DEF Advance
<1>3. /\ Agree(d, e, {"pc"}) /\ e.pc = u32_add(d.pc, 2) /\ e.r = d.r /\ e.sys = d.sys
  BY <1>1 DEF Agree, IsCore, CoreFields
<1>4. Agree(c, e, F \cup {"pc"})
  BY <1>3 DEF Agree
<1> QED BY <1>2, <1>3, <1>4

\* Sorts of instructions do not overlap.
LEMMA SortsDiffer ==
    /\ AluOps \cap ({"STC", "LDC", "MOVA", "BT", "BF", "ILLEGAL", "RTE", "TRAPA"} \cup DelayedBranches
                     \cup MemoryOps) = {}
    /\ DelayedBranches \cap ({"STC", "LDC", "MOVA", "BT", "BF", "ILLEGAL", "RTE", "TRAPA"}
                              \cup MemoryOps) = {}
    /\ MemoryOps \cap {"STC", "LDC", "MOVA", "BT", "BF", "ILLEGAL", "RTE", "TRAPA"} = {}
BY DEF AluOps, Comparisons, Shifts, DelayedBranches, MemoryOps, RmwOps

\* The branches of execute_instruction without access, before the delay slot is settled.
LEMMA EffectIs ==
    ASSUME NEW c, IsCore(c), NEW i, Calm(c, i)
    PROVE  LET d == Effect(c, i)
           IN  /\ Agree(c, d, {"pc", "r", "sys"})
               /\ d.pc = NextPc(i, c.pc, c.r, c.sys)
               /\ d.r = NextRegs(i, c.pc, c.r, c.sys) /\ d.sys = NextSys(i, c.pc, c.r, c.sys)
<1>0. Agree(c, c, {"r", "sys"})
  BY DEF Agree
<1>1. ASSUME NEW d, Agree(c, d, {"r", "sys"}), Effect(c, i) = Advance(d),
             NextPc(i, c.pc, c.r, c.sys) = u32_add(c.pc, 2),
             d.r = NextRegs(i, c.pc, c.r, c.sys), d.sys = NextSys(i, c.pc, c.r, c.sys)
      PROVE  /\ Agree(c, Effect(c, i), {"pc", "r", "sys"})
             /\ Effect(c, i).pc = NextPc(i, c.pc, c.r, c.sys)
             /\ Effect(c, i).r = NextRegs(i, c.pc, c.r, c.sys)
             /\ Effect(c, i).sys = NextSys(i, c.pc, c.r, c.sys)
  <2>1. d.pc = c.pc
    BY <1>1, AgreeFields
  <2>2. PICK e : e = Advance(d)
    OBVIOUS
  <2>3. /\ Agree(c, e, {"r", "sys"} \cup {"pc"}) /\ e.pc = u32_add(d.pc, 2)
        /\ e.r = d.r /\ e.sys = d.sys
    BY <1>1, <2>2, AdvanceAgrees
  <2>4. Agree(c, e, {"pc", "r", "sys"})
    BY <2>3 DEF Agree
  <2> QED BY <1>1, <2>1, <2>2, <2>3, <2>4
<1>2. CASE i.op \in AluOps
  <2>1. PICK r, s : r = AluRegs(i, c.r, c.sys) /\ s = AluSys(i, c.r, c.sys)
    OBVIOUS
  <2>2. PICK d : d = [c EXCEPT !.r = r, !.sys = s]
    OBVIOUS
  <2>3. Effect(c, i) = Advance(d)
    BY <1>2, <2>1, <2>2 DEF Effect, AluOps, Comparisons, Shifts, Links
  <2>4. Agree(c, d, {"r", "sys"}) /\ d.r = r /\ d.sys = s
    BY <2>2 DEF Agree, IsCore, CoreFields
  <2>5. /\ NextPc(i, c.pc, c.r, c.sys) = u32_add(c.pc, 2)
        /\ NextRegs(i, c.pc, c.r, c.sys) = r /\ NextSys(i, c.pc, c.r, c.sys) = s
    <3>1. i.op \notin {"STC", "LDC", "MOVA", "BT", "BF"} /\ ~Links(i)
      BY <1>2 DEF AluOps, Comparisons, Shifts, Links
    <3> QED BY <1>2, <2>1, <3>1 DEF NextPc, NextRegs, NextSys
  <2> QED BY <1>1, <2>3, <2>4, <2>5
<1>3. CASE i.op = "STC"
  <2>1. i.op \notin AluOps /\ ~Links(i) /\ i.sys # "PR"
    BY <1>3, SortsDiffer DEF Links, Calm
  <2>2. PICK v : v = c.sys[i.sys]
    OBVIOUS
  <2>3. PICK d : d = [c EXCEPT !.r[i.n] = v]
    OBVIOUS
  <2>4. Effect(c, i) = Advance(d)
    BY <1>3, <2>1, <2>2, <2>3 DEF Effect
  <2>5. Agree(c, d, {"r", "sys"}) /\ d.r = [c.r EXCEPT ![i.n] = v] /\ d.sys = c.sys
    BY <2>3 DEF Agree, IsCore, CoreFields
  <2>6. /\ NextPc(i, c.pc, c.r, c.sys) = u32_add(c.pc, 2)
        /\ NextRegs(i, c.pc, c.r, c.sys) = [c.r EXCEPT ![i.n] = v]
        /\ NextSys(i, c.pc, c.r, c.sys) = c.sys
    BY <1>3, <2>1, <2>2 DEF NextPc, NextRegs, NextSys
  <2> QED BY <1>1, <2>4, <2>5, <2>6
<1>4. CASE i.op = "LDC"
  <2>1. i.op \notin AluOps /\ ~Links(i) /\ i.sys # "PR"
    BY <1>4, SortsDiffer DEF Links, Calm
  <2>2. PICK v : v = c.r[i.n]
    OBVIOUS
  <2>3. PICK d : d = [c EXCEPT !.sys[i.sys] = v]
    OBVIOUS
  <2>4. Effect(c, i) = Advance(d)
    BY <1>4, <2>1, <2>2, <2>3 DEF Effect
  <2>5. Agree(c, d, {"r", "sys"}) /\ d.sys = [c.sys EXCEPT ![i.sys] = v] /\ d.r = c.r
    BY <2>3 DEF Agree, IsCore, CoreFields
  <2>6. /\ NextPc(i, c.pc, c.r, c.sys) = u32_add(c.pc, 2)
        /\ NextRegs(i, c.pc, c.r, c.sys) = c.r
        /\ NextSys(i, c.pc, c.r, c.sys) = [c.sys EXCEPT ![i.sys] = v]
    BY <1>4, <2>1, <2>2 DEF NextPc, NextRegs, NextSys
  <2> QED BY <1>1, <2>4, <2>5, <2>6
<1>5. CASE i.op = "MOVA"
  <2>1. i.op \notin AluOps /\ ~Links(i)
    BY <1>5, SortsDiffer DEF Links
  <2>2. PICK v : v = u32_add(pc_base(c.pc, 4), i.x)
    OBVIOUS
  <2>3. PICK d : d = [c EXCEPT !.r[0] = v]
    OBVIOUS
  <2>4. Effect(c, i) = Advance(d)
    BY <1>5, <2>1, <2>2, <2>3 DEF Effect
  <2>5. Agree(c, d, {"r", "sys"}) /\ d.r = [c.r EXCEPT ![0] = v] /\ d.sys = c.sys
    BY <2>3 DEF Agree, IsCore, CoreFields
  <2>6. /\ NextPc(i, c.pc, c.r, c.sys) = u32_add(c.pc, 2)
        /\ NextRegs(i, c.pc, c.r, c.sys) = [c.r EXCEPT ![0] = v]
        /\ NextSys(i, c.pc, c.r, c.sys) = c.sys
    BY <1>5, <2>1, <2>2 DEF NextPc, NextRegs, NextSys
  <2> QED BY <1>1, <2>4, <2>5, <2>6
<1>6. CASE i.op \in {"BT", "BF"} /\ BranchTaken(i, c.sys["SR"])
  <2>1. i.op \notin AluOps /\ ~Links(i)
    BY <1>6, SortsDiffer DEF Links
  <2>2. PICK t : t = Target(i, c.pc, c.r, c.sys)
    OBVIOUS
  <2>3. PICK d : d = [c EXCEPT !.pc = t]
    OBVIOUS
  <2>4. Effect(c, i) = d
    BY <1>6, <2>1, <2>2, <2>3 DEF Effect
  <2>5. Agree(c, d, {"pc", "r", "sys"}) /\ d.pc = t /\ d.r = c.r /\ d.sys = c.sys
    BY <2>3 DEF Agree, IsCore, CoreFields
  <2>6. /\ NextPc(i, c.pc, c.r, c.sys) = t
        /\ NextRegs(i, c.pc, c.r, c.sys) = c.r
        /\ NextSys(i, c.pc, c.r, c.sys) = c.sys
    BY <1>6, <2>1, <2>2 DEF NextPc, NextRegs, NextSys
  <2> QED BY <2>4, <2>5, <2>6
<1>7. CASE Links(i)
  <2>1. i.op \notin AluOps \cup {"STC", "LDC", "PUSH", "POP", "MOVA", "BT", "BF", "RTE", "TRAPA"}
    BY <1>7 DEF Links, AluOps, Comparisons, Shifts
  <2>2. PICK v : v = u32_add(c.pc, 4)
    OBVIOUS
  <2>3. PICK d : d = [c EXCEPT !.sys["PR"] = v]
    OBVIOUS
  <2>4. Effect(c, i) = Advance(d)
    BY <1>7, <2>1, <2>2, <2>3 DEF Effect
  <2>5. Agree(c, d, {"r", "sys"}) /\ d.sys = [c.sys EXCEPT !["PR"] = v] /\ d.r = c.r
    BY <2>3 DEF Agree, IsCore, CoreFields
  <2>6. /\ NextPc(i, c.pc, c.r, c.sys) = u32_add(c.pc, 2)
        /\ NextRegs(i, c.pc, c.r, c.sys) = c.r
        /\ NextSys(i, c.pc, c.r, c.sys) = [c.sys EXCEPT !["PR"] = v]
    BY <1>7, <2>1, <2>2 DEF NextPc, NextRegs, NextSys
  <2> QED BY <1>1, <2>4, <2>5, <2>6
<1>8. CASE /\ i.op \notin AluOps \cup {"STC", "LDC", "MOVA"} /\ ~Links(i)
           /\ ~(i.op \in {"BT", "BF"} /\ BranchTaken(i, c.sys["SR"]))
  <2>1. i.op \notin {"PUSH", "POP", "TRAPA"}
    BY DEF Calm, MemoryOps
  <2>2. Effect(c, i) = Advance(c)
    BY <1>8, <2>1 DEF Effect, BeginReturn, Calm
  <2>3. /\ NextPc(i, c.pc, c.r, c.sys) = u32_add(c.pc, 2)
        /\ NextRegs(i, c.pc, c.r, c.sys) = c.r
        /\ NextSys(i, c.pc, c.r, c.sys) = c.sys
    BY <1>8 DEF NextPc, NextRegs, NextSys
  <2> QED BY <1>0, <1>1, <2>2, <2>3
<1> QED BY <1>2, <1>3, <1>4, <1>5, <1>6, <1>7, <1>8

\* Such an instruction, in a delay slot or not.
LEMMA ExecuteLeaves ==
    ASSUME NEW c, IsCore(c), SlotOK(c), NEW i, Calm(c, i)
    PROVE  LET d == execute_instruction(c, i)
           IN  /\ Agree(c, d, Registers)
               /\ Left(c, d, NextPc(i, c.pc, c.r, c.sys),
                       [target |-> next_branch_target(c, i), sr |-> None],
                       NextSys(i, c.pc, c.r, c.sys))
               /\ d.r = NextRegs(i, c.pc, c.r, c.sys) /\ SlotOK(d)
<1>1. PICK b : b = [c EXCEPT !.pending_branch_target = None]
  OBVIOUS
<1>2. /\ Agree(c, b, {"pending_branch_target"}) /\ b.pending_branch_target = None
  BY <1>1 DEF Agree, IsCore, CoreFields
<1>3. /\ IsCore(b) /\ b.pc = c.pc /\ b.r = c.r /\ b.sys = c.sys
      /\ b.has_exception_return_context = c.has_exception_return_context
      /\ b.pending_rte_restore = c.pending_rte_restore /\ b.pending_new_sr = c.pending_new_sr
  BY <1>2, AgreeFields
<1>4. Calm(b, i)
  BY <1>3, Zenon DEF Calm
<1>5. PICK e : e = Effect(b, i)
  OBVIOUS
<1>6. /\ Agree(b, e, {"pc", "r", "sys"}) /\ e.pc = NextPc(i, c.pc, c.r, c.sys)
      /\ e.r = NextRegs(i, c.pc, c.r, c.sys) /\ e.sys = NextSys(i, c.pc, c.r, c.sys)
  BY <1>3, <1>4, <1>5, EffectIs
<1>7. /\ IsCore(e) /\ e.pending_branch_target = None
      /\ e.pending_rte_restore = c.pending_rte_restore /\ e.pending_new_sr = c.pending_new_sr
  BY <1>2, <1>3, <1>6, AgreeFields
<1>8. Agree(c, e, Registers)
  BY <1>2, <1>6 DEF Agree, Registers
<1>9. CASE c.pending_branch_target = None
  <2>1. PICK t : t = next_branch_target(c, i)
    OBVIOUS
  <2>2. PICK d : d = [e EXCEPT !.pending_branch_target = t]
    OBVIOUS
  <2>3. execute_instruction(c, i) = d
    BY <1>1, <1>5, <1>9, <2>1, <2>2 DEF execute_instruction
  <2>4. Agree(e, d, {"pending_branch_target"}) /\ d.pending_branch_target = t
    BY <1>7, <2>2 DEF Agree, IsCore, CoreFields
  <2>5. /\ d.pc = e.pc /\ d.r = e.r /\ d.sys = e.sys
        /\ d.pending_rte_restore = c.pending_rte_restore
    BY <1>7, <2>4, AgreeFields
  <2>6. c.pending_rte_restore = FALSE
    BY <1>9, Zenon DEF SlotOK
  <2>7. SlotOf(d) = [target |-> t, sr |-> None] /\ SlotOK(d)
    BY <2>4, <2>5, <2>6 DEF SlotOf, SlotOK
  <2>8. SlotOf(c) = EmptySlot /\ SlotOf(c).sr = None
    BY <1>9, <2>6, SlotFacts
  <2>9. Agree(c, d, Registers)
    BY <1>8, <2>4 DEF Agree, Registers
  <2> QED BY <1>6, <2>1, <2>3, <2>5, <2>7, <2>8, <2>9 DEF Left
<1>10. CASE c.pending_branch_target # None
  <2>1. PICK t : t = value_of(c.pending_branch_target)
    OBVIOUS
  <2>2. PICK g : g = RestoreSr(e)
    OBVIOUS
  <2>3. PICK d : d = [g EXCEPT !.pc = t]
    OBVIOUS
  <2>4. execute_instruction(c, i) = d
    BY <1>1, <1>5, <1>10, <2>1, <2>2, <2>3 DEF execute_instruction
  <2>5. e.pending_rte_restore \in BOOLEAN
    BY <1>7 DEF SlotOK
  <2>6. /\ Agree(e, g, {"sys", "pending_rte_restore"}) /\ g.pending_rte_restore = FALSE
        /\ g.sys = IF c.pending_rte_restore
                     THEN [e.sys EXCEPT !["SR"] = c.pending_new_sr] ELSE e.sys
    BY <1>7, <2>2, <2>5, RestoreAgrees
  <2>7. Agree(g, d, {"pc"}) /\ d.pc = t
    BY <2>3, <2>6 DEF Agree, IsCore, CoreFields
  <2>8. /\ d.sys = g.sys /\ d.pending_rte_restore = FALSE /\ d.pending_branch_target = None
        /\ d.r = e.r
    BY <1>7, <2>6, <2>7, AgreeFields
  <2>9. SlotOf(d) = EmptySlot /\ SlotOK(d)
    BY <2>8 DEF SlotOf, EmptySlot, SlotOK
  <2>10. /\ SlotOf(c) # EmptySlot /\ value_of(SlotOf(c).target) = t
         /\ SlotOf(c).sr = None <=> ~c.pending_rte_restore
         /\ c.pending_rte_restore => value_of(SlotOf(c).sr) = c.pending_new_sr
    BY <1>10, <2>1, SlotFacts
  <2>11. Agree(c, d, Registers)
    BY <1>8, <2>6, <2>7 DEF Agree, Registers
  <2> QED BY <1>6, <2>4, <2>6, <2>7, <2>8, <2>9, <2>10, <2>11 DEF Left
<1> QED BY <1>9, <1>10

-----------------------------------------------------------------------------
(* Exception entries and returns *)

\* d and n are what entering the handler of a vector makes of c and m
Entered(c, m, d, n, vector, return) ==
    /\ d.r = [c.r EXCEPT ![15] = u32_sub(c.r[15], 8)]
    /\ n = WriteMem(WriteMem(m, u32_sub(c.r[15], 4), 4, c.sys["SR"]), u32_sub(c.r[15], 8), 4, return)
    /\ d.pc = ReadMem(n, u32_add(c.sys["VBR"], 4 * vector), 4)
    /\ d.sys = c.sys /\ SlotOf(d) = SlotOf(c)

\* The words that an entry or a return computes with
StackOK(c) == 15 \in DOMAIN c.r /\ c.r[15] \in Int /\ c.sys["VBR"] \in Int

\* TRAPA starts with a push of SR.
LEMMA TrapStarts ==
    ASSUME NEW c, IsCore(c), c.pending_branch_target = None, NEW i, i.op = "TRAPA",
           NEW top, top = u32_sub(c.r[15], 4)
    PROVE  LET d == execute_instruction(c, i)
           IN  /\ Agree(c, d, {"r", "pending_mem_op", "pending_trapa_imm"})
               /\ d.r = [c.r EXCEPT ![15] = top]
               /\ d.pending_mem_op = MemOp("TrapaPushSr", to_phys(top), c.sys["SR"])
               /\ d.pending_trapa_imm = Some(i.x)
<1>1. PICK b : b = [c EXCEPT !.pending_branch_target = None]
  OBVIOUS
<1>2. Agree(c, b, {"pending_branch_target"}) /\ b.pending_branch_target = None
  BY <1>1 DEF Agree, IsCore, CoreFields
<1>3. IsCore(b) /\ b.r = c.r /\ b.sys = c.sys
  BY <1>2, AgreeFields
<1>4. PICK x : x = Some(i.x)
  OBVIOUS
<1>5. PICK g : g = PushTo(b, 15, "TrapaPushSr", b.sys["SR"])
  OBVIOUS
<1>6. /\ Agree(b, g, {"r", "pending_mem_op"}) /\ g.r = [c.r EXCEPT ![15] = top]
      /\ g.pending_mem_op = MemOp("TrapaPushSr", to_phys(top), c.sys["SR"])
  BY <1>3, <1>5, PushAgrees
<1>7. PICK e : e = [g EXCEPT !.pending_trapa_imm = x]
  OBVIOUS
<1>8. Effect(b, i) = e
  <2>1. i.op \notin AluOps /\ ~Links(i)
    BY SortsDiffer DEF Links
  <2> QED BY <1>4, <1>5, <1>7, <2>1 DEF Effect, BeginTrap
<1>9. next_branch_target(c, i) = None
  BY SortsDiffer DEF next_branch_target
<1>10. PICK d : d = [e EXCEPT !.pending_branch_target = None]
  OBVIOUS
<1>11. execute_instruction(c, i) = d
  BY <1>1, <1>8, <1>9, <1>10 DEF execute_instruction
<1>12. Agree(g, e, {"pending_trapa_imm"}) /\ e.pending_trapa_imm = x
  BY <1>6, <1>7 DEF Agree, IsCore, CoreFields
<1>13. Agree(e, d, {"pending_branch_target"}) /\ d.pending_branch_target = None
  BY <1>10, <1>12 DEF Agree, IsCore, CoreFields
<1>14. d.r = g.r /\ d.pending_mem_op = g.pending_mem_op /\ d.pending_trapa_imm = x
  BY <1>12, <1>13, AgreeFields
<1>15. Agree(c, d, {"r", "pending_mem_op", "pending_trapa_imm"})
  <2>1. ASSUME NEW f \in CoreFields \ {"r", "pending_mem_op", "pending_trapa_imm"}
        PROVE  d[f] = c[f]
    <3>1. CASE f = "pending_branch_target"
      BY <1>13, <3>1
    <3>2. CASE f # "pending_branch_target"
      BY <1>2, <1>6, <1>12, <1>13, <2>1, <3>2 DEF Agree
    <3> QED BY <3>1, <3>2
  <2> QED BY <1>13, <2>1 DEF Agree
<1> QED BY <1>4, <1>6, <1>11, <1>14, <1>15

\* RTE starts with the pop of the return address.
LEMMA ReturnStarts ==
    ASSUME NEW c, IsCore(c), c.pending_branch_target = None, c.has_exception_return_context,
           NEW i, i.op = "RTE"
    PROVE  LET d == execute_instruction(c, i)
           IN  /\ Agree(c, d, {"pc", "pending_mem_op"})
               /\ d.pc = u32_add(c.pc, 2)
               /\ d.pending_mem_op = MemOp("RtePopPc", to_phys(c.r[15]), 0)
<1>1. PICK b : b = [c EXCEPT !.pending_branch_target = None]
  OBVIOUS
<1>2. Agree(c, b, {"pending_branch_target"}) /\ b.pending_branch_target = None
  BY <1>1 DEF Agree, IsCore, CoreFields
<1>3. IsCore(b) /\ b.r = c.r /\ b.pc = c.pc /\ b.has_exception_return_context
  <2>1. b.has_exception_return_context
    BY <1>1 DEF IsCore, CoreFields
  <2> QED BY <1>2, <2>1, AgreeFields
<1>4. PICK o : o = MemOp("RtePopPc", to_phys(c.r[15]), 0)
  OBVIOUS
<1>5. PICK g : g = Await(b, o)
  OBVIOUS
<1>6. Agree(b, g, {"pending_mem_op"}) /\ g.pending_mem_op = o
  BY <1>3, <1>5, AwaitAgrees
<1>7. PICK e : e = Advance(g)
  OBVIOUS
<1>8. Effect(b, i) = e
  <2>1. i.op \notin AluOps /\ ~Links(i)
    BY SortsDiffer DEF Links
  <2>2. BeginReturn(b) = g
    BY <1>3, <1>4, <1>5 DEF BeginReturn
  <2> QED BY <1>7, <2>1, <2>2 DEF Effect
<1>9. next_branch_target(c, i) = None
  BY SortsDiffer DEF next_branch_target
<1>10. PICK d : d = [e EXCEPT !.pending_branch_target = None]
  OBVIOUS
<1>11. execute_instruction(c, i) = d
  BY <1>1, <1>8, <1>9, <1>10 DEF execute_instruction
<1>12. Agree(b, e, {"pending_mem_op"} \cup {"pc"}) /\ e.pc = u32_add(g.pc, 2)
  BY <1>3, <1>6, <1>7, AdvanceAgrees
<1>13. e.pending_mem_op = o
  <2>1. Agree(g, g, {}) /\ IsCore(g)
    BY <1>6 DEF Agree
  <2>2. Agree(g, e, {} \cup {"pc"})
    BY <1>7, <2>1, AdvanceAgrees
  <2> QED BY <1>6, <2>2, AgreeFields
<1>14. Agree(e, d, {"pending_branch_target"}) /\ d.pending_branch_target = None
  BY <1>10, <1>12 DEF Agree, IsCore, CoreFields
<1>15. d.pc = u32_add(c.pc, 2) /\ d.pending_mem_op = o
  <2>1. g.pc = c.pc
    BY <1>3, <1>6, AgreeFields
  <2> QED BY <1>12, <1>13, <1>14, <2>1, AgreeFields
<1>16. Agree(c, d, {"pc", "pending_mem_op"})
  <2>1. ASSUME NEW f \in CoreFields \ {"pc", "pending_mem_op"}
        PROVE  d[f] = c[f]
    <3>1. CASE f = "pending_branch_target"
      BY <1>14, <3>1
    <3>2. CASE f # "pending_branch_target"
      BY <1>2, <1>12, <1>14, <2>1, <3>2 DEF Agree
    <3> QED BY <3>1, <3>2
  <2> QED BY <1>14, <2>1 DEF Agree
<1> QED BY <1>4, <1>11, <1>15, <1>16

\* An accepted exception starts with a push of SR.
LEMMA ExceptionStarts ==
    ASSUME NEW c, IsCore(c), NEW top, top = u32_sub(c.r[15], 4)
    PROVE  LET d == take_exception(c)
           IN  /\ Agree(c, d, {"r", "pending_mem_op", "pending_exception_vector"})
               /\ d.r = [c.r EXCEPT ![15] = top]
               /\ Kind(d) = "ExceptionPushSr" /\ d.pending_mem_op.phys_addr = to_phys(top)
               /\ d.pending_mem_op.size = 4 /\ d.pending_mem_op.value = c.sys["SR"]
               /\ d.pending_mem_op.aux = value_of(c.pending_exception_vector)
               /\ d.pending_exception_vector = None
<1>1. PICK g : g = PushTo(c, 15, "ExceptionPushSr", c.sys["SR"])
  OBVIOUS
<1>2. /\ Agree(c, g, {"r", "pending_mem_op"}) /\ g.r = [c.r EXCEPT ![15] = top]
      /\ g.pending_mem_op = MemOp("ExceptionPushSr", to_phys(top), c.sys["SR"])
  BY <1>1, PushAgrees
<1>3. PICK v : v = value_of(c.pending_exception_vector)
  OBVIOUS
<1>4. PICK o : o = [g.pending_mem_op EXCEPT !.aux = v]
  OBVIOUS
<1>5. /\ o.kind = "ExceptionPushSr" /\ o.phys_addr = to_phys(top) /\ o.size = 4
      /\ o.value = c.sys["SR"] /\ o.aux = v
  BY <1>2, <1>4 DEF MemOp, Access
<1>6. PICK d : d = [g EXCEPT !.pending_mem_op = o, !.pending_exception_vector = None]
  OBVIOUS
<1>7. take_exception(c) = d
  <2>1. take_exception(c) = [g EXCEPT !.pending_mem_op.aux = v, !.pending_exception_vector = None]
    BY <1>1, <1>3 DEF take_exception
  <2> QED BY <1>2, <1>4, <1>6, <2>1 DEF Agree, IsCore, CoreFields
<1>8. /\ Agree(g, d, {"pending_mem_op", "pending_exception_vector"}) /\ d.pending_mem_op = o
      /\ d.pending_exception_vector = None
  BY <1>2, <1>6 DEF Agree, IsCore, CoreFields
<1>9. d.r = g.r
  BY <1>8, AgreeFields
<1>10. Agree(c, d, {"r", "pending_mem_op", "pending_exception_vector"})
  BY <1>2, <1>8 DEF Agree
<1> QED BY <1>2, <1>3, <1>5, <1>7, <1>8, <1>9, <1>10 DEF Kind

\* A core that agrees on the slot and waits for a known access is sound.
LEMMA StaysSound ==
    ASSUME NEW c, Sound(c), NEW d, NEW F, Agree(c, d, F), Kind(d) \in AllKinds,
           "pending_branch_target" \notin F, "pending_rte_restore" \notin F
    PROVE  /\ Sound(d) /\ SlotOK(d)
           /\ "pending_new_sr" \notin F => SlotOf(d) = SlotOf(c)
<1>1. /\ IsCore(d) /\ d.pending_branch_target = c.pending_branch_target
      /\ d.pending_rte_restore = c.pending_rte_restore
      /\ "pending_new_sr" \notin F => d.pending_new_sr = c.pending_new_sr
  BY AgreeFields
<1>2. SlotOK(c)
  BY DEF Sound
<1>3. SlotOK(d)
  BY <1>1, <1>2, Zenon DEF SlotOK
<1>4. "pending_new_sr" \notin F => SlotOf(d) = SlotOf(c)
  BY <1>1 DEF SlotOf
<1> QED BY <1>1, <1>3, <1>4 DEF Sound

\* The pushes of an entry lead to its handler.
LEMMA EntryIs ==
    ASSUME NEW c, Sound(c), StackOK(c), NEW m, NEW b, NEW top, top = u32_sub(c.r[15], 4),
           Agree(c, b, {"r", "pending_mem_op", "pending_trapa_imm", "pending_exception_vector"}),
           b.r = [c.r EXCEPT ![15] = top], Kind(b) \in {"ExceptionPushSr", "TrapaPushSr"},
           b.pending_mem_op.phys_addr = to_phys(top), b.pending_mem_op.size = 4,
           b.pending_mem_op.value = c.sys["SR"], NEW vector \in Int, NEW return,
           IF Kind(b) = "ExceptionPushSr"
             THEN vector = b.pending_mem_op.aux /\ return = c.pc
             ELSE vector = value_of(b.pending_trapa_imm) /\ return = u32_add(c.pc, 2)
    PROVE  Sound(b) /\ \E d, n : After(b, m) = At(d, n) /\ Entered(c, m, d, n, vector, return)
<1>1. Kind(b) \in AllKinds
  BY DEF AllKinds, EntryKinds, TrapaKinds
<1>2. Sound(b) /\ SlotOK(b) /\ SlotOf(b) = SlotOf(c)
  BY <1>1, StaysSound
<1>3. b.pc = c.pc /\ b.sys = c.sys
  BY AgreeFields
<1>4. top \in Int /\ 15 \in DOMAIN b.r /\ b.r[15] = top
  BY WordFacts DEF StackOK, u32_sub
<1>5. PICK low8 : low8 = u32_sub(top, 4)
  OBVIOUS
<1>6. low8 = u32_sub(c.r[15], 8)
  BY <1>5, FourTwice DEF StackOK
<1>7. PICK d, n : /\ After(b, m) = At(d, n)
                  /\ EntryDone(b, m, d, n, top, c.sys["SR"], vector, return)
  <2>1. b.sys["VBR"] \in Int
    BY <1>3 DEF StackOK
  <2>2. IF Kind(b) = "ExceptionPushSr"
          THEN vector = b.pending_mem_op.aux /\ return = b.pc
          ELSE vector = value_of(b.pending_trapa_imm) /\ return = u32_add(b.pc, 2)
    BY <1>3
  <2> QED BY <1>2, <1>4, <2>1, <2>2, AfterEntry
<1>8. d.sys = c.sys /\ SlotOf(d) = SlotOf(c)
  <2>1. Kind(d) \in AllKinds
    BY <1>7 DEF AllKinds, EntryDone
  <2>2. Agree(b, d, {"pc", "r", "has_exception_return_context", "pending_mem_op",
                     "pending_trapa_imm"})
    BY <1>7 DEF EntryDone
  <2>3. d.sys = b.sys /\ SlotOf(d) = SlotOf(b)
    BY <1>2, <2>1, <2>2, StaysSound, AgreeFields
  <2> QED BY <1>2, <1>3, <2>3
<1>9. d.r = [c.r EXCEPT ![15] = low8]
  BY <1>5, <1>7 DEF EntryDone
<1>10. Entered(c, m, d, n, vector, return)
  BY <1>3, <1>5, <1>6, <1>7, <1>8, <1>9 DEF Entered, EntryDone
<1> QED BY <1>2, <1>7, <1>10

\* TRAPA, to the end.
LEMMA AfterTrap ==
    ASSUME NEW c, Sound(c), StackOK(c), c.pending_branch_target = None, NEW m,
           NEW i, i.op = "TRAPA", i.x \in Int
    PROVE  LET b == execute_instruction(c, i)
           IN  /\ Sound(b) /\ Kind(b) = "TrapaPushSr"
               /\ Agree(c, b, {"r", "pending_mem_op", "pending_trapa_imm"})
               /\ \E d, n : After(b, m) = At(d, n) /\ Entered(c, m, d, n, i.x, u32_add(c.pc, 2))
<1>1. PICK top : top = u32_sub(c.r[15], 4)
  OBVIOUS
<1>2. PICK b : b = execute_instruction(c, i)
  OBVIOUS
<1>3. /\ Agree(c, b, {"r", "pending_mem_op", "pending_trapa_imm"})
      /\ b.r = [c.r EXCEPT ![15] = top]
      /\ b.pending_mem_op = MemOp("TrapaPushSr", to_phys(top), c.sys["SR"])
      /\ b.pending_trapa_imm = Some(i.x)
  BY <1>1, <1>2, TrapStarts DEF Sound
<1>4. /\ Kind(b) = "TrapaPushSr" /\ b.pending_mem_op.phys_addr = to_phys(top)
      /\ b.pending_mem_op.size = 4 /\ b.pending_mem_op.value = c.sys["SR"]
  BY <1>3 DEF Kind, MemOp, Access
<1>5. Agree(c, b, {"r", "pending_mem_op", "pending_trapa_imm", "pending_exception_vector"})
  BY <1>3 DEF Agree
<1>6. value_of(b.pending_trapa_imm) = i.x
  BY <1>3 DEF Some, value_of
<1>7. Sound(b) /\ \E d, n : After(b, m) = At(d, n) /\ Entered(c, m, d, n, i.x, u32_add(c.pc, 2))
  BY <1>1, <1>3, <1>4, <1>5, <1>6, EntryIs
<1> QED BY <1>2, <1>3, <1>4, <1>7

\* An exception, to the end.
LEMMA AfterException ==
    ASSUME NEW c, Sound(c), StackOK(c), NEW m,
           NEW vector \in Int, vector = value_of(c.pending_exception_vector)
    PROVE  LET b == take_exception(c)
           IN  /\ Sound(b) /\ Kind(b) = "ExceptionPushSr" /\ b.pending_exception_vector = None
               /\ Agree(c, b, {"r", "pending_mem_op", "pending_exception_vector"})
               /\ \E d, n : After(b, m) = At(d, n) /\ Entered(c, m, d, n, vector, c.pc)
<1>1. PICK top : top = u32_sub(c.r[15], 4)
  OBVIOUS
<1>2. PICK b : b = take_exception(c)
  OBVIOUS
<1>3. /\ Agree(c, b, {"r", "pending_mem_op", "pending_exception_vector"})
      /\ b.r = [c.r EXCEPT ![15] = top]
      /\ Kind(b) = "ExceptionPushSr" /\ b.pending_mem_op.phys_addr = to_phys(top)
      /\ b.pending_mem_op.size = 4 /\ b.pending_mem_op.value = c.sys["SR"]
      /\ b.pending_mem_op.aux = vector
      /\ b.pending_exception_vector = None
  BY <1>1, <1>2, ExceptionStarts DEF Sound
<1>4. Agree(c, b, {"r", "pending_mem_op", "pending_trapa_imm", "pending_exception_vector"})
  BY <1>3 DEF Agree
<1>5. Sound(b) /\ \E d, n : After(b, m) = At(d, n) /\ Entered(c, m, d, n, vector, c.pc)
  BY <1>1, <1>3, <1>4, EntryIs
<1> QED BY <1>2, <1>3, <1>5

\* RTE, to the end of its accesses.
LEMMA AfterRte ==
    ASSUME NEW c, Sound(c), StackOK(c), c.pending_branch_target = None,
           c.has_exception_return_context, NEW m, NEW i, i.op = "RTE"
    PROVE  LET b == execute_instruction(c, i)
           IN  /\ Sound(b) /\ Kind(b) = "RtePopPc" /\ Agree(c, b, {"pc", "pending_mem_op"})
               /\ \E d : /\ After(b, m) = At(d, m)
                         /\ d.r = [c.r EXCEPT ![15] = u32_add(c.r[15], 8)]
                         /\ SlotOf(d) = [target |-> Some(ReadMem(m, c.r[15], 4)),
                                         sr |-> Some(ReadMem(m, u32_add(c.r[15], 4), 4))]
                         /\ d.pc = u32_add(c.pc, 2) /\ d.sys = c.sys
<1>1. PICK b : b = execute_instruction(c, i)
  OBVIOUS
<1>2. /\ Agree(c, b, {"pc", "pending_mem_op"}) /\ b.pc = u32_add(c.pc, 2)
      /\ b.pending_mem_op = MemOp("RtePopPc", to_phys(c.r[15]), 0)
  BY <1>1, ReturnStarts DEF Sound
<1>3. PICK top \in Int : top = c.r[15]
  BY DEF StackOK
<1>4. /\ Kind(b) = "RtePopPc" /\ b.pending_mem_op.phys_addr = to_phys(top)
      /\ b.pending_mem_op.size = 4
  BY <1>2, <1>3 DEF Kind, MemOp, Access
<1>5. Sound(b)
  <2>1. Kind(b) \in AllKinds
    BY <1>4 DEF AllKinds, RteKinds
  <2> QED BY <1>2, <2>1, StaysSound
<1>6. b.r = c.r /\ b.sys = c.sys
  BY <1>2, AgreeFields
<1>7. 15 \in DOMAIN b.r /\ b.r[15] = top
  BY <1>3, <1>6 DEF StackOK
<1>8. PICK d : After(b, m) = At(d, m) /\ ReturnDone(b, m, d, top)
  BY <1>4, <1>5, <1>7, AfterReturn
<1>9. u32_add(u32_add(top, 4), 4) = u32_add(top, 8)
  BY FourTwice
<1>10. d.pc = b.pc /\ d.sys = b.sys
  BY <1>8, AgreeFields DEF ReturnDone
<1>11. d.r = [c.r EXCEPT ![15] = u32_add(top, 8)]
  BY <1>6, <1>8, <1>9 DEF ReturnDone
<1>12. SlotOf(d) = [target |-> Some(ReadMem(m, top, 4)),
                    sr     |-> Some(ReadMem(m, u32_add(top, 4), 4))]
  BY <1>8 DEF ReturnDone
<1> QED BY <1>1, <1>2, <1>3, <1>4, <1>5, <1>6, <1>8, <1>10, <1>11, <1>12

-----------------------------------------------------------------------------
(* Memory instructions *)

\* d is c after a memory instruction
Completed(c, d, regs, sys) ==
    Left(c, d, u32_add(c.pc, 2), EmptySlot, sys) /\ d.r = regs

\* What a memory instruction has changed when its access is on the bus
Begun(c, b) ==
    /\ Sound(b) /\ Agree(c, b, {"r", "pending_mem_op"})
    /\ Kind(b) \in PlainKinds \cup RmwReadKinds

\* Words are numbers, and so are their sums.
LEMMA WordsAdd == /\ \A a \in Word : a \in Int
                  /\ \A a, b \in Int : u32_add(a, b) \in Int /\ u32_sub(a, b) \in Int
BY WordFacts DEF u32_add, u32_sub

\* Effective addresses are numbers.
LEMMA AddressIsInt ==
    ASSUME NEW c, HasWords(c), NEW i, WellFormed(i), i.op \in {"LOAD", "STORE"}, NEW b \in Regs
    PROVE  Address(i, b, c.pc, c.r, c.sys) \in Int
<1>1. /\ i.x \in Int /\ i.mode \in Modes /\ i.size \in Int
  BY DEF WellFormed, AccessSizes
<1>2. c.pc \in Int /\ c.r[b] \in Int /\ c.r[0] \in Int /\ c.sys["GBR"] \in Int
  BY WordsAdd, RegsAssumption DEF HasWords, SysRegs
<1>3. u32_add(c.pc, 4) \in Int
  <2>1. 4 \in Int
    OBVIOUS
  <2> QED BY <1>2, <2>1, WordsAdd
<1>4. pc_base(c.pc, i.size) \in Int
  <2>1. PICK a \in Int : a = u32_add(c.pc, 4)
    BY <1>3
  <2> QED BY <2>1 DEF pc_base
<1>5. CASE i.mode \in {"@R", "@R+"}
  BY <1>2, <1>5 DEF Address
<1>6. CASE i.mode = "@-R"
  BY <1>1, <1>2, <1>6, WordsAdd DEF Address
<1>7. CASE i.mode = "@(disp,R)"
  BY <1>1, <1>2, <1>7, WordsAdd DEF Address
<1>8. CASE i.mode = "@(R0,R)"
  BY <1>1, <1>2, <1>8, WordsAdd DEF Address
<1>9. CASE i.mode = "@(disp,GBR)"
  BY <1>1, <1>2, <1>9, WordsAdd DEF Address
<1>10. CASE i.mode = "@(disp,PC)"
  BY <1>1, <1>4, <1>10, WordsAdd DEF Address
<1> QED BY <1>1, <1>5, <1>6, <1>7, <1>8, <1>9, <1>10 DEF Modes

\* One access, seen from the instruction that began it.
LEMMA AfterBegun ==
    ASSUME NEW c, Sound(c), NEW b, Agree(c, b, {"r", "pending_mem_op"}), Kind(b) \in PlainKinds,
           NEW m, NEW p, p = b.pending_mem_op, NEW a \in Int, p.phys_addr = to_phys(a),
           NEW v, v = ReadMem(m, a, p.size)
    PROVE  /\ Begun(c, b)
           /\ \E d : /\ After(b, m) = At(d, PlainMem(b, m, p, a))
                     /\ Completed(c, d, SteppedReg(p, LoadedReg(p, b.r, v)), LoadedSys(p, c.sys, v))
<1>1. Kind(b) \in AllKinds
  BY DEF AllKinds
<1>2. Sound(b) /\ SlotOf(b) = SlotOf(c)
  BY <1>1, StaysSound
<1>3. b.pc = c.pc /\ b.sys = c.sys
  BY AgreeFields
<1>4. PICK d : After(b, m) = At(d, PlainMem(b, m, p, a)) /\ PlainDone(b, m, d, p, a)
  BY <1>2, AfterPlain
<1>5. /\ Left(b, d, u32_add(b.pc, 2), EmptySlot, LoadedSys(p, b.sys, v))
      /\ d.r = SteppedReg(p, LoadedReg(p, b.r, v))
  BY <1>4 DEF PlainDone
<1>6. Left(c, d, u32_add(c.pc, 2), EmptySlot, LoadedSys(p, c.sys, v))
  BY <1>2, <1>3, <1>5 DEF Left
<1> QED BY <1>2, <1>4, <1>5, <1>6 DEF Begun, Completed

\* The registers after a load
LoadRegs(i, r, v) ==
    [(IF i.mode = "@R+" THEN [r EXCEPT ![i.m] = u32_add(r[i.m], i.size)] ELSE r)
       EXCEPT ![i.n] = Extended(v, i.size)]

\* The pointer is stepped after the load but keeps a loaded value.
LEMMA LoadedIsSteppedFirst ==
    ASSUME NEW r \in [Regs -> Word], NEW i, i.m \in Regs, i.n \in Regs, NEW x, NEW p,
           p.dst_reg = i.n, p.size = i.size,
           p.post_inc_reg = IF i.mode = "@R+" THEN i.m ELSE NoReg,
           NEW s, s = (IF i.mode = "@R+" THEN [r EXCEPT ![i.m] = u32_add(r[i.m], i.size)] ELSE r)
    PROVE  SteppedReg(p, [r EXCEPT ![i.n] = x]) = [s EXCEPT ![i.n] = x]
<1>1. CASE i.mode # "@R+"
  <2>1. p.post_inc_reg \notin Regs
    BY <1>1, RegsAssumption DEF NoReg
  <2> QED BY <1>1, <2>1 DEF SteppedReg
<1>2. CASE i.mode = "@R+" /\ i.m = i.n
  BY <1>2 DEF SteppedReg
<1>3. CASE i.mode = "@R+" /\ i.m # i.n
  <2>1. PICK t : t = [r EXCEPT ![i.n] = x]
    OBVIOUS
  <2>2. t[i.m] = r[i.m]
    BY <1>3, <2>1
  <2>3. PICK w : w = u32_add(r[i.m], i.size)
    OBVIOUS
  <2>4. SteppedReg(p, t) = [t EXCEPT ![i.m] = w]
    BY <1>3, <2>2, <2>3 DEF SteppedReg
  <2>5. [t EXCEPT ![i.m] = w] = [[r EXCEPT ![i.m] = w] EXCEPT ![i.n] = x]
    BY <1>3, <2>1
  <2> QED BY <1>3, <2>1, <2>3, <2>4, <2>5
<1> QED BY <1>1, <1>2, <1>3

\* A load of a cached line waits for its read, whose answer completes it.
LEMMA AfterLoad ==
    ASSUME NEW c, Sound(c), HasWords(c), NEW i, WellFormed(i), i.op = "LOAD", NEW m,
           NEW a, a = Address(i, i.m, c.pc, c.r, c.sys)
    PROVE  LET b == decode_memory(c, i)
           IN  /\ Begun(c, b)
               /\ \E d : /\ After(b, m) = At(d, m)
                         /\ Completed(c, d, LoadRegs(i, c.r, ReadMem(m, a, i.size)), c.sys)
<1>1. /\ a \in Int /\ i.m \in Regs /\ i.n \in Regs /\ i.size \in {1, 2, 4}
  BY AddressIsInt DEF WellFormed, AccessSizes
<1>2. PICK o : o = Access(ReadKind(i.size), to_phys(a), i.size, 0)
  OBVIOUS
<1>3. PICK q : q = IF i.mode = "@R+" THEN i.m ELSE NoReg
  OBVIOUS
<1>4. PICK p : p = [o EXCEPT !.dst_reg = i.n, !.post_inc_reg = q]
  OBVIOUS
<1>5. PICK b : b = Await(c, p)
  OBVIOUS
<1>6. decode_memory(c, i) = b
  BY <1>2, <1>3, <1>4, <1>5 DEF decode_memory, RmwOps
<1>7. /\ p.kind = ReadKind(i.size) /\ p.phys_addr = to_phys(a) /\ p.size = i.size
      /\ p.dst_reg = i.n /\ p.load_to = "R" /\ p.post_inc_reg = q
  BY <1>2, <1>4 DEF Access
<1>8. p.kind \in Reads
  BY <1>7 DEF ReadKind, Reads
<1>9. Agree(c, b, {"pending_mem_op"}) /\ b.pending_mem_op = p
  BY <1>5, AwaitAgrees DEF Sound
<1>10. /\ Agree(c, b, {"r", "pending_mem_op"}) /\ Kind(b) = p.kind /\ b.r = c.r
  BY <1>9, AgreeFields DEF Agree, Kind
<1>11. Kind(b) \in PlainKinds /\ Kind(b) \notin WriteKinds
  BY <1>8, <1>10 DEF PlainKinds, WriteKinds, Reads
<1>12. PICK v : v = ReadMem(m, a, p.size)
  OBVIOUS
<1>13. /\ Begun(c, b)
       /\ \E d : /\ After(b, m) = At(d, PlainMem(b, m, p, a))
                 /\ Completed(c, d, SteppedReg(p, LoadedReg(p, b.r, v)), LoadedSys(p, c.sys, v))
  BY <1>1, <1>7, <1>9, <1>10, <1>11, <1>12, AfterBegun
<1>14. PlainMem(b, m, p, a) = m
  BY <1>11 DEF PlainMem
<1>15. LoadedSys(p, c.sys, v) = c.sys
  BY <1>7 DEF LoadedSys, ToSys
<1>16. LoadedReg(p, b.r, v) = [c.r EXCEPT ![i.n] = Extended(v, i.size)]
  BY <1>7, <1>8, <1>10 DEF LoadedReg, ToSys
<1>17. SteppedReg(p, LoadedReg(p, b.r, v)) = LoadRegs(i, c.r, v)
  <2>1. PICK s : s = (IF i.mode = "@R+" THEN [c.r EXCEPT ![i.m] = u32_add(c.r[i.m], i.size)] ELSE c.r)
    OBVIOUS
  <2>2. PICK x : x = Extended(v, i.size)
    OBVIOUS
  <2>3. SteppedReg(p, [c.r EXCEPT ![i.n] = x]) = [s EXCEPT ![i.n] = x]
    <3>1. c.r \in [Regs -> Word]
      BY DEF HasWords
    <3>2. p.post_inc_reg = IF i.mode = "@R+" THEN i.m ELSE NoReg
      BY <1>3, <1>7
    <3> QED BY <1>1, <1>7, <2>1, <3>1, <3>2, LoadedIsSteppedFirst, SMTT(40)
  <2> QED BY <1>16, <2>1, <2>2, <2>3 DEF LoadRegs
<1> QED BY <1>6, <1>7, <1>12, <1>13, <1>14, <1>15, <1>17

\* A write keeps the registers that its instruction has set.
LEMMA WriteKeeps ==
    ASSUME NEW p, p.kind \in {"WriteByte", "WriteWord", "WriteLong"}, p.post_inc_reg = NoReg,
           NEW r, NEW sys, NEW v
    PROVE  LoadedSys(p, sys, v) = sys /\ SteppedReg(p, LoadedReg(p, r, v)) = r
<1>1. LoadedSys(p, sys, v) = sys /\ LoadedReg(p, r, v) = r
  BY DEF LoadedSys, LoadedReg, ToSys, Reads
<1>2. SteppedReg(p, r) = r
  BY RegsAssumption DEF SteppedReg, NoReg
<1> QED BY <1>1, <1>2

\* The registers after a store
StoreRegs(i, r) == IF i.mode = "@-R" THEN [r EXCEPT ![i.n] = u32_sub(r[i.n], i.size)] ELSE r

\* A store of a cached line waits for its write, whose answer completes it.
LEMMA AfterStore ==
    ASSUME NEW c, Sound(c), HasWords(c), NEW i, WellFormed(i), i.op = "STORE", NEW m,
           i.mode = "@-R" => i.n # i.m,
           NEW a, a = Address(i, i.n, c.pc, c.r, c.sys)
    PROVE  LET b == decode_memory(c, i)
           IN  /\ Begun(c, b)
               /\ \E d : /\ After(b, m) = At(d, WriteMem(m, a, i.size, c.r[i.m]))
                         /\ Completed(c, d, StoreRegs(i, c.r), c.sys)
<1>1. /\ a \in Int /\ i.m \in Regs /\ i.n \in Regs /\ i.size \in AccessSizes
  BY AddressIsInt DEF WellFormed
<1>2. PICK g : g = IF i.mode = "@-R" THEN [c EXCEPT !.r[i.n] = u32_sub(@, i.size)] ELSE c
  OBVIOUS
<1>3. Agree(c, g, {"r"}) /\ g.r = StoreRegs(i, c.r)
  <2>1. CASE i.mode = "@-R"
    <3>1. PICK x : x = u32_sub(c.r[i.n], i.size)
      OBVIOUS
    <3>2. g = [c EXCEPT !.r[i.n] = x]
      BY <1>2, <2>1, <3>1
    <3>3. Agree(c, g, {"r"}) /\ g.r = [c.r EXCEPT ![i.n] = x]
      BY <3>2 DEF Agree, IsCore, CoreFields, Sound
    <3> QED BY <2>1, <3>1, <3>3 DEF StoreRegs
  <2>2. CASE i.mode # "@-R"
    BY <1>2, <2>2 DEF StoreRegs, Agree, Sound
  <2> QED BY <2>1, <2>2
<1>4. PICK w : w = c.r[i.m] /\ w \in Word
  BY <1>1 DEF HasWords
<1>5. g.r[i.m] = w
  <2>1. StoreRegs(i, c.r)[i.m] = c.r[i.m]
    BY <1>1 DEF StoreRegs, HasWords
  <2> QED BY <1>3, <1>4, <2>1
<1>6. PICK p : p = Access(StoreKind(i.size), to_phys(a), i.size, Truncated(w, i.size))
  OBVIOUS
<1>7. PICK b : b = Await(g, p)
  OBVIOUS
<1>8. decode_memory(c, i) = b
  <2>1. decode_memory(c, i) = Await(g, Access(StoreKind(i.size),
                               to_phys(Address(i, i.n, c.pc, c.r, c.sys)), i.size,
                               Truncated(g.r[i.m], i.size)))
    BY <1>2 DEF decode_memory, RmwOps
  <2> QED BY <1>5, <1>6, <1>7, <2>1
<1>9. /\ p.kind = StoreKind(i.size) /\ p.phys_addr = to_phys(a) /\ p.size = i.size
      /\ p.value = Truncated(w, i.size) /\ p.post_inc_reg = NoReg
  BY <1>6 DEF Access
<1>10. p.kind \in {"WriteByte", "WriteWord", "WriteLong"}
  BY <1>9 DEF StoreKind
<1>11. Agree(g, b, {"pending_mem_op"}) /\ b.pending_mem_op = p
  BY <1>3, <1>7, AwaitAgrees DEF Agree
<1>12. Kind(b) = p.kind /\ b.r = g.r
  BY <1>11, AgreeFields DEF Kind
<1>13. Agree(c, b, {"r", "pending_mem_op"})
  BY <1>3, <1>11 DEF Agree
<1>14. Kind(b) \in PlainKinds /\ Kind(b) \in WriteKinds
  BY <1>10, <1>12 DEF PlainKinds, WriteKinds
<1>15. PICK v : v = ReadMem(m, a, p.size)
  OBVIOUS
<1>16. /\ Begun(c, b)
       /\ \E d : /\ After(b, m) = At(d, PlainMem(b, m, p, a))
                 /\ Completed(c, d, SteppedReg(p, LoadedReg(p, b.r, v)), LoadedSys(p, c.sys, v))
  BY <1>1, <1>9, <1>11, <1>13, <1>14, <1>15, AfterBegun
<1>17. PlainMem(b, m, p, a) = WriteMem(m, a, i.size, w)
  BY <1>1, <1>4, <1>9, <1>14, TruncatedBytes DEF PlainMem
<1>18. /\ LoadedSys(p, c.sys, v) = c.sys
       /\ SteppedReg(p, LoadedReg(p, b.r, v)) = StoreRegs(i, c.r)
  BY <1>3, <1>9, <1>10, <1>12, WriteKeeps
<1> QED BY <1>4, <1>8, <1>16, <1>17, <1>18

\* Pushes of system registers.
LEMMA AfterPush ==
    ASSUME NEW c, Sound(c), HasWords(c), NEW i, WellFormed(i), i.op = "PUSH", NEW m,
           NEW top, top = u32_sub(c.r[i.n], 4)
    PROVE  LET b == decode_memory(c, i)
           IN  /\ Begun(c, b)
               /\ \E d : /\ After(b, m) = At(d, WriteMem(m, top, 4, c.sys[i.sys]))
                         /\ Completed(c, d, [c.r EXCEPT ![i.n] = top], c.sys)
<1>1. i.n \in Regs /\ c.r[i.n] \in Int
  BY WordsAdd DEF WellFormed, HasWords
<1>2. top \in Int
  <2>1. 4 \in Int
    OBVIOUS
  <2> QED BY <1>1, <2>1, WordsAdd
<1>3. PICK s : s = c.sys[i.sys]
  OBVIOUS
<1>4. PICK b : b = PushTo(c, i.n, "WriteLong", s)
  OBVIOUS
<1>5. decode_memory(c, i) = b
  BY <1>3, <1>4 DEF decode_memory, RmwOps
<1>6. PICK p : p = MemOp("WriteLong", to_phys(top), s)
  OBVIOUS
<1>7. PICK r : r = [c.r EXCEPT ![i.n] = top]
  OBVIOUS
<1>8. Agree(c, b, {"r", "pending_mem_op"}) /\ b.r = r /\ b.pending_mem_op = p
  <2>1. IsCore(c)
    BY DEF Sound
  <2>2. PICK k : k = i.n
    OBVIOUS
  <2>3. /\ Agree(c, b, {"r", "pending_mem_op"}) /\ b.r = [c.r EXCEPT ![k] = top]
        /\ b.pending_mem_op = MemOp("WriteLong", to_phys(top), s)
    BY <1>4, <2>1, <2>2, PushAgrees
  <2> QED BY <1>6, <1>7, <2>2, <2>3
<1>9. /\ p.kind = "WriteLong" /\ p.phys_addr = to_phys(top) /\ p.size = 4 /\ p.value = s
      /\ p.post_inc_reg = NoReg
  BY <1>6 DEF MemOp, Access
<1>10. Kind(b) \in PlainKinds /\ Kind(b) \in WriteKinds
  BY <1>8, <1>9 DEF PlainKinds, WriteKinds, Kind
<1>11. PICK v : v = ReadMem(m, top, p.size)
  OBVIOUS
<1>12. /\ Begun(c, b)
       /\ \E d : /\ After(b, m) = At(d, PlainMem(b, m, p, top))
                 /\ Completed(c, d, SteppedReg(p, LoadedReg(p, b.r, v)), LoadedSys(p, c.sys, v))
  BY <1>2, <1>8, <1>9, <1>10, <1>11, AfterBegun
<1>13. PlainMem(b, m, p, top) = WriteMem(m, top, 4, s)
  BY <1>9, <1>10 DEF PlainMem
<1>14. LoadedSys(p, c.sys, v) = c.sys /\ SteppedReg(p, LoadedReg(p, b.r, v)) = r
  BY <1>8, <1>9, WriteKeeps
<1> QED BY <1>3, <1>5, <1>7, <1>12, <1>13, <1>14

\* Pops of system registers.
LEMMA AfterPop ==
    ASSUME NEW c, Sound(c), HasWords(c), NEW i, WellFormed(i), i.op = "POP", i.n # 0, NEW m
    PROVE  LET b == decode_memory(c, i)
           IN  /\ Begun(c, b)
               /\ \E d : /\ After(b, m) = At(d, m)
                         /\ Completed(c, d, [c.r EXCEPT ![i.n] = u32_add(c.r[i.n], 4)],
                                      [c.sys EXCEPT ![i.sys] = ReadMem(m, c.r[i.n], 4)])
<1>1. i.n \in Regs /\ i.sys \in SysRegs
  BY DEF WellFormed
<1>2. PICK a \in Int : a = c.r[i.n]
  BY <1>1, WordsAdd DEF HasWords
<1>3. PICK o : o = MemOp("ReadLong", to_phys(a), 0)
  OBVIOUS
<1>4. PICK p : p = [o EXCEPT !.load_to = i.sys, !.post_inc_reg = i.n]
  OBVIOUS
<1>5. PICK b : b = Await(c, p)
  OBVIOUS
<1>6. decode_memory(c, i) = b
  BY <1>2, <1>3, <1>4, <1>5 DEF decode_memory, RmwOps, PopFrom
<1>7. /\ p.kind = "ReadLong" /\ p.phys_addr = to_phys(a) /\ p.size = 4
      /\ p.dst_reg = 0 /\ p.load_to = i.sys /\ p.post_inc_reg = i.n
  BY <1>3, <1>4 DEF MemOp, Access
<1>8. ToSys(p)
  BY <1>1, <1>7 DEF ToSys, SysRegs
<1>9. Agree(c, b, {"pending_mem_op"}) /\ b.pending_mem_op = p
  BY <1>5, AwaitAgrees DEF Sound
<1>10. Agree(c, b, {"r", "pending_mem_op"}) /\ Kind(b) = p.kind /\ b.r = c.r
  BY <1>9, AgreeFields DEF Agree, Kind
<1>11. Kind(b) \in PlainKinds /\ Kind(b) \notin WriteKinds
  BY <1>7, <1>10 DEF PlainKinds, WriteKinds, Reads
<1>12. PICK v : v = ReadMem(m, a, p.size)
  OBVIOUS
<1>13. /\ Begun(c, b)
       /\ \E d : /\ After(b, m) = At(d, PlainMem(b, m, p, a))
                 /\ Completed(c, d, SteppedReg(p, LoadedReg(p, b.r, v)), LoadedSys(p, c.sys, v))
  BY <1>7, <1>9, <1>10, <1>11, <1>12, AfterBegun
<1>14. PlainMem(b, m, p, a) = m
  BY <1>11 DEF PlainMem
<1>15. LoadedSys(p, c.sys, v) = [c.sys EXCEPT ![i.sys] = v]
  BY <1>7, <1>8 DEF LoadedSys
<1>16. LoadedReg(p, b.r, v) = c.r
  BY <1>8, <1>10 DEF LoadedReg
<1>17. SteppedReg(p, c.r) = [c.r EXCEPT ![i.n] = u32_add(c.r[i.n], 4)]
  BY <1>1, <1>7 DEF SteppedReg
<1> QED BY <1>2, <1>6, <1>7, <1>12, <1>13, <1>14, <1>15, <1>16, <1>17

\* Read-modify-writes of bytes.
LEMMA AfterRmw ==
    ASSUME NEW c, Sound(c), HasWords(c), NEW i, i.op \in RmwOps,
           NEW m, \A x \in DOMAIN m : m[x] \in Byte, NEW a, a = u32_add(c.sys["GBR"], c.r[0])
    PROVE  LET b == decode_memory(c, i)
           IN  /\ Begun(c, b)
               /\ \E d : /\ After(b, m) =
                              At(d, WriteMem(m, a, 1, RmwResult(i.op, ReadMem(m, a, 1), i.x)))
                         /\ Completed(c, d, c.r, c.sys)
<1>1. a \in Int
  <2>1. c.sys["GBR"] \in Int /\ c.r[0] \in Int
    BY WordsAdd, RegsAssumption DEF HasWords, SysRegs
  <2> QED BY <2>1, WordsAdd
<1>2. PICK o : o = Access(RmwReads[i.op], to_phys(a), 1, 0)
  OBVIOUS
<1>3. PICK p : p = [o EXCEPT !.aux = i.x]
  OBVIOUS
<1>4. PICK b : b = Await(c, p)
  OBVIOUS
<1>5. decode_memory(c, i) = b
  <2>1. i.op \notin {"LOAD", "STORE", "PUSH", "POP"}
    BY DEF RmwOps
  <2> QED BY <1>2, <1>3, <1>4, <2>1 DEF decode_memory
<1>6. /\ p.kind = RmwReads[i.op] /\ p.phys_addr = to_phys(a) /\ p.size = 1 /\ p.aux = i.x
  BY <1>2, <1>3 DEF Access
<1>7. Agree(c, b, {"pending_mem_op"}) /\ b.pending_mem_op = p
  BY <1>4, AwaitAgrees DEF Sound
<1>8. Agree(c, b, {"r", "pending_mem_op"}) /\ Kind(b) = p.kind
  BY <1>7 DEF Agree, Kind
<1>9. b.r = c.r /\ b.pc = c.pc /\ b.sys = c.sys
  BY <1>7, AgreeFields
<1>10. Kind(b) \in RmwReadKinds
  BY <1>6, <1>8 DEF RmwReads, RmwOps, RmwReadKinds
<1>11. Sound(b) /\ SlotOf(b) = SlotOf(c)
  <2>1. Kind(b) \in AllKinds
    BY <1>10 DEF AllKinds
  <2> QED BY <1>8, <2>1, StaysSound
<1>12. PICK d : /\ After(b, m) =
                     At(d, WriteMem(m, a, 1, RmwResult(i.op, ReadMem(m, a, 1), p.aux)))
                /\ ModifyDone(b, d)
  <2>1. Kind(b) = RmwReads[i.op]
    BY <1>6, <1>8
  <2> QED BY <1>1, <1>6, <1>7, <1>11, <2>1, AfterModify
<1>13. Completed(c, d, c.r, c.sys)
  BY <1>9, <1>11, <1>12 DEF Completed, ModifyDone, Left
<1> QED BY <1>5, <1>6, <1>8, <1>10, <1>11, <1>12, <1>13 DEF Begun

-----------------------------------------------------------------------------
(* The steps of Sh2Isa *)

\* The settled core and memory go from c and m to d and n
Moves(c, m, d, n) ==
    /\ Settled.core = c /\ Settled.mem = m /\ Settled'.core = d /\ Settled'.mem = n
    /\ setup' = setup
Quiet ==
    /\ depth' = depth
    /\ core'.pending_exception_vector = core.pending_exception_vector

\* The instruction that Sh2Isa executes.
LEMMA IsaInstr ==
    ASSUME NEW c, Settled.core = c
    PROVE  Arch!ins = InstrAt(setup.program, c.pc) /\ Arch!NoSlot = EmptySlot
BY SameInstr, SameSorts DEF Arch!ins, Arch!NoSlot, EmptySlot

\* ALU instructions.
LEMMA IsaRegister ==
    ASSUME NEW c, NEW m, NEW d, Moves(c, m, d, m), Quiet,
           NEW i, i = InstrAt(setup.program, c.pc), i.op \in AluOps,
           d.r = AluRegs(i, c.r, c.sys),
           Left(c, d, u32_add(c.pc, 2), EmptySlot, AluSys(i, c.r, c.sys))
    PROVE  Arch!Register
<1>1. Arch!ins = i /\ Arch!NoSlot = EmptySlot
  BY IsaInstr DEF Moves
<1>2. /\ Arch!AluRegs(i, c.r, c.sys) = AluRegs(i, c.r, c.sys)
      /\ Arch!AluSys(i, c.r, c.sys) = AluSys(i, c.r, c.sys)
  BY SameRegisters
<1>3. /\ Arch!ins.op \in Arch!AluOps
      /\ Settled'.core.r = Arch!AluRegs(Arch!ins, Settled.core.r, Settled.core.sys)
  BY <1>1, <1>2, SameSorts DEF Moves
<1>4. Arch!LeaveSys(Arch!AluSys(Arch!ins, Settled.core.r, Settled.core.sys))
  BY <1>1, <1>2, SameSorts DEF Moves, Left, Arch!LeaveSys
<1>5. Arch!Retire
  BY <1>1, SameSorts DEF Moves, Left, Arch!Retire, Arch!Leave
<1> QED BY <1>3, <1>4, <1>5 DEF Arch!Register, Moves, Quiet

\* Transfers between registers.
LEMMA IsaTransfer ==
    ASSUME NEW c, NEW m, NEW d, Moves(c, m, d, m), Quiet,
           NEW i, i = InstrAt(setup.program, c.pc), i.op \in {"STC", "MOVA", "LDC"},
           d.r = NextRegs(i, c.pc, c.r, c.sys),
           Left(c, d, u32_add(c.pc, 2), EmptySlot, NextSys(i, c.pc, c.r, c.sys))
    PROVE  Arch!Transfer
<1>1. Arch!ins = i /\ Arch!NoSlot = EmptySlot
  BY IsaInstr DEF Moves
<1>2. i.op \notin AluOps /\ ~Links(i)
  BY SortsDiffer DEF Links
<1>3. Arch!Retire
  BY <1>1, SameSorts DEF Moves, Left, Arch!Retire, Arch!Leave
<1>4. CASE i.op = "STC"
  <2>1. d.r = [c.r EXCEPT ![i.n] = c.sys[i.sys]] /\ NextSys(i, c.pc, c.r, c.sys) = c.sys
    BY <1>2, <1>4 DEF NextRegs, NextSys
  <2>2. Settled'.core.r = [Settled.core.r EXCEPT ![Arch!ins.n] = Settled.core.sys[Arch!ins.sys]]
    BY <1>1, <2>1 DEF Moves
  <2>3. Arch!LeaveSys(Settled.core.sys)
    BY <2>1, SameSorts DEF Moves, Left, Arch!LeaveSys
  <2> QED BY <1>1, <1>3, <1>4, <2>2, <2>3 DEF Arch!Transfer, Moves, Quiet
<1>5. CASE i.op = "MOVA"
  <2>1. /\ d.r = [c.r EXCEPT ![0] = u32_add(pc_base(c.pc, 4), i.x)]
        /\ NextSys(i, c.pc, c.r, c.sys) = c.sys
    BY <1>2, <1>5 DEF NextRegs, NextSys
  <2>2. Arch!u32_add(Arch!pc_base(c.pc, 4), i.x) = u32_add(pc_base(c.pc, 4), i.x)
    BY SameSorts, SameOperands
  <2>3. Settled'.core.r =
          [Settled.core.r EXCEPT ![0] = Arch!u32_add(Arch!pc_base(Settled.core.pc, 4), Arch!ins.x)]
    BY <1>1, <2>1, <2>2 DEF Moves
  <2>4. Arch!LeaveSys(Settled.core.sys)
    BY <2>1, SameSorts DEF Moves, Left, Arch!LeaveSys
  <2> QED BY <1>1, <1>3, <1>5, <2>3, <2>4 DEF Arch!Transfer, Moves, Quiet
<1>6. CASE i.op = "LDC"
  <2>1. d.r = c.r /\ NextSys(i, c.pc, c.r, c.sys) = [c.sys EXCEPT ![i.sys] = c.r[i.n]]
    BY <1>2, <1>6 DEF NextRegs, NextSys
  <2>2. Settled'.core.r = Settled.core.r
    BY <2>1 DEF Moves
  <2>3. Arch!LeaveSys([Settled.core.sys EXCEPT ![Arch!ins.sys] = Settled.core.r[Arch!ins.n]])
    BY <1>1, <2>1, SameSorts DEF Moves, Left, Arch!LeaveSys
  <2> QED BY <1>1, <1>3, <1>6, <2>2, <2>3 DEF Arch!Transfer, Moves, Quiet
<1> QED BY <1>4, <1>5, <1>6

\* Loads.
LEMMA IsaLoad ==
    ASSUME NEW c, NEW m, NEW d, Moves(c, m, d, m), Quiet,
           NEW i, i = InstrAt(setup.program, c.pc), i.op = "LOAD",
           NEW a, a = Address(i, i.m, c.pc, c.r, c.sys),
           Completed(c, d, LoadRegs(i, c.r, ReadMem(m, a, i.size)), c.sys)
    PROVE  Arch!Load
<1>1. Arch!ins = i /\ Arch!NoSlot = EmptySlot
  BY IsaInstr DEF Moves
<1>2. Left(c, d, u32_add(c.pc, 2), EmptySlot, c.sys)
  BY DEF Completed
<1>3. Arch!Retire /\ Arch!LeaveSys(Settled.core.sys)
  BY <1>1, <1>2, SameSorts DEF Moves, Left, Arch!Retire, Arch!Leave, Arch!LeaveSys
<1>4. PICK v : v = ReadMem(m, a, i.size)
  OBVIOUS
<1>5. Arch!ReadMem(m, Arch!Address(i, i.m, c.pc, c.r, c.sys), i.size) = v
  BY <1>4, SameOperands, SameMemory
<1>6. PICK x : x = Extended(v, i.size)
  OBVIOUS
<1>7. PICK s : s = (IF i.mode = "@R+" THEN [c.r EXCEPT ![i.m] = u32_add(c.r[i.m], i.size)] ELSE c.r)
  OBVIOUS
<1>8. d.r = [s EXCEPT ![i.n] = x]
  BY <1>4, <1>6, <1>7 DEF Completed, LoadRegs
<1>9. (IF i.mode = "@R+" THEN [c.r EXCEPT ![i.m] = Arch!u32_add(@, i.size)] ELSE c.r) = s
  BY <1>7, SameSorts
<1>10. Arch!Extended(v, i.size) = x
  BY <1>6, SameMemory
<1> QED BY <1>1, <1>3, <1>5, <1>8, <1>9, <1>10 DEF Arch!Load, Moves, Quiet

\* Stores.
LEMMA IsaStore ==
    ASSUME NEW c, NEW m, NEW d, NEW n, Moves(c, m, d, n), Quiet,
           NEW i, i = InstrAt(setup.program, c.pc), i.op = "STORE",
           NEW a, a = Address(i, i.n, c.pc, c.r, c.sys), n = WriteMem(m, a, i.size, c.r[i.m]),
           Completed(c, d, StoreRegs(i, c.r), c.sys)
    PROVE  Arch!Store
<1>1. Arch!ins = i /\ Arch!NoSlot = EmptySlot
  BY IsaInstr DEF Moves
<1>2. Left(c, d, u32_add(c.pc, 2), EmptySlot, c.sys)
  BY DEF Completed
<1>3. Arch!Retire /\ Arch!LeaveSys(Settled.core.sys)
  BY <1>1, <1>2, SameSorts DEF Moves, Left, Arch!Retire, Arch!Leave, Arch!LeaveSys
<1>4. Arch!WriteMem(m, Arch!Address(i, i.n, c.pc, c.r, c.sys), i.size, c.r[i.m]) = n
  BY SameOperands, SameMemory
<1>5. d.r = IF i.mode = "@-R" THEN [c.r EXCEPT ![i.n] = Arch!u32_sub(@, i.size)] ELSE c.r
  BY SameSorts DEF Completed, StoreRegs
<1> QED BY <1>1, <1>3, <1>4, <1>5 DEF Arch!Store, Moves, Quiet

\* Pushes.
LEMMA IsaPush ==
    ASSUME NEW c, NEW m, NEW d, NEW n, Moves(c, m, d, n), Quiet,
           NEW i, i = InstrAt(setup.program, c.pc), i.op = "PUSH", i.n \in DOMAIN c.r,
           NEW top, top = u32_sub(c.r[i.n], 4), n = WriteMem(m, top, 4, c.sys[i.sys]),
           Completed(c, d, [c.r EXCEPT ![i.n] = top], c.sys)
    PROVE  Arch!Push
<1>1. Arch!ins = i /\ Arch!NoSlot = EmptySlot
  BY IsaInstr DEF Moves
<1>2. Left(c, d, u32_add(c.pc, 2), EmptySlot, c.sys)
  BY DEF Completed
<1>3. Arch!Retire /\ Arch!LeaveSys(Settled.core.sys)
  BY <1>1, <1>2, SameSorts DEF Moves, Left, Arch!Retire, Arch!Leave, Arch!LeaveSys
<1>4. d.r = [c.r EXCEPT ![i.n] = Arch!u32_sub(@, 4)] /\ d.r[i.n] = top
  BY SameSorts DEF Completed
<1>5. n = Arch!WriteMem(m, top, 4, c.sys[i.sys])
  BY SameMemory
<1> QED BY <1>1, <1>3, <1>4, <1>5 DEF Arch!Push, Moves, Quiet

\* Pops.
LEMMA IsaPop ==
    ASSUME NEW c, NEW m, NEW d, Moves(c, m, d, m), Quiet,
           NEW i, i = InstrAt(setup.program, c.pc), i.op = "POP",
           Completed(c, d, [c.r EXCEPT ![i.n] = u32_add(c.r[i.n], 4)],
                     [c.sys EXCEPT ![i.sys] = ReadMem(m, c.r[i.n], 4)])
    PROVE  Arch!Pop
<1>1. Arch!ins = i /\ Arch!NoSlot = EmptySlot
  BY IsaInstr DEF Moves
<1>2. PICK s : s = [c.sys EXCEPT ![i.sys] = ReadMem(m, c.r[i.n], 4)]
  OBVIOUS
<1>3. Left(c, d, u32_add(c.pc, 2), EmptySlot, s)
  BY <1>2 DEF Completed
<1>4. Arch!Retire
  BY <1>1, <1>3, SameSorts DEF Moves, Left, Arch!Retire, Arch!Leave
<1>5. [c.sys EXCEPT ![i.sys] = Arch!ReadMem(m, c.r[i.n], 4)] = s
  BY <1>2, SameMemory
<1>6. Arch!LeaveSys([Settled.core.sys EXCEPT ![Arch!ins.sys] =
                       Arch!ReadMem(Settled.mem, Settled.core.r[Arch!ins.n], 4)])
  BY <1>1, <1>3, <1>5, SameSorts DEF Moves, Left, Arch!LeaveSys
<1>7. d.r = [c.r EXCEPT ![i.n] = Arch!u32_add(@, 4)]
  BY SameSorts DEF Completed
<1> QED BY <1>1, <1>4, <1>6, <1>7 DEF Arch!Pop, Moves, Quiet

\* Read-modify-writes.
LEMMA IsaModify ==
    ASSUME NEW c, NEW m, NEW d, NEW n, Moves(c, m, d, n), Quiet,
           NEW i, i = InstrAt(setup.program, c.pc), i.op \in RmwOps,
           NEW a, a = u32_add(c.sys["GBR"], c.r[0]),
           n = WriteMem(m, a, 1, RmwResult(i.op, ReadMem(m, a, 1), i.x)),
           Completed(c, d, c.r, c.sys)
    PROVE  Arch!Modify
<1>1. Arch!ins = i /\ Arch!NoSlot = EmptySlot
  BY IsaInstr DEF Moves
<1>2. Left(c, d, u32_add(c.pc, 2), EmptySlot, c.sys) /\ d.r = c.r
  BY DEF Completed
<1>3. Arch!Retire /\ Arch!LeaveSys(Settled.core.sys)
  BY <1>1, <1>2, SameSorts DEF Moves, Left, Arch!Retire, Arch!Leave, Arch!LeaveSys
<1>4. Arch!u32_add(c.sys["GBR"], c.r[0]) = a
  BY SameSorts
<1>5. n = Arch!WriteMem(m, a, 1, Arch!RmwResult(i.op, Arch!ReadMem(m, a, 1), i.x))
  BY SameMemory, SameOperands
<1> QED BY <1>1, <1>2, <1>3, <1>4, <1>5, SameSorts DEF Arch!Modify, Moves, Quiet

\* Branches.
LEMMA IsaBranch ==
    ASSUME NEW c, NEW m, NEW d, Moves(c, m, d, m), Quiet,
           NEW i, i = InstrAt(setup.program, c.pc), i.op \in DelayedBranches \cup {"BT", "BF"},
           d.r = NextRegs(i, c.pc, c.r, c.sys),
           Left(c, d, NextPc(i, c.pc, c.r, c.sys),
                [target |-> next_branch_target(c, i), sr |-> None], NextSys(i, c.pc, c.r, c.sys))
    PROVE  Arch!Branch
<1>1. Arch!ins = i /\ Arch!NoSlot = EmptySlot
  BY IsaInstr DEF Moves
<1>2. i.op \notin AluOps \cup {"STC", "LDC", "MOVA"}
  BY SortsDiffer
<1>3. PICK t : t = Target(i, c.pc, c.r, c.sys)
  OBVIOUS
<1>4. /\ Arch!Target(i, c.pc, c.r, c.sys) = t
      /\ Arch!BranchTaken(i, c.sys["SR"]) = BranchTaken(i, c.sys["SR"])
      /\ Arch!Links(i) <=> Links(i)
  BY <1>3, SameOperands
<1>5. PICK s : s = NextSys(i, c.pc, c.r, c.sys)
  OBVIOUS
<1>6. d.r = c.r /\ (IF Links(i) THEN [c.sys EXCEPT !["PR"] = u32_add(c.pc, 4)] ELSE c.sys) = s
  BY <1>2, <1>5 DEF NextRegs, NextSys
<1>7. Arch!LeaveSys(IF Arch!Links(Arch!ins)
                      THEN [Settled.core.sys EXCEPT !["PR"] = Arch!u32_add(Settled.core.pc, 4)]
                      ELSE Settled.core.sys)
  <2>1. (IF Arch!Links(i) THEN [c.sys EXCEPT !["PR"] = Arch!u32_add(c.pc, 4)] ELSE c.sys) = s
    BY <1>4, <1>6, SameSorts
  <2>2. d.sys = IF SlotOf(c).sr = None THEN s ELSE [s EXCEPT !["SR"] = value_of(SlotOf(c).sr)]
    BY <1>5 DEF Left
  <2> QED BY <1>1, <2>1, <2>2, SameSorts DEF Moves, Arch!LeaveSys
<1>8. CASE BranchTaken(i, c.sys["SR"]) /\ i.op \in DelayedBranches
  <2>1. next_branch_target(c, i) = Some(t) /\ NextPc(i, c.pc, c.r, c.sys) = u32_add(c.pc, 2)
    <3>1. i.op \notin {"BT", "BF"}
      BY <1>8, SortsDiffer
    <3> QED BY <1>3, <1>8, <3>1 DEF next_branch_target, NextPc
  <2>2. Arch!Leave(Arch!u32_add(Settled.core.pc, 2), [target |-> Arch!Some(t), sr |-> Arch!None])
    BY <1>1, <2>1, SameSorts DEF Moves, Left, Arch!Leave
  <2> QED BY <1>1, <1>4, <1>6, <1>7, <1>8, <2>2, SameSorts DEF Arch!Branch, Moves, Quiet
<1>9. CASE ~(BranchTaken(i, c.sys["SR"]) /\ i.op \in DelayedBranches)
  <2>1. [target |-> next_branch_target(c, i), sr |-> None] = EmptySlot
    BY <1>9 DEF next_branch_target, EmptySlot
  <2>2. NextPc(i, c.pc, c.r, c.sys) =
          IF BranchTaken(i, c.sys["SR"]) THEN t ELSE u32_add(c.pc, 2)
    <3>1. CASE i.op \in {"BT", "BF"}
      BY <1>3, <3>1 DEF NextPc
    <3>2. CASE i.op \in DelayedBranches
      BY <1>9, <3>2 DEF NextPc
    <3> QED BY <3>1, <3>2
  <2>3. Arch!Leave(IF BranchTaken(i, c.sys["SR"]) THEN t ELSE Arch!u32_add(Settled.core.pc, 2),
                   Arch!NoSlot)
    BY <1>1, <2>1, <2>2, SameSorts DEF Moves, Left, Arch!Leave
  <2> QED BY <1>1, <1>4, <1>6, <1>7, <1>9, <2>3, SameSorts DEF Arch!Branch, Moves, Quiet
<1> QED BY <1>8, <1>9

\* Illegal instructions and RTE outside of handlers.
LEMMA IsaSkip ==
    ASSUME NEW c, NEW m, NEW d, Moves(c, m, d, m), Quiet,
           NEW i, i = InstrAt(setup.program, c.pc),
           i.op = "ILLEGAL" \/ (i.op = "RTE" /\ depth = 0),
           d.r = c.r, Left(c, d, u32_add(c.pc, 2), EmptySlot, c.sys)
    PROVE  Arch!Skip
<1>1. Arch!ins = i /\ Arch!NoSlot = EmptySlot
  BY IsaInstr DEF Moves
<1>2. Arch!Retire /\ Arch!LeaveSys(Settled.core.sys)
  BY <1>1, SameSorts DEF Moves, Left, Arch!Retire, Arch!Leave, Arch!LeaveSys
<1> QED BY <1>1, <1>2 DEF Arch!Skip, Moves, Quiet

\* Entries.
LEMMA IsaEnter ==
    ASSUME NEW c, NEW m, NEW d, NEW n, Moves(c, m, d, n), depth' = depth + 1,
           SlotOf(c) = EmptySlot, NEW vector, NEW return, Entered(c, m, d, n, vector, return)
    PROVE  Arch!Enter(vector, return)
<1>1. Arch!NoSlot = EmptySlot
  BY IsaInstr DEF Moves
<1>2. d.r = [c.r EXCEPT ![15] = Arch!u32_sub(@, 8)]
  BY SameSorts DEF Entered
<1>3. n = Arch!WriteMem(Arch!WriteMem(m, Arch!u32_sub(c.r[15], 4), 4, c.sys["SR"]),
                        Arch!u32_sub(c.r[15], 8), 4, return)
  BY SameSorts, SameMemory DEF Entered
<1>4. d.pc = Arch!ReadMem(n, Arch!u32_add(c.sys["VBR"], 4 * vector), 4)
  BY SameSorts, SameMemory DEF Entered
<1>5. d.sys = c.sys /\ SlotOf(d) = SlotOf(c)
  BY DEF Entered
<1> QED BY <1>1, <1>2, <1>3, <1>4, <1>5 DEF Arch!Enter, Moves

\* TRAPA.
LEMMA IsaTrap ==
    ASSUME NEW c, NEW m, NEW d, NEW n, Moves(c, m, d, n), depth' = depth + 1,
           core'.pending_exception_vector = core.pending_exception_vector,
           NEW i, i = InstrAt(setup.program, c.pc), i.op = "TRAPA",
           SlotOf(c) = EmptySlot, Entered(c, m, d, n, i.x, u32_add(c.pc, 2))
    PROVE  Arch!Trap
<1>1. Arch!ins = i /\ Arch!u32_add(Settled.core.pc, 2) = u32_add(c.pc, 2)
  BY IsaInstr, SameSorts DEF Moves
<1>2. PICK x, y : x = i.x /\ y = u32_add(c.pc, 2)
  OBVIOUS
<1>3. Arch!Enter(x, y)
  BY <1>2, IsaEnter
<1>4. Arch!Enter(Arch!ins.x, Arch!u32_add(Settled.core.pc, 2))
  BY <1>1, <1>2, <1>3 DEF Arch!Enter
<1> QED BY <1>1, <1>4 DEF Arch!Trap

\* Requested exceptions.
LEMMA IsaInterrupt ==
    ASSUME NEW c, NEW m, NEW d, NEW n, Moves(c, m, d, n), depth' = depth + 1,
           NEW v, v = core.pending_exception_vector, v # None,
           core'.pending_exception_vector = None,
           SlotOf(c) = EmptySlot, Entered(c, m, d, n, value_of(v), c.pc)
    PROVE  Arch!Interrupt
<1>1. PICK x, y : x = value_of(v) /\ y = c.pc
  OBVIOUS
<1>2. Arch!Enter(x, y)
  BY <1>1, IsaEnter
<1>3. Arch!Enter(Arch!value_of(core.pending_exception_vector), Settled.core.pc)
  BY <1>1, <1>2, SameSorts DEF Arch!Enter, Moves
<1> QED BY <1>3, SameSorts DEF Arch!Interrupt

\* RTE.
LEMMA IsaReturn ==
    ASSUME NEW c, NEW m, NEW d, Moves(c, m, d, m), depth' = depth - 1, depth > 0,
           core'.pending_exception_vector = core.pending_exception_vector,
           NEW i, i = InstrAt(setup.program, c.pc), i.op = "RTE", SlotOf(c) = EmptySlot,
           d.r = [c.r EXCEPT ![15] = u32_add(c.r[15], 8)],
           SlotOf(d) = [target |-> Some(ReadMem(m, c.r[15], 4)),
                        sr |-> Some(ReadMem(m, u32_add(c.r[15], 4), 4))],
           d.pc = u32_add(c.pc, 2), d.sys = c.sys
    PROVE  Arch!Return
<1>1. Arch!ins = i /\ Arch!NoSlot = EmptySlot
  BY IsaInstr DEF Moves
<1>2. d.r = [c.r EXCEPT ![15] = Arch!u32_add(@, 8)]
  BY SameSorts
<1>3. SlotOf(d) = [target |-> Arch!Some(Arch!ReadMem(m, c.r[15], 4)),
                   sr |-> Arch!Some(Arch!ReadMem(m, Arch!u32_add(c.r[15], 4), 4))]
  BY SameSorts, SameMemory
<1>4. d.pc = Arch!u32_add(c.pc, 2)
  BY SameSorts
<1> QED BY <1>1, <1>2, <1>3, <1>4 DEF Arch!Return, Moves

\* Requests.
LEMMA IsaRequest ==
    ASSUME NEW c, NEW m, NEW d, Moves(c, m, d, m), depth' = depth,
           core'.pending_exception_vector # None,
           d.pc = c.pc, d.r = c.r, d.sys = c.sys, SlotOf(d) = SlotOf(c)
    PROVE  Arch!Request
BY SameSorts DEF Arch!Request, Moves

\* Steps that software does not see.
LEMMA IsaStutter ==
    ASSUME NEW c, NEW m, NEW d, Moves(c, m, d, m), Quiet,
           d.pc = c.pc, d.r = c.r, d.sys = c.sys, SlotOf(d) = SlotOf(c)
    PROVE  UNCHANGED Arch!archVars
BY DEF Arch!archVars, Moves, Quiet

-----------------------------------------------------------------------------
(* The invariant of the refinement *)

\* The operation on the bus, if any, is the one that the core waits for
BusOK(c, o, f) ==
    /\ o.kind \in {"Read", "Write"} => o = data_op(c) /\ Waiting(c)
    /\ o.kind = "IFetch" => o = fetch_op(c) /\ ~Waiting(c)
    /\ o = NoBusOp \/ o.kind \in {"Read", "Write", "IFetch"}
    /\ f \in Int /\ (f > 0 => ~Waiting(c)) /\ (f # Idle => o = NoBusOp)

\* A request waits for a core between two instructions
IrqOK(c, o, f) ==
    c.pending_exception_vector # None =>
        /\ o = NoBusOp /\ f = Idle /\ ~Waiting(c)
        /\ value_of(c.pending_exception_vector) \in Int

\* The return context is the software's count, but for the accesses that change it
ContextOK(c, n) ==
    /\ n \in Nat /\ c.has_exception_return_context \in BOOLEAN
    /\ Kind(c) \in EntryKinds => n = 1
    /\ Kind(c) \in RteKinds => n = 0
    /\ Kind(c) \notin EntryKinds \cup RteKinds => (c.has_exception_return_context <=> n = 1)

\* c is the core at the begin of an instruction, its line filled or not
Ready(c) == Sound(c) /\ ~Waiting(c) /\ HasWords(c) /\ Agree(core, c, {"icache"})

\* What Ready says of the core itself.
LEMMA ReadyCore ==
    ASSUME NEW c, Ready(c)
    PROVE  /\ core.pc = c.pc /\ core.r = c.r /\ core.sys = c.sys /\ SlotOf(core) = SlotOf(c)
           /\ core.pending_exception_vector = c.pending_exception_vector
           /\ core.pending_mem_op = c.pending_mem_op /\ ~Waiting(core) /\ Kind(c) = "None"
           /\ core.pending_branch_target = c.pending_branch_target
<1>1. /\ core.pc = c.pc /\ core.r = c.r /\ core.sys = c.sys
      /\ core.pending_exception_vector = c.pending_exception_vector
      /\ core.pending_mem_op = c.pending_mem_op
      /\ core.pending_branch_target = c.pending_branch_target
      /\ core.pending_rte_restore = c.pending_rte_restore /\ core.pending_new_sr = c.pending_new_sr
  <2>1. PICK b : b = core
    OBVIOUS
  <2>2. Agree(b, c, {"icache"})
    BY <2>1 DEF Ready
  <2> QED BY <2>1, <2>2, AgreeFields
<1>2. SlotOf(core) = SlotOf(c)
  BY <1>1 DEF SlotOf
<1> QED BY <1>1, <1>2 DEF Ready, Waiting, Kind

\* The settled state at the begin of an instruction.
LEMMA ReadySettled ==
    ASSUME NEW c, Ready(c), NEW b, b = core, NEW m, m = mem
    PROVE  Settled = At(b, m) /\ Settled.core = b /\ Settled.mem = m
<1>1. ~Waiting(b)
  BY ReadyCore
<1>2. After(b, m) = At(b, m)
  BY <1>1, AfterRest
<1> QED BY <1>2, SettledIs DEF At

\* Left speaks of pc and the slot only.
LEMMA LeftAlike ==
    ASSUME NEW b, NEW c, SlotOf(b) = SlotOf(c), NEW d, NEW next, NEW taken, NEW sys,
           Left(c, d, next, taken, sys)
    PROVE  Left(b, d, next, taken, sys)
BY DEF Left

\* Sound cores with the same context.
LEMMA ContextKept ==
    ASSUME NEW c, NEW d, NEW n, ContextOK(c, n), Kind(c) \notin EntryKinds \cup RteKinds,
           Kind(d) \notin EntryKinds \cup RteKinds,
           d.has_exception_return_context = c.has_exception_return_context
    PROVE  ContextOK(d, n)
BY Zenon DEF ContextOK

\* An instruction without access is one of Sh2Isa.
LEMMA CalmStep ==
    ASSUME NEW c, Ready(c), ContextOK(c, depth), NEW i, i = instr, Calm(c, i),
           core' = execute_instruction(c, i), mem' = mem, setup' = setup, depth' = depth,
           i.op = "RTE" => depth = 0
    PROVE  /\ Arch!Next /\ Sound(core') /\ ~Waiting(core') /\ ContextOK(core', depth')
           /\ core'.pending_exception_vector = core.pending_exception_vector
<1>1. PICK b, m : b = core /\ m = mem
  OBVIOUS
<1>2. PICK d : d = core'
  OBVIOUS
<1>3. /\ b.pc = c.pc /\ b.r = c.r /\ b.sys = c.sys /\ SlotOf(b) = SlotOf(c)
      /\ b.pending_exception_vector = c.pending_exception_vector /\ Kind(c) = "None"
  BY <1>1, ReadyCore
<1>4. Settled = At(b, m) /\ Settled.core = b /\ Settled.mem = m
  BY <1>1, ReadySettled
<1>5. IsCore(c) /\ SlotOK(c)
  BY DEF Ready, Sound
<1>6. /\ Agree(c, d, Registers)
      /\ Left(c, d, NextPc(i, c.pc, c.r, c.sys),
              [target |-> next_branch_target(c, i), sr |-> None], NextSys(i, c.pc, c.r, c.sys))
      /\ d.r = NextRegs(i, c.pc, c.r, c.sys) /\ SlotOK(d)
  BY <1>2, <1>5, ExecuteLeaves
<1>7. /\ IsCore(d) /\ d.pending_mem_op = c.pending_mem_op
      /\ d.pending_exception_vector = c.pending_exception_vector
      /\ d.has_exception_return_context = c.has_exception_return_context
  BY <1>6, AgreeFields DEF Registers
<1>8. Kind(d) = "None" /\ ~Waiting(d)
  BY <1>3, <1>7 DEF Kind, Waiting
<1>9. Sound(d)
  BY <1>6, <1>7, <1>8 DEF Sound, AllKinds
<1>10. ContextOK(d, depth)
  <2>1. "None" \notin EntryKinds \cup RteKinds
    BY DEF EntryKinds, TrapaKinds, RteKinds
  <2> QED BY <1>3, <1>7, <1>8, <2>1, ContextKept
<1>11. Settled'.core = d /\ Settled'.mem = m
  <2>1. After(d, m) = At(d, m)
    BY <1>8, AfterRest
  <2> QED BY <1>1, <1>2, <2>1, SettledNext DEF At
<1>12. Moves(b, m, d, m) /\ Quiet
  BY <1>1, <1>2, <1>3, <1>4, <1>7, <1>11 DEF Moves, Quiet
<1>13. i = InstrAt(setup.program, b.pc)
  BY <1>1 DEF instr
<1>14. /\ Left(b, d, NextPc(i, b.pc, b.r, b.sys),
               [target |-> next_branch_target(c, i), sr |-> None], NextSys(i, b.pc, b.r, b.sys))
       /\ d.r = NextRegs(i, b.pc, b.r, b.sys)
  BY <1>3, <1>6, LeftAlike
<1>15. next_branch_target(c, i) = next_branch_target(b, i)
  BY <1>3 DEF next_branch_target
<1>16. ASSUME i.op \notin DelayedBranches \cup {"BT", "BF"}
       PROVE  Left(b, d, u32_add(b.pc, 2), EmptySlot, NextSys(i, b.pc, b.r, b.sys))
  <2>1. NextPc(i, b.pc, b.r, b.sys) = u32_add(b.pc, 2)
    BY <1>16 DEF NextPc
  <2>2. [target |-> next_branch_target(c, i), sr |-> None] = EmptySlot
    BY <1>16 DEF next_branch_target, EmptySlot
  <2> QED BY <1>14, <2>1, <2>2
<1>17. ASSUME i.op \in AluOps PROVE Arch!Next
  <2>1. i.op \notin DelayedBranches \cup {"BT", "BF"}
    BY <1>17, SortsDiffer
  <2>2. /\ NextRegs(i, b.pc, b.r, b.sys) = AluRegs(i, b.r, b.sys)
        /\ NextSys(i, b.pc, b.r, b.sys) = AluSys(i, b.r, b.sys)
    <3>1. i.op \notin {"STC", "LDC", "MOVA"} /\ ~Links(i)
      BY <1>17, <2>1, SortsDiffer DEF Links, DelayedBranches
    <3> QED BY <1>17, <3>1 DEF NextRegs, NextSys
  <2>3. /\ d.r = AluRegs(i, b.r, b.sys)
        /\ Left(b, d, u32_add(b.pc, 2), EmptySlot, AluSys(i, b.r, b.sys))
    BY <1>14, <1>16, <2>1, <2>2
  <2>4. Arch!Register
    BY <1>12, <1>13, <1>17, <2>3, IsaRegister
  <2> QED BY <2>4 DEF Arch!Next
<1>18. ASSUME i.op \in {"STC", "MOVA", "LDC"} PROVE Arch!Next
  <2>1. i.op \notin DelayedBranches \cup {"BT", "BF"}
    BY <1>18, SortsDiffer
  <2>2. Left(b, d, u32_add(b.pc, 2), EmptySlot, NextSys(i, b.pc, b.r, b.sys))
    BY <1>16, <2>1
  <2>3. Arch!Transfer
    BY <1>12, <1>13, <1>14, <1>18, <2>2, IsaTransfer
  <2> QED BY <2>3 DEF Arch!Next
<1>19. ASSUME i.op \in DelayedBranches \cup {"BT", "BF"} PROVE Arch!Next
  <2>1. Arch!Branch
    BY <1>12, <1>13, <1>14, <1>15, <1>19, IsaBranch
  <2> QED BY <2>1 DEF Arch!Next
<1>20. ASSUME i.op \in {"ILLEGAL", "RTE"} PROVE Arch!Next
  <2>1. i.op \notin DelayedBranches \cup {"BT", "BF"}
    BY <1>20, SortsDiffer
  <2>2. NextRegs(i, b.pc, b.r, b.sys) = b.r /\ NextSys(i, b.pc, b.r, b.sys) = b.sys
    <3>1. i.op \notin AluOps \cup {"STC", "LDC", "MOVA"} /\ ~Links(i)
      BY <1>20, SortsDiffer DEF Links
    <3> QED BY <3>1 DEF NextRegs, NextSys
  <2>3. d.r = b.r /\ Left(b, d, u32_add(b.pc, 2), EmptySlot, b.sys)
    BY <1>14, <1>16, <2>1, <2>2
  <2>4. i.op = "ILLEGAL" \/ (i.op = "RTE" /\ depth = 0)
    BY <1>20
  <2>5. Arch!Skip
    BY <1>12, <1>13, <2>3, <2>4, IsaSkip
  <2> QED BY <2>5 DEF Arch!Next
<1>21. Arch!Next
  BY <1>17, <1>18, <1>19, <1>20 DEF Calm, Ops, Traps
<1> QED BY <1>1, <1>2, <1>3, <1>7, <1>8, <1>9, <1>10, <1>21

\* Words are what an entry or a return computes with.
LEMMA WordsOnStack ==
    ASSUME NEW c, HasWords(c)
    PROVE  StackOK(c)
BY WordsAdd, RegsAssumption DEF HasWords, StackOK, SysRegs

\* Entered speaks of registers and the slot only.
LEMMA EnteredAlike ==
    ASSUME NEW b, NEW c, SlotOf(b) = SlotOf(c), b.r = c.r, b.sys = c.sys,
           NEW m, NEW d, NEW n, NEW vector, NEW return, Entered(c, m, d, n, vector, return)
    PROVE  Entered(b, m, d, n, vector, return)
BY DEF Entered

\* TRAPA is the trap of Sh2Isa.
LEMMA TrapStep ==
    ASSUME NEW c, Ready(c), ContextOK(c, depth), NEW i, i = instr, i.op = "TRAPA", i.x \in Int,
           c.pending_branch_target = None,
           core' = execute_instruction(c, i), mem' = mem, setup' = setup,
           depth' = depth + 1, depth' <= 1
    PROVE  /\ Arch!Next /\ Sound(core') /\ ContextOK(core', depth')
           /\ core'.pending_exception_vector = core.pending_exception_vector
<1>1. PICK b, m : b = core /\ m = mem
  OBVIOUS
<1>2. PICK e : e = core'
  OBVIOUS
<1>3. /\ b.pc = c.pc /\ b.r = c.r /\ b.sys = c.sys /\ SlotOf(b) = SlotOf(c)
      /\ b.pending_exception_vector = c.pending_exception_vector /\ Kind(c) = "None"
  BY <1>1, ReadyCore
<1>4. Settled.core = b /\ Settled.mem = m
  BY <1>1, ReadySettled
<1>5. Sound(c) /\ SlotOK(c) /\ StackOK(c)
  BY WordsOnStack DEF Ready, Sound
<1>6. /\ Sound(e) /\ Kind(e) = "TrapaPushSr"
      /\ Agree(c, e, {"r", "pending_mem_op", "pending_trapa_imm"})
      /\ \E d, n : After(e, m) = At(d, n) /\ Entered(c, m, d, n, i.x, u32_add(c.pc, 2))
  BY <1>2, <1>5, AfterTrap
<1>7. PICK d, n : After(e, m) = At(d, n) /\ Entered(c, m, d, n, i.x, u32_add(c.pc, 2))
  BY <1>6
<1>8. /\ e.pending_exception_vector = c.pending_exception_vector
      /\ e.has_exception_return_context = c.has_exception_return_context
  BY <1>6, AgreeFields
<1>9. Settled'.core = d /\ Settled'.mem = n
  BY <1>1, <1>2, <1>7, SettledNext DEF At
<1>10. Moves(b, m, d, n)
  BY <1>4, <1>9 DEF Moves
<1>11. Entered(b, m, d, n, i.x, u32_add(b.pc, 2))
  BY <1>3, <1>7, EnteredAlike
<1>12. SlotOf(b) = EmptySlot
  BY <1>3, <1>5, SlotFacts
<1>13. i = InstrAt(setup.program, b.pc)
  BY <1>1 DEF instr
<1>14. core'.pending_exception_vector = core.pending_exception_vector
  BY <1>1, <1>2, <1>3, <1>8
<1>15. Arch!Trap
  BY <1>10, <1>11, <1>12, <1>13, <1>14, IsaTrap
<1>16. ContextOK(e, depth')
  <2>1. depth' = 1 /\ c.has_exception_return_context \in BOOLEAN
    BY DEF ContextOK
  <2>2. Kind(e) \in EntryKinds /\ Kind(e) \notin RteKinds
    BY <1>6 DEF EntryKinds, TrapaKinds, RteKinds
  <2> QED BY <1>8, <2>1, <2>2 DEF ContextOK
<1> QED BY <1>2, <1>6, <1>14, <1>15, <1>16 DEF Arch!Next

\* RTE in a handler is the return of Sh2Isa.
LEMMA ReturnStep ==
    ASSUME NEW c, Ready(c), ContextOK(c, depth), NEW i, i = instr, i.op = "RTE",
           c.pending_branch_target = None, depth = 1,
           core' = execute_instruction(c, i), mem' = mem, setup' = setup, depth' = depth - 1
    PROVE  /\ Arch!Next /\ Sound(core') /\ ContextOK(core', depth')
           /\ core'.pending_exception_vector = core.pending_exception_vector
<1>1. PICK b, m : b = core /\ m = mem
  OBVIOUS
<1>2. PICK e : e = core'
  OBVIOUS
<1>3. /\ b.pc = c.pc /\ b.r = c.r /\ b.sys = c.sys /\ SlotOf(b) = SlotOf(c)
      /\ b.pending_exception_vector = c.pending_exception_vector /\ Kind(c) = "None"
  BY <1>1, ReadyCore
<1>4. Settled.core = b /\ Settled.mem = m
  BY <1>1, ReadySettled
<1>5. Sound(c) /\ SlotOK(c) /\ StackOK(c)
  BY WordsOnStack DEF Ready, Sound
<1>6. c.has_exception_return_context
  <2>1. Kind(c) \notin EntryKinds \cup RteKinds
    BY <1>3 DEF EntryKinds, TrapaKinds, RteKinds
  <2> QED BY <2>1 DEF ContextOK
<1>7. /\ Sound(e) /\ Kind(e) = "RtePopPc" /\ Agree(c, e, {"pc", "pending_mem_op"})
      /\ \E d : /\ After(e, m) = At(d, m)
                /\ d.r = [c.r EXCEPT ![15] = u32_add(c.r[15], 8)]
                /\ SlotOf(d) = [target |-> Some(ReadMem(m, c.r[15], 4)),
                                sr |-> Some(ReadMem(m, u32_add(c.r[15], 4), 4))]
                /\ d.pc = u32_add(c.pc, 2) /\ d.sys = c.sys
  BY <1>2, <1>5, <1>6, AfterRte
<1>8. PICK d : /\ After(e, m) = At(d, m)
               /\ d.r = [c.r EXCEPT ![15] = u32_add(c.r[15], 8)]
               /\ SlotOf(d) = [target |-> Some(ReadMem(m, c.r[15], 4)),
                               sr |-> Some(ReadMem(m, u32_add(c.r[15], 4), 4))]
               /\ d.pc = u32_add(c.pc, 2) /\ d.sys = c.sys
  BY <1>7
<1>9. /\ e.pending_exception_vector = c.pending_exception_vector
      /\ e.has_exception_return_context = c.has_exception_return_context
  BY <1>7, AgreeFields
<1>10. Settled'.core = d /\ Settled'.mem = m
  BY <1>1, <1>2, <1>8, SettledNext DEF At
<1>11. Moves(b, m, d, m)
  BY <1>4, <1>10 DEF Moves
<1>12. SlotOf(b) = EmptySlot
  BY <1>3, <1>5, SlotFacts
<1>13. i = InstrAt(setup.program, b.pc)
  BY <1>1 DEF instr
<1>14. core'.pending_exception_vector = core.pending_exception_vector
  BY <1>1, <1>2, <1>3, <1>9
<1>15. /\ d.r = [b.r EXCEPT ![15] = u32_add(b.r[15], 8)]
       /\ SlotOf(d) = [target |-> Some(ReadMem(m, b.r[15], 4)),
                       sr |-> Some(ReadMem(m, u32_add(b.r[15], 4), 4))]
       /\ d.pc = u32_add(b.pc, 2) /\ d.sys = b.sys
  BY <1>3, <1>8
<1>16. Arch!Return
  BY <1>11, <1>12, <1>13, <1>14, <1>15, IsaReturn
<1>17. ContextOK(e, depth')
  <2>1. depth' = 0 /\ c.has_exception_return_context \in BOOLEAN
    BY DEF ContextOK
  <2>2. Kind(e) \notin EntryKinds /\ Kind(e) \in RteKinds
    BY <1>7 DEF EntryKinds, TrapaKinds, RteKinds
  <2>3. e.has_exception_return_context \in BOOLEAN /\ 0 \in Nat
    BY <1>9, <2>1
  <2> QED BY <2>1, <2>2, <2>3 DEF ContextOK
<1> QED BY <1>2, <1>7, <1>14, <1>16, <1>17 DEF Arch!Next

\* An accepted request is the interrupt of Sh2Isa.
LEMMA ExceptionStep ==
    ASSUME Ready(core), ContextOK(core, depth), NEW v, v = core.pending_exception_vector,
           v # None, value_of(v) \in Int, core.pending_branch_target = None,
           core' = take_exception(core), mem' = mem, setup' = setup,
           depth' = depth + 1, depth' <= 1
    PROVE  /\ Arch!Next /\ Sound(core') /\ Waiting(core') /\ ContextOK(core', depth')
           /\ core'.pending_exception_vector = None
<1>1. PICK c, m : c = core /\ m = mem
  OBVIOUS
<1>2. PICK e : e = core'
  OBVIOUS
<1>3. Settled.core = c /\ Settled.mem = m
  BY <1>1, ReadySettled
<1>4. Sound(c) /\ SlotOK(c) /\ StackOK(c) /\ c.pending_branch_target = None
  BY <1>1, WordsOnStack DEF Ready, Sound
<1>5. PICK x \in Int : x = value_of(v)
  OBVIOUS
<1>6. /\ Sound(e) /\ Kind(e) = "ExceptionPushSr" /\ e.pending_exception_vector = None
      /\ Agree(c, e, {"r", "pending_mem_op", "pending_exception_vector"})
      /\ \E d, n : After(e, m) = At(d, n) /\ Entered(c, m, d, n, x, c.pc)
  <2>1. e = take_exception(c) /\ x = value_of(c.pending_exception_vector)
    BY <1>1, <1>2, <1>5
  <2> QED BY <1>4, <2>1, AfterException
<1>7. PICK d, n : After(e, m) = At(d, n) /\ Entered(c, m, d, n, x, c.pc)
  BY <1>6
<1>8. e.has_exception_return_context = c.has_exception_return_context
  BY <1>6, AgreeFields
<1>9. Settled'.core = d /\ Settled'.mem = n
  BY <1>1, <1>2, <1>7, SettledNext DEF At
<1>10. Moves(c, m, d, n)
  BY <1>3, <1>9 DEF Moves
<1>11. SlotOf(c) = EmptySlot
  BY <1>4, SlotFacts
<1>12. Entered(c, m, d, n, value_of(v), c.pc) /\ core'.pending_exception_vector = None
  BY <1>2, <1>5, <1>6, <1>7
<1>13. Arch!Interrupt
  BY <1>10, <1>11, <1>12, IsaInterrupt
<1>14. ContextOK(e, depth')
  <2>1. depth' = 1 /\ c.has_exception_return_context \in BOOLEAN
    BY <1>1 DEF ContextOK
  <2>2. Kind(e) \in EntryKinds /\ Kind(e) \notin RteKinds
    BY <1>6 DEF EntryKinds, TrapaKinds, RteKinds
  <2> QED BY <1>8, <2>1, <2>2 DEF ContextOK
<1>15. Waiting(e)
  BY <1>6 DEF Waiting, Kind
<1> QED BY <1>2, <1>6, <1>12, <1>13, <1>14, <1>15 DEF Arch!Next

\* A memory instruction of a cached line is one of Sh2Isa.
LEMMA MemoryStep ==
    ASSUME Ready(core), ContextOK(core, depth), NEW i, i = instr, WellFormed(i), i.op \in MemoryOps,
           \A x \in DOMAIN mem : mem[x] \in Byte,
           i.op = "POP" => i.n # 0, i.op = "STORE" /\ i.mode = "@-R" => i.n # i.m,
           core' = decode_memory(core, i), mem' = mem, setup' = setup, depth' = depth
    PROVE  /\ Arch!Next /\ Sound(core') /\ Waiting(core') /\ ContextOK(core', depth')
           /\ core'.pending_exception_vector = core.pending_exception_vector
<1>1. PICK c, m : c = core /\ m = mem
  OBVIOUS
<1>2. PICK e : e = core' /\ e = decode_memory(c, i)
  BY <1>1
<1>3. Settled.core = c /\ Settled.mem = m
  BY <1>1, ReadySettled
<1>4. Sound(c) /\ HasWords(c) /\ i = InstrAt(setup.program, c.pc)
  BY <1>1 DEF Ready, instr
<1>5. \A x \in DOMAIN m : m[x] \in Byte
  BY <1>1
<1>6. ASSUME Begun(c, e)
      PROVE  /\ Sound(core') /\ Waiting(core') /\ ContextOK(core', depth')
             /\ core'.pending_exception_vector = core.pending_exception_vector /\ Quiet
  <2>1. Sound(e) /\ Agree(c, e, {"r", "pending_mem_op"}) /\ Kind(e) \in PlainKinds \cup RmwReadKinds
    BY <1>6 DEF Begun
  <2>2. /\ e.pending_exception_vector = c.pending_exception_vector
        /\ e.has_exception_return_context = c.has_exception_return_context
    BY <2>1, AgreeFields
  <2>3. Kind(c) \notin EntryKinds \cup RteKinds
    <3>1. Kind(c) = "None"
      BY <1>1, ReadyCore
    <3> QED BY <3>1 DEF EntryKinds, TrapaKinds, RteKinds
  <2>4. Kind(e) \notin EntryKinds \cup RteKinds /\ Kind(e) # "None"
    BY <2>1 DEF EntryKinds, TrapaKinds, RteKinds, PlainKinds, Reads, RmwReadKinds
  <2>5. ContextOK(e, depth)
    BY <1>1, <2>2, <2>3, <2>4, ContextKept
  <2>6. Waiting(e)
    BY <2>4 DEF Waiting, Kind
  <2> QED BY <1>1, <1>2, <2>1, <2>2, <2>5, <2>6 DEF Quiet
<1>7. ASSUME NEW d, NEW n, After(e, m) = At(d, n)
      PROVE  Moves(c, m, d, n)
  <2>1. Settled'.core = d /\ Settled'.mem = n
    BY <1>1, <1>2, <1>7, SettledNext DEF At
  <2> QED BY <1>3, <2>1 DEF Moves
<1>8. CASE i.op = "LOAD"
  <2>1. PICK a : a = Address(i, i.m, c.pc, c.r, c.sys)
    OBVIOUS
  <2>2. PICK d : /\ Begun(c, e) /\ After(e, m) = At(d, m)
                 /\ Completed(c, d, LoadRegs(i, c.r, ReadMem(m, a, i.size)), c.sys)
    BY <1>2, <1>4, <1>8, <2>1, AfterLoad
  <2>3. Moves(c, m, d, m) /\ Quiet
    BY <1>6, <1>7, <2>2
  <2>4. Arch!Load
    BY <1>4, <1>8, <2>1, <2>2, <2>3, IsaLoad
  <2> QED BY <1>6, <2>2, <2>4 DEF Arch!Next
<1>9. CASE i.op = "STORE"
  <2>1. PICK a : a = Address(i, i.n, c.pc, c.r, c.sys)
    OBVIOUS
  <2>2. PICK n : n = WriteMem(m, a, i.size, c.r[i.m])
    OBVIOUS
  <2>3. PICK d : /\ Begun(c, e) /\ After(e, m) = At(d, n)
                 /\ Completed(c, d, StoreRegs(i, c.r), c.sys)
    BY <1>2, <1>4, <1>9, <2>1, <2>2, AfterStore
  <2>4. Moves(c, m, d, n) /\ Quiet
    BY <1>6, <1>7, <2>3
  <2>5. Arch!Store
    BY <1>4, <1>9, <2>1, <2>2, <2>3, <2>4, IsaStore
  <2> QED BY <1>6, <2>3, <2>5 DEF Arch!Next
<1>10. CASE i.op = "PUSH"
  <2>1. PICK top : top = u32_sub(c.r[i.n], 4)
    OBVIOUS
  <2>2. PICK n : n = WriteMem(m, top, 4, c.sys[i.sys])
    OBVIOUS
  <2>3. PICK d : /\ Begun(c, e) /\ After(e, m) = At(d, n)
                 /\ Completed(c, d, [c.r EXCEPT ![i.n] = top], c.sys)
    BY <1>2, <1>4, <1>10, <2>1, <2>2, AfterPush
  <2>4. Moves(c, m, d, n) /\ Quiet
    BY <1>6, <1>7, <2>3
  <2>5. i.n \in DOMAIN c.r
    BY <1>4 DEF HasWords, WellFormed
  <2>6. Arch!Push
    BY <1>4, <1>10, <2>1, <2>2, <2>3, <2>4, <2>5, IsaPush
  <2> QED BY <1>6, <2>3, <2>6 DEF Arch!Next
<1>11. CASE i.op = "POP"
  <2>1. PICK d : /\ Begun(c, e) /\ After(e, m) = At(d, m)
                 /\ Completed(c, d, [c.r EXCEPT ![i.n] = u32_add(c.r[i.n], 4)],
                              [c.sys EXCEPT ![i.sys] = ReadMem(m, c.r[i.n], 4)])
    BY <1>2, <1>4, <1>11, AfterPop
  <2>2. Moves(c, m, d, m) /\ Quiet
    BY <1>6, <1>7, <2>1
  <2>3. Arch!Pop
    BY <1>4, <1>11, <2>1, <2>2, IsaPop
  <2> QED BY <1>6, <2>1, <2>3 DEF Arch!Next
<1>12. CASE i.op \in RmwOps
  <2>1. PICK a : a = u32_add(c.sys["GBR"], c.r[0])
    OBVIOUS
  <2>2. PICK n : n = WriteMem(m, a, 1, RmwResult(i.op, ReadMem(m, a, 1), i.x))
    OBVIOUS
  <2>3. PICK d : Begun(c, e) /\ After(e, m) = At(d, n) /\ Completed(c, d, c.r, c.sys)
    BY <1>2, <1>4, <1>5, <1>12, <2>1, <2>2, AfterRmw
  <2>4. Moves(c, m, d, n) /\ Quiet
    BY <1>6, <1>7, <2>3
  <2>5. Arch!Modify
    BY <1>4, <1>12, <2>1, <2>2, <2>3, <2>4, IsaModify
  <2> QED BY <1>6, <2>3, <2>5 DEF Arch!Next
<1> QED BY <1>8, <1>9, <1>10, <1>11, <1>12 DEF MemoryOps

\* The answer to an access changes nothing that software sees: it was due.
LEMMA AnswerStep ==
    ASSUME Sound(core), Waiting(core), ContextOK(core, depth), op = data_op(core),
           core.pending_exception_vector = None,
           core' = apply_pending(core, ReadMem(mem, op.addr, op.size)), mem' = Commit(mem, op),
           setup' = setup, depth' = depth
    PROVE  /\ UNCHANGED Arch!archVars /\ Sound(core') /\ ContextOK(core', depth')
           /\ core'.pending_exception_vector = None
<1>1. PICK c, m : c = core /\ m = mem
  OBVIOUS
<1>2. PICK e, n : e = core' /\ n = mem'
  OBVIOUS
<1>3. /\ e = Answered(c, m) /\ n = Commit(m, data_op(c))
  <2>1. op.addr = c.pending_mem_op.phys_addr /\ op.size = c.pending_mem_op.size
    BY <1>1 DEF data_op
  <2> QED BY <1>1, <1>2, <2>1 DEF Answered
<1>4. Sound(c) /\ Waiting(c) /\ ContextOK(c, depth) /\ c.pending_exception_vector = None
  BY <1>1
<1>5. After(c, m) = After(e, n)
  BY <1>3, <1>4, AfterAnswer
<1>6. Settled' = Settled
  BY <1>1, <1>2, <1>5, SettledIs, SettledNext
<1>7. PICK v : e = apply_pending(c, v)
  BY <1>3 DEF Answered
<1>8. Sound(e)
  BY <1>4, <1>7, ApplyShortens
<1>9. IsCore(c) /\ SlotOK(c) /\ Kind(c) \in AllKinds \ {"None"}
  BY <1>4 DEF Sound, Waiting, Kind
<1>10. ASSUME NEW F, Agree(c, e, F), "pending_exception_vector" \notin F,
              "has_exception_return_context" \notin F,
              Kind(c) \in EntryKinds <=> Kind(e) \in EntryKinds,
              Kind(c) \in RteKinds <=> Kind(e) \in RteKinds
       PROVE  ContextOK(e, depth) /\ e.pending_exception_vector = None
  <2>1. /\ e.pending_exception_vector = c.pending_exception_vector
        /\ e.has_exception_return_context = c.has_exception_return_context
    BY <1>10, AgreeFields
  <2>2. ContextOK(e, depth)
    BY <1>4, <1>10, <2>1, Zenon DEF ContextOK
  <2> QED BY <1>4, <2>1, <2>2
<1>11. ContextOK(e, depth) /\ e.pending_exception_vector = None
  <2>1. CASE Kind(c) \in {"ExceptionPushSr", "TrapaPushSr"}
    <3>1. PICK top : top = u32_sub(c.r[15], 4)
      OBVIOUS
    <3>2. /\ Agree(c, e, {"r", "pending_mem_op"}) /\ Kind(e) \in {"ExceptionPushPc", "TrapaPushPc"}
      BY <1>7, <1>9, <2>1, <3>1, ApplyPushSr
    <3>3. /\ Kind(c) \in EntryKinds /\ Kind(e) \in EntryKinds
          /\ Kind(c) \notin RteKinds /\ Kind(e) \notin RteKinds
      BY <2>1, <3>2 DEF EntryKinds, TrapaKinds, RteKinds
    <3> QED BY <1>10, <3>2, <3>3
  <2>2. CASE Kind(c) \in {"ExceptionPushPc", "TrapaPushPc"}
    <3>1. PICK vector : vector = IF Kind(c) = "ExceptionPushPc" THEN c.pending_mem_op.aux
                                                               ELSE value_of(c.pending_trapa_imm)
      OBVIOUS
    <3>2. PICK kind : kind = IF Kind(c) = "ExceptionPushPc" THEN "ExceptionVectorRead"
                                                           ELSE "TrapaVectorRead"
      OBVIOUS
    <3>3. /\ Agree(c, e, {"pending_mem_op"})
          /\ e.pending_mem_op = MemOp(kind, to_phys(u32_add(c.sys["VBR"], 4 * vector)), 0)
      BY <1>7, <1>9, <2>2, <3>1, <3>2, ApplyPushPc
    <3>4. Kind(e) = kind
      BY <3>3 DEF Kind, MemOp, Access
    <3>5. /\ Kind(c) \in EntryKinds /\ Kind(e) \in EntryKinds
          /\ Kind(c) \notin RteKinds /\ Kind(e) \notin RteKinds
      BY <2>2, <3>2, <3>4 DEF EntryKinds, TrapaKinds, RteKinds
    <3> QED BY <1>10, <3>3, <3>5
  <2>3. CASE Kind(c) \in {"ExceptionVectorRead", "TrapaVectorRead"}
    <3>1. /\ Agree(c, e, {"pc", "has_exception_return_context", "pending_mem_op",
                          "pending_trapa_imm"})
          /\ e.has_exception_return_context = TRUE /\ Kind(e) = "None"
      BY <1>7, <1>9, <2>3, ApplyVector
    <3>2. e.pending_exception_vector = c.pending_exception_vector
      BY <3>1, AgreeFields
    <3>3. depth = 1
      BY <1>4, <2>3 DEF ContextOK, EntryKinds, TrapaKinds
    <3>4. Kind(e) \notin EntryKinds \cup RteKinds
      BY <3>1 DEF EntryKinds, TrapaKinds, RteKinds
    <3>5. ContextOK(e, depth)
      BY <3>1, <3>3, <3>4 DEF ContextOK
    <3> QED BY <1>4, <3>2, <3>5
  <2>4. CASE Kind(c) = "RtePopPc"
    <3>1. /\ Agree(c, e, {"r", "pending_new_pc", "pending_mem_op"})
          /\ e.pending_mem_op = MemOp("RtePopSr", to_phys(e.r[15]), 0)
      <4>1. LET f == apply_pending(c, v)
            IN  /\ Agree(c, f, {"r", "pending_new_pc", "pending_mem_op"})
                /\ f.pending_mem_op = MemOp("RtePopSr", to_phys(f.r[15]), 0)
        BY <1>9, <2>4, ApplyPopPc, Zenon
      <4> QED BY <1>7, <4>1
    <3>2. Kind(e) = "RtePopSr"
      BY <3>1 DEF Kind, MemOp, Access
    <3>3. /\ Kind(c) \notin EntryKinds /\ Kind(e) \notin EntryKinds
          /\ Kind(c) \in RteKinds /\ Kind(e) \in RteKinds
      BY <2>4, <3>2 DEF EntryKinds, TrapaKinds, RteKinds
    <3> QED BY <1>10, <3>1, <3>3
  <2>5. CASE Kind(c) = "RtePopSr"
    <3>1. LET x == apply_pending(c, v)
          IN  /\ x.has_exception_return_context = FALSE /\ Kind(x) = "None"
              /\ Agree(c, x, {"r", "pending_new_sr", "pending_rte_restore", "pending_mem_op",
                              "pending_branch_target", "has_exception_return_context"})
      BY <1>9, <2>5, ApplyPopSr, Zenon
    <3>2. /\ e.has_exception_return_context = FALSE /\ Kind(e) = "None"
          /\ Agree(c, e, {"r", "pending_new_sr", "pending_rte_restore", "pending_mem_op",
                          "pending_branch_target", "has_exception_return_context"})
      BY <1>7, <3>1, Zenon
    <3>3. e.pending_exception_vector = c.pending_exception_vector
      BY <3>2, AgreeFields
    <3>4. depth = 0
      BY <1>4, <2>5 DEF ContextOK, RteKinds
    <3>5. Kind(e) \notin EntryKinds \cup RteKinds
      BY <3>2 DEF EntryKinds, TrapaKinds, RteKinds
    <3>6. depth \in Nat /\ depth # 1
      BY <3>4
    <3>7. ContextOK(e, depth)
      BY <3>2, <3>5, <3>6, Zenon DEF ContextOK
    <3> QED BY <1>4, <3>3, <3>7
  <2>6. CASE Kind(c) \in RmwReadKinds
    <3>1. PICK o \in RmwOps : Kind(c) = RmwReads[o]
      BY <2>6 DEF RmwReadKinds, RmwReads, RmwOps
    <3>2. /\ Agree(c, e, {"pending_mem_op"})
          /\ e.pending_mem_op =
                Access("RmwWriteByte", c.pending_mem_op.phys_addr, 1,
                       RmwResult(o, Truncated(v, 1), c.pending_mem_op.aux))
      BY <1>7, <1>9, <3>1, ApplyRmw
    <3>3. Kind(e) = "RmwWriteByte"
      BY <3>2 DEF Kind, Access
    <3>4. /\ Kind(c) \notin EntryKinds /\ Kind(e) \notin EntryKinds
          /\ Kind(c) \notin RteKinds /\ Kind(e) \notin RteKinds
      BY <2>6, <3>3 DEF EntryKinds, TrapaKinds, RteKinds, RmwReadKinds
    <3> QED BY <1>10, <3>2, <3>4
  <2>7. CASE Kind(c) \in PlainKinds
    <3>1. Agree(c, e, Registers \cup {"pending_mem_op"}) /\ Kind(e) = "None"
      BY <1>7, <1>9, <2>7, ApplyPlain
    <3>2. /\ Kind(c) \notin EntryKinds /\ Kind(e) \notin EntryKinds
          /\ Kind(c) \notin RteKinds /\ Kind(e) \notin RteKinds
      BY <2>7, <3>1 DEF EntryKinds, TrapaKinds, RteKinds, PlainKinds, Reads
    <3>3. /\ "pending_exception_vector" \notin Registers \cup {"pending_mem_op"}
          /\ "has_exception_return_context" \notin Registers \cup {"pending_mem_op"}
      BY DEF Registers
    <3> QED BY <1>10, <3>1, <3>2, <3>3
  <2> QED BY <1>9, <2>1, <2>2, <2>3, <2>4, <2>5, <2>6, <2>7
          DEF AllKinds, EntryKinds, TrapaKinds, RteKinds
<1>12. UNCHANGED Arch!archVars
  BY <1>1, <1>2, <1>4, <1>6, <1>11 DEF Arch!archVars
<1> QED BY <1>2, <1>8, <1>11, <1>12

-----------------------------------------------------------------------------
(* Sh2Host implements Sh2Isa *)

\* What makes the refinement inductive: the core is sound, the operation on the
\* bus is its own, and its return context is the software's count of exceptions
IsaInv ==
    /\ setup \in Setups
    /\ Sound(core)
    /\ BusOK(core, op, fuel)
    /\ IrqOK(core, op, fuel)
    /\ ContextOK(core, depth)

\* Every instruction is well formed.
LEMMA InstrIsWellFormed ==
    ASSUME setup \in Setups
    PROVE  WellFormed(instr)
<1>1. WellFormed(IllegalInstr)
  BY RegsAssumption DEF WellFormed, IllegalInstr, Ops
<1>2. CASE to_phys(core.pc) \in DOMAIN setup.program
  BY <1>2, ProgramAssumption DEF instr, InstrAt
<1>3. CASE to_phys(core.pc) \notin DOMAIN setup.program
  BY <1>1, <1>3 DEF instr, InstrAt
<1> QED BY <1>2, <1>3

\* An instruction executed at once is a step of Sh2Isa.
LEMMA ExecuteStep ==
    ASSUME NEW c, Ready(c), ContextOK(core, depth), NEW i, i = instr, WellFormed(i),
           i.op \notin MemoryOps, i.op \in {"STC", "LDC"} => i.sys # "PR",
           i.op \in Traps => core.pending_branch_target = None,
           core' = execute_instruction(c, i), mem' = mem, setup' = setup,
           depth' = DepthAfter(i), depth <= 1, depth' <= 1
    PROVE  /\ Arch!Next /\ Sound(core') /\ ContextOK(core', depth')
           /\ i.op \notin Traps => ~Waiting(core')
           /\ core'.pending_exception_vector = core.pending_exception_vector
<1>1. /\ core.pending_branch_target = c.pending_branch_target /\ Kind(c) = "None"
      /\ core.pending_mem_op = c.pending_mem_op
  BY ReadyCore
<1>2. c.has_exception_return_context = core.has_exception_return_context
  <2>1. PICK b : b = core
    OBVIOUS
  <2> QED BY <2>1, AgreeFields DEF Ready
<1>3. ContextOK(c, depth)
  <2>1. Kind(c) = Kind(core)
    BY <1>1 DEF Kind
  <2> QED BY <1>2, <2>1, Zenon DEF ContextOK
<1>4. depth \in {0, 1} /\ (c.has_exception_return_context <=> depth = 1)
  <2>1. Kind(c) \notin EntryKinds \cup RteKinds
    BY <1>1 DEF EntryKinds, TrapaKinds, RteKinds
  <2>2. depth \in Nat
    BY DEF ContextOK
  <2>3. depth \in {0, 1}
    BY <2>2
  <2> QED BY <1>3, <2>1, <2>3, Zenon DEF ContextOK
<1>5. CASE i.op = "TRAPA"
  <2>1. depth' = depth + 1
    BY <1>5 DEF DepthAfter
  <2>2. i.x \in Int /\ c.pending_branch_target = None
    BY <1>1, <1>5 DEF WellFormed, Traps
  <2>3. i.op \in Traps
    BY <1>5 DEF Traps
  <2> QED BY <1>3, <1>5, <2>1, <2>2, <2>3, TrapStep
<1>6. CASE i.op = "RTE" /\ depth = 1
  <2>1. depth' = depth - 1
    BY <1>6 DEF DepthAfter
  <2>2. c.pending_branch_target = None /\ i.op \in Traps
    BY <1>1, <1>6 DEF Traps
  <2> QED BY <1>3, <1>6, <2>1, <2>2, ReturnStep
<1>7. CASE i.op # "TRAPA" /\ ~(i.op = "RTE" /\ depth = 1)
  <2>1. depth' = depth
    BY <1>4, <1>7 DEF DepthAfter
  <2>2. Calm(c, i)
    BY <1>4, <1>7, Zenon DEF Calm, WellFormed
  <2>3. i.op = "RTE" => depth = 0
    BY <1>4, <1>7
  <2> QED BY <1>3, <2>1, <2>2, <2>3, CalmStep
<1> QED BY <1>5, <1>6, <1>7

\* The core is ready whenever it executes.
LEMMA CoreReady ==
    ASSUME Sound(core), HoldsWords, ~Waiting(core)
    PROVE  Ready(core)
<1>1. Agree(core, core, {"icache"})
  BY DEF Agree, Sound
<1> QED BY <1>1 DEF Ready, HoldsWords

\* So it is with the line that it fetched.
LEMMA FilledReady ==
    ASSUME Ready(core)
    PROVE  Ready(fill_line(core))
<1>1. PICK b : b = core
  OBVIOUS
<1>2. PICK l : l = {k \in b.icache : k % CacheLines # Line(b.pc) % CacheLines} \cup {Line(b.pc)}
  OBVIOUS
<1>3. PICK c : c = [b EXCEPT !.icache = l]
  OBVIOUS
<1>4. fill_line(core) = c
  BY <1>1, <1>2, <1>3 DEF fill_line
<1>5. Sound(b) /\ ~Waiting(b) /\ HasWords(b)
  BY <1>1 DEF Ready
<1>6. Agree(b, c, {"icache"})
  BY <1>3, <1>5 DEF Sound, Agree, IsCore, CoreFields
<1>7. c.pc = b.pc /\ c.r = b.r /\ c.sys = b.sys /\ c.pending_mem_op = b.pending_mem_op
  BY <1>6, AgreeFields
<1>8. HasWords(c) /\ ~Waiting(c)
  BY <1>5, <1>7 DEF HasWords, Waiting
<1>9. Sound(c)
  <2>1. Kind(c) \in AllKinds
    BY <1>5, <1>7 DEF Sound, Kind
  <2> QED BY <1>5, <1>6, <2>1, StaysSound
<1> QED BY <1>1, <1>4, <1>6, <1>8, <1>9 DEF Ready

\* A step that leaves the core and the memory alone is one that software does
\* not see.
LEMMA NothingSeen ==
    ASSUME UNCHANGED <<setup, core, mem, depth>>
    PROVE  UNCHANGED Arch!archVars
<1>1. PICK c, m : c = core /\ m = mem
  OBVIOUS
<1>2. Settled = After(c, m) /\ Settled' = After(c, m)
  BY <1>1, SettledIs, SettledNext
<1>3. PICK s : s = After(c, m)
  OBVIOUS
<1>4. Moves(s.core, s.mem, s.core, s.mem) /\ Quiet
  BY <1>2, <1>3 DEF Moves, Quiet
<1> QED BY <1>4, IsaStutter

\* An access of the core is a read or a write, and never "no operation".
LEMMA DataOpKinds ==
    ASSUME NEW c
    PROVE  data_op(c).kind \in {"Read", "Write"} /\ data_op(c) # NoBusOp
BY DEF data_op, NoBusOp

\* The same of a fetch.
LEMMA FetchOpKinds ==
    ASSUME NEW c
    PROVE  fetch_op(c).kind = "IFetch" /\ fetch_op(c) # NoBusOp
BY DEF fetch_op, NoBusOp

\* What the invariant needs when an access of the core is on the bus.
LEMMA DataOnBus ==
    ASSUME NEW c, Waiting(c), c.pending_exception_vector = None, NEW o, o = data_op(c)
    PROVE  BusOK(c, o, Idle) /\ IrqOK(c, o, Idle)
<1>1. o.kind \in {"Read", "Write"} /\ o # NoBusOp
  BY DataOpKinds
<1>2. o.kind # "IFetch"
  BY <1>1
<1>3. Idle \in Int /\ ~(Idle > 0)
  BY DEF Idle
<1> QED BY <1>1, <1>2, <1>3 DEF BusOK, IrqOK

\* What it needs when nothing is on the bus.
LEMMA NothingOnBus ==
    ASSUME NEW c, c.pending_exception_vector = None, NEW f \in Int, f > 0 => ~Waiting(c)
    PROVE  BusOK(c, NoBusOp, f) /\ IrqOK(c, NoBusOp, f)
BY DEF BusOK, IrqOK, NoBusOp

\* The core after reset is the initial state of Sh2Isa.
LEMMA InitIsa == ASSUME Init PROVE IsaInv /\ Arch!Init
<1>1. PICK c, m : c = core /\ m = mem
  OBVIOUS
<1>2. c = reset(ResetPc, ResetSp) /\ setup \in Setups /\ op = NoBusOp /\ fuel = Idle /\ depth = 0
  BY <1>1 DEF Init
<1>3. /\ IsCore(c) /\ c.pending_mem_op = NoOp /\ c.pending_branch_target = None
      /\ c.pending_exception_vector = None
      /\ c.sys = [s \in SysRegs |-> IF s = "SR" THEN 240 ELSE 0]
  BY <1>2 DEF reset, IsCore, CoreFields
<1>4. c.pending_rte_restore = FALSE /\ c.has_exception_return_context = FALSE
  BY <1>2 DEF reset
<1>5. Kind(c) = "None" /\ ~Waiting(c)
  BY <1>3 DEF Kind, Waiting, NoOp, MemOp, Access
<1>6. SlotOK(c)
  BY <1>4, Zenon DEF SlotOK
<1>7. Sound(c)
  BY <1>3, <1>5, <1>6 DEF Sound, AllKinds
<1>8. BusOK(c, op, fuel) /\ IrqOK(c, op, fuel)
  <2>1. Idle \in Int
    BY DEF Idle
  <2> QED BY <1>2, <1>3, <1>5, <2>1, NothingOnBus
<1>9. ContextOK(c, depth)
  <2>1. "None" \notin EntryKinds \cup RteKinds
    BY DEF EntryKinds, TrapaKinds, RteKinds
  <2>2. depth \in Nat /\ depth # 1
    BY <1>2
  <2>3. Kind(c) \notin EntryKinds /\ Kind(c) \notin RteKinds
    BY <1>5, <2>1
  <2> QED BY <1>4, <2>2, <2>3, Zenon DEF ContextOK
<1>10. Settled.core = c
  BY <1>1, <1>5, AfterRest, SettledIs DEF At
<1>11. SlotOf(c) = EmptySlot
  BY <1>3, <1>4 DEF SlotOf, EmptySlot
<1>12. Arch!Init
  <2>1. Arch!NoSlot = EmptySlot
    BY SameSorts DEF Arch!NoSlot, EmptySlot
  <2> QED BY <1>1, <1>2, <1>3, <1>10, <1>11, <2>1, SameSorts DEF Arch!Init
<1> QED BY <1>1, <1>2, <1>7, <1>8, <1>9, <1>12 DEF IsaInv

-----------------------------------------------------------------------------
(* One lemma for every action of Sh2Host *)

\* What every step starts from
StepStarts == IsaInv /\ HoldsWords /\ Conforms /\ Conforms'

\* What every step comes to
StepRefines == IsaInv' /\ [Arch!Next]_(Arch!archVars)

\* Exceptions: the interrupt of Sh2Isa.
LEMMA TakeExceptionRefines == StepStarts /\ TakeException => StepRefines
<1> SUFFICES ASSUME StepStarts, TakeException PROVE StepRefines
  OBVIOUS
<1> USE DEF StepStarts
<1>1. PICK v : v = core.pending_exception_vector
  OBVIOUS
<1>2. v # None /\ op = NoBusOp /\ fuel = Idle
  BY <1>1 DEF TakeException, MayProduce
<1>3. ~Waiting(core) /\ value_of(v) \in Int
  BY <1>1, <1>2 DEF IsaInv, IrqOK
<1>4. Ready(core)
  BY <1>3, CoreReady DEF IsaInv
<1>5. core.pending_branch_target = None /\ depth' <= 1
  BY <1>1, <1>2 DEF Conforms
<1>6. /\ Arch!Next /\ Sound(core') /\ Waiting(core') /\ ContextOK(core', depth')
      /\ core'.pending_exception_vector = None
  BY <1>1, <1>2, <1>3, <1>4, <1>5, ExceptionStep DEF IsaInv, TakeException
<1>7. BusOK(core', op', fuel') /\ IrqOK(core', op', fuel')
  BY <1>2, <1>6, DataOnBus DEF TakeException
<1>8. setup' \in Setups
  BY DEF TakeException, IsaInv
<1> QED BY <1>6, <1>7, <1>8 DEF StepRefines, IsaInv

\* The pending access goes to the bus: nothing is seen.
LEMMA IssuePendingRefines == StepStarts /\ IssuePending => StepRefines
<1> SUFFICES ASSUME StepStarts, IssuePending PROVE StepRefines
  OBVIOUS
<1>1. UNCHANGED Arch!archVars
  BY NothingSeen DEF IssuePending
<1>2. PICK c : c = core /\ c = core'
  BY DEF IssuePending
<1>3. BusOK(c, op', fuel') /\ IrqOK(c, op', fuel')
  BY <1>2, DataOnBus DEF IssuePending, MayProduce
<1>4. setup' \in Setups /\ Sound(c) /\ ContextOK(c, depth')
  BY <1>2 DEF IssuePending, IsaInv, StepStarts
<1> QED BY <1>1, <1>2, <1>3, <1>4 DEF StepRefines, IsaInv

\* The loop begins: nothing is seen.
LEMMA StartRunRefines == StepStarts /\ StartRun => StepRefines
<1> SUFFICES ASSUME StepStarts, StartRun PROVE StepRefines
  OBVIOUS
<1>1. UNCHANGED Arch!archVars
  BY NothingSeen DEF StartRun
<1>2. PICK c : c = core /\ c = core'
  BY DEF StartRun
<1>3. setup \in Setups /\ setup.budget \in Int
  BY HostAssumption DEF StepStarts, IsaInv
<1>4. c.pending_exception_vector = None /\ ~Waiting(c) /\ op' = NoBusOp /\ fuel' \in Int
  BY <1>2, <1>3 DEF StartRun, MayProduce
<1>5. BusOK(c, op', fuel') /\ IrqOK(c, op', fuel')
  BY <1>4, NothingOnBus
<1>6. setup' \in Setups /\ Sound(c) /\ ContextOK(c, depth')
  BY <1>2 DEF StartRun, IsaInv, StepStarts
<1> QED BY <1>1, <1>2, <1>5, <1>6 DEF StepRefines, IsaInv

\* A running loop has nothing on the bus and no request.
LEMMA WhileRunning ==
    ASSUME IsaInv, fuel \in Nat
    PROVE  op = NoBusOp /\ core.pending_exception_vector = None /\ (fuel > 0 => ~Waiting(core))
<1>1. fuel # Idle
  BY DEF Idle
<1> QED BY <1>1 DEF IsaInv, BusOK, IrqOK

\* An instruction out of the cache: one of Sh2Isa.
LEMMA RunHitRefines == StepStarts /\ RunHit => StepRefines
<1> SUFFICES ASSUME StepStarts, RunHit PROVE StepRefines
  OBVIOUS
<1> USE DEF StepStarts
<1>1. fuel \in Nat \ {0} /\ Hit
  BY DEF RunHit, Running, Hit, IsaInv, BusOK
<1>2. op = NoBusOp /\ core.pending_exception_vector = None /\ ~Waiting(core)
  BY <1>1, WhileRunning
<1>3. Ready(core)
  BY <1>2, CoreReady DEF IsaInv
<1>4. PICK i : i = instr
  OBVIOUS
<1>5. WellFormed(i) /\ i.op \notin MemoryOps
  BY <1>1, <1>4, InstrIsWellFormed DEF IsaInv, Conforms, RunHit
<1>6. /\ i.op \in {"STC", "LDC"} => i.sys # "PR"
      /\ i.op \in Traps => core.pending_branch_target = None /\ fuel = 1
      /\ depth <= 1 /\ depth' <= 1
  BY <1>1, <1>4 DEF Conforms
<1>7. PICK c : c = core
  OBVIOUS
<1>8. /\ core' = execute_instruction(c, i) /\ mem' = mem /\ setup' = setup
      /\ depth' = DepthAfter(i) /\ fuel' = fuel - 1 /\ op' = op
  BY <1>4, <1>7 DEF RunHit
<1>9. ContextOK(core, depth)
  BY DEF IsaInv
<1>10. /\ Arch!Next /\ Sound(core') /\ ContextOK(core', depth')
       /\ i.op \notin Traps => ~Waiting(core')
       /\ core'.pending_exception_vector = core.pending_exception_vector
  BY <1>3, <1>4, <1>5, <1>6, <1>7, <1>8, <1>9, ExecuteStep
<1>11. fuel' \in Int /\ (fuel' > 0 => ~Waiting(core'))
  BY <1>1, <1>6, <1>8, <1>10
<1>12. BusOK(core', op', fuel') /\ IrqOK(core', op', fuel')
  BY <1>2, <1>8, <1>10, <1>11, NothingOnBus
<1>13. setup' \in Setups
  BY <1>8 DEF IsaInv
<1> QED BY <1>10, <1>12, <1>13 DEF StepRefines, IsaInv

\* A memory instruction out of the cache: one of Sh2Isa, which is complete
\* there when its first access goes to the bus.
LEMMA RunMemoryRefines == StepStarts /\ RunMemory => StepRefines
<1> SUFFICES ASSUME StepStarts, RunMemory PROVE StepRefines
  OBVIOUS
<1> USE DEF StepStarts
<1>1. fuel \in Nat \ {0} /\ Hit
  BY DEF RunMemory, Running, Hit, IsaInv, BusOK
<1>2. op = NoBusOp /\ core.pending_exception_vector = None /\ ~Waiting(core)
  BY <1>1, WhileRunning
<1>3. Ready(core) /\ ContextOK(core, depth)
  BY <1>2, CoreReady DEF IsaInv
<1>4. PICK i : i = instr
  OBVIOUS
<1>5. WellFormed(i) /\ i.op \in MemoryOps /\ decoded = i
  BY <1>1, <1>4, InstrIsWellFormed DEF IsaInv, Conforms, RunMemory
<1>6. /\ i.op = "POP" => i.n # 0
      /\ i.op = "STORE" /\ i.mode = "@-R" => i.n # i.m
  BY <1>1, <1>4 DEF Conforms
<1>7. /\ core' = decode_memory(core, i) /\ mem' = mem /\ setup' = setup /\ depth' = depth
      /\ op' = data_op(core') /\ fuel' = Idle
  BY <1>5 DEF RunMemory
<1>8. \A x \in DOMAIN mem : mem[x] \in Byte
  BY DEF HoldsWords
<1>9. /\ Arch!Next /\ Sound(core') /\ Waiting(core') /\ ContextOK(core', depth')
      /\ core'.pending_exception_vector = core.pending_exception_vector
  BY <1>3, <1>4, <1>5, <1>6, <1>7, <1>8, MemoryStep
<1>10. BusOK(core', op', fuel') /\ IrqOK(core', op', fuel')
  BY <1>2, <1>7, <1>9, DataOnBus
<1>11. setup' \in Setups
  BY <1>7 DEF IsaInv
<1> QED BY <1>9, <1>10, <1>11 DEF StepRefines, IsaInv

\* A miss goes to the bus: nothing is seen.
LEMMA RunFetchRefines == StepStarts /\ RunFetch => StepRefines
<1> SUFFICES ASSUME StepStarts, RunFetch PROVE StepRefines
  OBVIOUS
<1>1. UNCHANGED Arch!archVars
  BY NothingSeen DEF RunFetch
<1>2. PICK c : c = core /\ c = core'
  BY DEF RunFetch
<1>3. fuel \in Nat \ {0}
  BY DEF RunFetch, Running, IsaInv, BusOK, StepStarts
<1>4. c.pending_exception_vector = None /\ ~Waiting(c)
  BY <1>2, <1>3, WhileRunning DEF StepStarts
<1>5. op' = fetch_op(c) /\ fuel' = Idle /\ Idle \in Int /\ ~(Idle > 0)
  BY <1>2 DEF RunFetch, Idle
<1>6. BusOK(c, op', fuel') /\ IrqOK(c, op', fuel')
  BY <1>4, <1>5, FetchOpKinds DEF BusOK, IrqOK
<1>7. setup' \in Setups /\ Sound(c) /\ ContextOK(c, depth')
  BY <1>2 DEF RunFetch, IsaInv, StepStarts
<1> QED BY <1>1, <1>2, <1>6, <1>7 DEF StepRefines, IsaInv

\* The loop ends: nothing is seen.
LEMMA RunEndRefines == StepStarts /\ RunEnd => StepRefines
<1> SUFFICES ASSUME StepStarts, RunEnd PROVE StepRefines
  OBVIOUS
<1>1. UNCHANGED Arch!archVars
  BY NothingSeen DEF RunEnd
<1>2. PICK c : c = core /\ c = core'
  BY DEF RunEnd
<1>3. op' = NoBusOp /\ c.pending_exception_vector = None
  BY <1>2, WhileRunning DEF RunEnd, StepStarts
<1>4. fuel' \in Int /\ ~(fuel' > 0)
  BY DEF RunEnd, Idle
<1>5. BusOK(c, op', fuel') /\ IrqOK(c, op', fuel')
  BY <1>3, <1>4, NothingOnBus
<1>6. setup' \in Setups /\ Sound(c) /\ ContextOK(c, depth')
  BY <1>2 DEF RunEnd, IsaInv, StepStarts
<1> QED BY <1>1, <1>2, <1>5, <1>6 DEF StepRefines, IsaInv

\* An operation on the bus excludes the loop and requests.
LEMMA WhileOnBus ==
    ASSUME IsaInv, op.kind # "None"
    PROVE  fuel = Idle /\ core.pending_exception_vector = None
<1>1. op # NoBusOp
  BY DEF NoBusOp
<1> QED BY <1>1 DEF IsaInv, BusOK, IrqOK

\* The answer to an access: nothing is seen, the instruction is complete already.
LEMMA DataResponseRefines == StepStarts /\ DataResponse => StepRefines
<1> SUFFICES ASSUME StepStarts, DataResponse PROVE StepRefines
  OBVIOUS
<1> USE DEF StepStarts
<1>1. op.kind \in {"Read", "Write"} /\ op.kind # "None"
  BY DEF DataResponse
<1>2. op = data_op(core) /\ Waiting(core) /\ Sound(core) /\ ContextOK(core, depth)
  BY <1>1 DEF IsaInv, BusOK
<1>3. fuel = Idle /\ core.pending_exception_vector = None
  BY <1>1, WhileOnBus
<1>4. /\ UNCHANGED Arch!archVars /\ Sound(core') /\ ContextOK(core', depth')
      /\ core'.pending_exception_vector = None
  BY <1>2, <1>3, AnswerStep DEF DataResponse
<1>5. fuel' \in Int /\ ~(fuel' > 0) /\ op' = NoBusOp
  BY <1>3 DEF DataResponse, Idle
<1>6. BusOK(core', op', fuel') /\ IrqOK(core', op', fuel')
  BY <1>4, <1>5, NothingOnBus
<1>7. setup' \in Setups
  BY DEF IsaInv, DataResponse
<1> QED BY <1>4, <1>6, <1>7 DEF StepRefines, IsaInv

\* The answer to a fetch: an instruction of Sh2Isa.
LEMMA FetchResponseRefines == StepStarts /\ FetchResponse => StepRefines
<1> SUFFICES ASSUME StepStarts, FetchResponse PROVE StepRefines
  OBVIOUS
<1> USE DEF StepStarts
<1>1. op.kind = "IFetch" /\ Fetched /\ op.kind # "None"
  BY DEF FetchResponse, Fetched
<1>2. op = fetch_op(core) /\ ~Waiting(core) /\ Sound(core) /\ ContextOK(core, depth)
  BY <1>1 DEF IsaInv, BusOK
<1>3. fuel = Idle /\ core.pending_exception_vector = None
  BY <1>1, WhileOnBus
<1>4. Ready(core)
  BY <1>2, CoreReady
<1>5. PICK i : i = instr
  OBVIOUS
<1>6. InstrAt(setup.program, op.addr) = i
  <2>1. op.addr = to_phys(core.pc)
    BY <1>2 DEF fetch_op
  <2>2. core.pc \in Int
    BY WordsAdd DEF HoldsWords, HasWords
  <2>3. to_phys(op.addr) = to_phys(core.pc)
    BY <2>1, <2>2, PhysAgain
  <2> QED BY <1>5, <2>3 DEF instr, InstrAt
<1>7. PICK c : c = (IF op.fill THEN fill_line(core) ELSE core)
  OBVIOUS
<1>8. Ready(c)
  BY <1>4, <1>7, FilledReady
<1>9. /\ core' = execute_instruction(c, i) /\ mem' = mem /\ setup' = setup
      /\ depth' = DepthAfter(i) /\ fuel' = fuel /\ op' = NoBusOp
  BY <1>2, <1>6, <1>7 DEF FetchResponse, apply_fetch
<1>10. WellFormed(i) /\ i.op \notin MemoryOps
  BY <1>1, <1>5, InstrIsWellFormed DEF IsaInv, Conforms
<1>11. /\ i.op \in {"STC", "LDC"} => i.sys # "PR"
       /\ i.op \in Traps => core.pending_branch_target = None
       /\ depth <= 1 /\ depth' <= 1
  BY <1>1, <1>5 DEF Conforms
<1>12. /\ Arch!Next /\ Sound(core') /\ ContextOK(core', depth')
       /\ core'.pending_exception_vector = core.pending_exception_vector
  BY <1>2, <1>5, <1>8, <1>9, <1>10, <1>11, ExecuteStep
<1>13. fuel' \in Int /\ ~(fuel' > 0)
  BY <1>3, <1>9 DEF Idle
<1>14. BusOK(core', op', fuel') /\ IrqOK(core', op', fuel')
  BY <1>3, <1>9, <1>12, <1>13, NothingOnBus
<1>15. setup' \in Setups
  BY <1>9 DEF IsaInv
<1> QED BY <1>12, <1>14, <1>15 DEF StepRefines, IsaInv

\* The caller's request: the one of Sh2Isa.
LEMMA RequestRefines == ASSUME StepStarts, NEW v \in Vectors, Request(v) PROVE StepRefines
<1> USE DEF StepStarts
<1>1. PICK c, m : c = core /\ m = mem
  OBVIOUS
<1>2. PICK x : x = Some(v)
  OBVIOUS
<1>3. PICK d : d = [c EXCEPT !.pending_exception_vector = x]
  OBVIOUS
<1>4. /\ core' = d /\ mem' = m /\ setup' = setup /\ depth' = depth /\ op' = op
      /\ fuel' = Idle
  BY <1>1, <1>2, <1>3 DEF Request, request_exception_vector
<1>5. Sound(c) /\ ContextOK(c, depth)
  BY <1>1 DEF IsaInv
<1>6. Agree(c, d, {"pending_exception_vector"}) /\ d.pending_exception_vector = x
  BY <1>3, <1>5 DEF Sound, Agree, IsCore, CoreFields
<1>7. /\ d.pc = c.pc /\ d.r = c.r /\ d.sys = c.sys /\ d.pending_mem_op = c.pending_mem_op
      /\ d.has_exception_return_context = c.has_exception_return_context
  BY <1>6, AgreeFields
<1>8. x # None /\ value_of(x) \in Int
  BY <1>2, HostAssumption DEF Some, None, value_of
<1>9. op' = NoBusOp /\ ~Waiting(d)
  BY <1>4, <1>6, <1>8 DEF Conforms
<1>10. Kind(d) = "None" /\ Kind(c) = "None" /\ ~Waiting(c) /\ Kind(c) \in AllKinds
  BY <1>7, <1>9 DEF Kind, Waiting, AllKinds
<1>11. Sound(d) /\ SlotOf(d) = SlotOf(c)
  <2>1. Kind(d) \in AllKinds
    BY <1>10
  <2> QED BY <1>5, <1>6, <2>1, StaysSound
<1>12. Idle \in Int /\ ~(Idle > 0)
  BY DEF Idle
<1>13. BusOK(d, NoBusOp, Idle) /\ IrqOK(d, NoBusOp, Idle)
  BY <1>6, <1>8, <1>9, <1>12 DEF BusOK, IrqOK, NoBusOp
<1>14. ContextOK(d, depth)
  <2>1. "None" \notin EntryKinds \cup RteKinds
    BY DEF EntryKinds, TrapaKinds, RteKinds
  <2> QED BY <1>5, <1>7, <1>10, <2>1, ContextKept
<1>15. Settled.core = c /\ Settled.mem = m
  BY <1>1, <1>10, AfterRest, SettledIs DEF At
<1>16. Settled'.core = d /\ Settled'.mem = m
  BY <1>4, <1>9, AfterRest, SettledNext DEF At
<1>17. Moves(c, m, d, m)
  BY <1>4, <1>15, <1>16 DEF Moves
<1>18. core'.pending_exception_vector # None
  BY <1>4, <1>6, <1>8
<1>19. Arch!Request
  BY <1>4, <1>7, <1>11, <1>17, <1>18, IsaRequest
<1>20. setup' \in Setups
  BY <1>4 DEF IsaInv
<1>21. Arch!Next
  BY <1>19 DEF Arch!Next
<1> QED BY <1>4, <1>9, <1>11, <1>13, <1>14, <1>20, <1>21 DEF StepRefines, IsaInv

\* A step that changes nothing.
LEMMA StutterRefines == StepStarts /\ UNCHANGED vars => StepRefines
<1> SUFFICES ASSUME StepStarts, UNCHANGED vars PROVE StepRefines
  OBVIOUS
<1>1. UNCHANGED <<setup, core, mem, op, fuel, depth>>
  BY DEF vars
<1>2. UNCHANGED Arch!archVars
  BY <1>1, NothingSeen
<1>3. IsaInv'
  BY <1>1 DEF IsaInv, StepStarts
<1> QED BY <1>2, <1>3 DEF StepRefines

\* SH2Core and the loop around it implement Sh2Isa for every program, memory,
\* budget and caller, as long as no behaviour that the README lists as a
\* deviation occurs: instructions are complete and in order, whatever their
\* accesses, the instruction cache and the run-ahead do
\* (produce_until_bus and apply_ifetch_and_step, sh2_core.cpp:638-1082).
THEOREM CoreImplementsIsa ==
    Spec /\ [](HoldsWords /\ Conforms) => RefinesIsa
<1>1. Init => IsaInv /\ Arch!Init
  BY InitIsa
<1>2. /\ IsaInv /\ HoldsWords /\ Conforms /\ Conforms' /\ [Next]_vars
      => IsaInv' /\ [Arch!Next]_(Arch!archVars)
  <2> SUFFICES ASSUME IsaInv, HoldsWords, Conforms, Conforms', [Next]_vars PROVE StepRefines
    BY DEF StepRefines
  <2>1. StepStarts
    BY DEF StepStarts
  <2>2. CASE UNCHANGED vars
    BY <2>1, <2>2, StutterRefines
  <2>3. CASE Next
    BY <2>1, <2>3, TakeExceptionRefines, IssuePendingRefines, StartRunRefines, RunHitRefines,
       RunMemoryRefines, RunFetchRefines, RunEndRefines, DataResponseRefines,
       FetchResponseRefines, RequestRefines DEF Next
  <2> QED BY <2>2, <2>3
<1> QED BY <1>1, <1>2, PTL DEF Spec, RefinesIsa, Arch!Spec
=============================================================================
