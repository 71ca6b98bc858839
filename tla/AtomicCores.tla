----------------------------- MODULE AtomicCores ----------------------------
(***************************************************************************)
(* What two SH2Cores on one bus promise: a core executes cached            *)
(* instructions by itself; an access is executed when no access of the     *)
(* other core can come before it, and its answer reaches the core at once. *)
(* There is no run-ahead budget, no batch and no watermark, and operations *)
(* carry no sequence numbers.                                              *)
(***************************************************************************)
EXTENDS Sh2OnBus

CONSTANTS
    Images,    \* memories that hold a BIOS image
    ResetSp,   \* the stack pointer both cores start with
    MaxSteps,  \* instructions after which the DMA probes may follow
    ProbeAddr  \* the device register they access

VARIABLE cores  \* CPU -> SH2Core

abstractVars == <<timingVars, storeVars, trace, cores>>

Init ==
    /\ \E image \in Images : ArbInitWith(image)
    /\ halt_on_fault = FALSE
    /\ cores = [c \in CpuIds |-> NewCore(c, 0, ResetSp)]

\* The core has nothing to do before its next bus operation
AtBus(k) == S!Waiting(k.core) \/ ~Cached(k)

OpOf(k) == IF S!Waiting(k.core) THEN DataOp(k, 0) ELSE FetchOp(k, 0)

\* One cached instruction, or the local part of a memory instruction
Local(c) ==
    /\ ~AtBus(cores[c])
    /\ \E ins \in {CachedInstr(cores[c])} :
          cores' = [cores EXCEPT ![c] = IF IsMemory(ins) THEN DecodeCached(@, ins)
                                                        ELSE ExecuteCached(@, ins)]
    /\ UNCHANGED <<timingVars, storeVars, trace>>

\* The peer's clock has passed k's, or both ask at the same time and k wins
Wins(k, peer) ==
    \/ peer.t > k.t
    \/ peer.t = k.t /\ AtBus(peer) /\ Beats(OpOf(k), OpOf(peer))

Tied(k, peer) ==
    peer.t = k.t /\ AtBus(peer) /\ priority_of(OpOf(k)) = priority_of(OpOf(peer))

Commit(c) ==
    \E k \in {cores[c]}, peer \in {cores[1 - c]} :
        /\ AtBus(k)
        /\ Wins(k, peer)
        /\ execute_commit(OpOf(k), Tied(k, peer))
        /\ cores' = [cores EXCEPT ![c] = apply_ifetch_and_step(k, Response(OpOf(k), Tied(k, peer)))]

ProbeOp(kind, req, data) ==
    [cpu |-> DmaId, req |-> req, seq |-> 0, producer |-> "Dma", kind |-> kind,
     addr |-> ProbeAddr, size |-> 4, data |-> data, fill |-> 0, token |-> 0]

Probe ==
    /\ cores[0].executed + cores[1].executed >= MaxSteps
    /\ \E op \in {ProbeOp("MmioWrite", 0, 1), ProbeOp("MmioRead", 1, 0)} :
          execute_commit(op, FALSE)
    /\ UNCHANGED cores

Next == Probe \/ \E c \in CpuIds : Local(c) \/ Commit(c)

Spec == Init /\ [][Next]_abstractVars
=============================================================================
