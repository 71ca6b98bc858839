----------------------------- MODULE AtomicPair -----------------------------
(***************************************************************************)
(* What a pair of scripted CPUs on one bus promises, one commit at a time: *)
(* the operation with the smaller request time is executed first, equal    *)
(* request times go to the arbitration policy with both parties present,   *)
(* and the reply reaches the CPU with the commit.  The behaviour is a      *)
(* function of the two scripts, so every implementation of this module     *)
(* writes the same trace.                                                  *)
(*                                                                         *)
(* Of the arbiter's state only the timing state, the memory, the devices   *)
(* and the trace are constrained; how the caller batches operations and    *)
(* when it publishes watermarks is left open.                              *)
(***************************************************************************)
EXTENDS BusArbiter, ScriptedCpu

CONSTANT Scripts     \* the pairs <<script of CPU 0, script of CPU 1>>

VARIABLE cpus        \* CPU -> [cpu, op]: the CPU as it waits for the bus with op

abstractVars == <<timingVars, storeVars, trace, cpus>>

Init ==
    /\ ArbInit
    /\ halt_on_fault = FALSE
    /\ LET s == <<cpus[0].cpu.script, cpus[1].cpu.script>>
       IN  /\ s \in Scripts
           /\ cpus = [c \in CpuIds |-> produce(NewCpu(c, s[c + 1]))]

\* CPU c's operation cannot be preceded by one of the other CPU: the other
\* one has ended, asks later, or asks at the same time and loses
Wins(me, peer) ==
    \/ ~Has(peer.op)
    \/ me.op.op.req < peer.op.op.req
    \/ me.op.op.req = peer.op.op.req /\ Beats(me.op.op, peer.op.op)

Tied(me, peer) ==
    /\ Has(peer.op)
    /\ me.op.op.req = peer.op.op.req
    /\ priority_of(me.op.op) = priority_of(peer.op.op)

Commit(c) ==
    \E me \in {cpus[c]}, peer \in {cpus[1 - c]} :
        /\ Has(me.op)
        /\ Wins(me, peer)
        /\ execute_commit(me.op.op, Tied(me, peer))
        /\ \E served \in {apply_response(me.cpu, me.op.index,
                                          Response(me.op.op, Tied(me, peer)), me.op.op.token)} :
              cpus' = [cpus EXCEPT ![c] = produce(served)]

Next == \E c \in CpuIds : Commit(c)

Spec == Init /\ [][Next]_abstractVars
=============================================================================
