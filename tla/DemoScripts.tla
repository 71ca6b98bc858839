----------------------------- MODULE DemoScripts ----------------------------
(***************************************************************************)
(* The scripts of the demo and stress entry points of src/core/            *)
(* emulator.cpp, as pairs <<script of CPU 0, script of CPU 1>>.  Addresses *)
(* are small numbers: 0 for 0x1000, 0..15 for 0x2000..0x200F, and the      *)
(* device registers below.  With the lines of 16 bytes that the program    *)
(* has, every script stays in one line of RAM, as there.  Stored values    *)
(* keep only who stored them.                                              *)
(***************************************************************************)
EXTENDS Integers, Sequences

LOCAL INSTANCE SequencesExt

Ld(addr, size) ==
    [kind |-> "Read", addr |-> addr, alias |-> FALSE, size |-> size, value |-> 0, cycles |-> 0]
St(addr, size, value) ==
    [kind |-> "Write", addr |-> addr, alias |-> FALSE, size |-> size, value |-> value, cycles |-> 0]
Alias(ins) == [ins EXCEPT !.alias = TRUE]
Compute(n) ==
    [kind |-> "Compute", addr |-> 0, alias |-> FALSE, size |-> 0, value |-> 0, cycles |-> n]
Barrier ==
    [kind |-> "Barrier", addr |-> 0, alias |-> FALSE, size |-> 0, value |-> 0, cycles |-> 0]

kScuIstAddr == 32
kScuIstClearAddr == 36
kScuIstSourceSetAddr == 40      \* kScuIstSourceClearAddr is the next word
kVdp1EventStatusAddr == 48
kVdp1CommandAddr == 52
kVdp1CommandStatusAddr == 56
kVdp1CommandCompleteAddr == 60
kDisplayStatusAddr == 64
PlainRegister == 68             \* 0x05F00020

DemoRamAddr == 0..31
DemoMmioAddr == 32..71

\* The concatenation of round(1), ..., round(n)
Rounds(round(_), n) == FlattenSeq([i \in 1..n |-> round(i)])

contention_stress_scripts ==
    LET ram(i)  == ((i - 1) % 4) * 4
        mmio(i) == kScuIstSourceSetAddr + ((i - 1) % 2) * 4
    IN  <<Rounds(LAMBDA i : <<St(ram(i), 4, 1), Ld(ram(i), 4), St(mmio(i), 4, 1), Barrier>>, 32),
          Rounds(LAMBDA i : <<Ld(ram(i), 4), St(ram(i), 4, 2), Ld(mmio(i), 4), Barrier>>, 32)>>

Vdp1Owner ==
    Rounds(LAMBDA cmd : <<St(kVdp1CommandAddr, 4, cmd), St(kVdp1CommandCompleteAddr, 4, 1),
                          Ld(kVdp1EventStatusAddr, 4)>>, 6)
Vdp1Observer ==
    Rounds(LAMBDA cmd : <<Ld(kScuIstAddr, 4), St(kScuIstClearAddr, 4, 8),
                          Ld(kVdp1CommandStatusAddr, 4)>>, 6)

vdp1_source_event_stress_scripts == <<Vdp1Owner, Vdp1Observer>>
vdp1_source_event_stress_scripts_cpu1_owner == <<Vdp1Observer, Vdp1Owner>>

dual_demo_scripts ==
    <<<<St(0, 4, 1), Compute(3), Alias(St(0, 4, 2)), St(PlainRegister, 4, 3)>>,
      <<Ld(0, 4), Compute(2), Alias(Ld(0, 4)), Ld(kDisplayStatusAddr, 4)>>>>
=============================================================================
