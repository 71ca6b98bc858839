--------------------------- MODULE MCScriptedPair ---------------------------
(* Small scripts for ScriptedPair. *)
EXTENDS ScriptedPair, DemoScripts

MCLatency ==
    [ram_read |-> 4, ram_write |-> 3, ifetch |-> 5, mmio_read |-> 12, mmio_write |-> 10,
     barrier |-> 1, same_address_contention |-> 2, tie_turnaround |-> 1]
MCDevRead(d, addr, size) == d
MCDevWrite(d, addr, size, v) == IF addr = kScuIstClearAddr THEN 0 ELSE v % 4

\* Longer than any of the scripts below can keep the bus busy
LongTail == Compute(200)

\* Lines are 0-15 and 16-31, of which a cache holds one.  CPU 0 has a store that
\* crosses from one to the other, CPU 1 a load that evicts the first
Steps0 == {Ld(12, 4), St(14, 4, 15), St(kVdp1CommandAddr, 4, 1), Barrier}
Steps1 == {Ld(14, 1), Ld(16, 2), St(13, 2, 3), Alias(Ld(14, 2)), Compute(3)}

\* All scripts of three steps that end in a long computation
TailScripts ==
    {<<s \o <<LongTail>>, t \o <<LongTail>>>> : s \in [1..3 -> Steps0], t \in [1..3 -> Steps1]}

\* and those that the program itself runs
PairScripts ==
    TailScripts \cup {dual_demo_scripts, contention_stress_scripts,
                      vdp1_source_event_stress_scripts, vdp1_source_event_stress_scripts_cpu1_owner}

\* CPU 1 ends long before CPU 0 first needs the bus
EarlyFinish == {<<<<Compute(20), St(0, 4, 1)>>, <<Ld(16, 4)>>>>}
=============================================================================
