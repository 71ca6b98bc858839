-------------------------- MODULE MCScriptedPairMT --------------------------
(* Small scripts for ScriptedPairMT. *)
EXTENDS ScriptedPairMT, DemoScripts

MCLatency ==
    [ram_read |-> 4, ram_write |-> 3, ifetch |-> 5, mmio_read |-> 12, mmio_write |-> 10,
     barrier |-> 1, same_address_contention |-> 2, tie_turnaround |-> 1]
MCDevRead(d, addr, size) == d
MCDevWrite(d, addr, size, v) == IF addr = kScuIstClearAddr THEN 0 ELSE v % 4

\* Longer than any of the scripts below can keep the bus busy
LongTail == Compute(200)

\* Operations whose request times never coincide: CPU 1 starts one tick late
Staggered ==
    {<<<<St(0, 4, 7), Ld(0, 2), LongTail>>,
       <<Compute(1), Ld(1, 1), St(0, 2, 2), LongTail>>>>,
     <<<<St(kVdp1CommandAddr, 4, 1), Barrier, LongTail>>,
       <<Compute(1), Ld(kVdp1CommandAddr, 4), Ld(kVdp1CommandAddr, 4), LongTail>>>>}

\* Both CPUs ask for the bus at tick 0
DualDemo == {dual_demo_scripts}
=============================================================================
