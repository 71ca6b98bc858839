---------------------------- MODULE MCBusArbHost ----------------------------
(***************************************************************************)
(* A small instance of BusArbHost.  One address has a callback that returns *)
(* zero cycles, the other is slower to read than to write.                 *)
(***************************************************************************)
EXTENDS BusArbHost

MCAccessCycles(addr, is_write, size) ==
    CASE addr = 0 -> 0
      [] OTHER -> IF is_write THEN 2 ELSE 4

MCRequests ==
    [master : {"SH2_A"}, addr : {0, 1}, is_write : {FALSE}, size : {4}]
    \cup [master : {"SH2_B"}, addr : {1}, is_write : BOOLEAN, size : {4}]
    \cup [master : {"DMA"}, addr : {0}, is_write : {TRUE}, size : {4}]
=============================================================================
