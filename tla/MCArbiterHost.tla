---------------------------- MODULE MCArbiterHost ---------------------------
(* Small instances of ArbiterHost. *)
EXTENDS ArbiterHost

MCRamAddr == 0..7
MCMmioAddr == {8, 9, 12}

\* The default LatencyModel of bus_arbiter.hpp
MCLatency ==
    [ram_read |-> 4, ram_write |-> 3, ifetch |-> 5, mmio_read |-> 12, mmio_write |-> 10,
     barrier |-> 1, same_address_contention |-> 2, tie_turnaround |-> 1]

\* One interrupt source bit: register 8 sets it, register 12 clears it
MCDevRead(d, addr, size) == d
MCDevWrite(d, addr, size, v) ==
    CASE addr = 12 -> IF v = 1 THEN 0 ELSE d
      [] OTHER -> IF v = 1 THEN 1 ELSE d

T(cpu, kind, addr, size, data) ==
    [cpu |-> cpu, kind |-> kind, addr |-> addr, size |-> size, data |-> data,
     fill |-> 0, producer |-> "Auto"]

\* Every class of operation that arbitration tells apart
ContractTemplates ==
    {T(0, "Read", 0, 2, 0), T(0, "MmioWrite", 8, 4, 1),
     T(1, "Write", 0, 4, 1), T(1, "MmioRead", 8, 4, 0), T(1, "Barrier", 0, 0, 0),
     T(DmaId, "Write", 3, 2, 1)}

\* Well-formed operations, a misaligned device access and a bad size
FaultTemplates ==
    {T(0, "Write", 0, 4, 1), T(0, "MmioWrite", 9, 4, 1), T(1, "IFetch", 4, 2, 0),
     T(1, "Read", 0, 3, 0)}
=============================================================================
