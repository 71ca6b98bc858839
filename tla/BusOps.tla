------------------------------- MODULE BusOps -------------------------------
(***************************************************************************)
(* The bus operations that the producers hand to the arbiter, and the      *)
(* arbiter's pure functions of one operation: which producer slot it       *)
(* belongs to, its priority class, its base latency and whether it is      *)
(* well formed (src/bus/bus_op.hpp, src/bus/bus_arbiter.{hpp,cpp}).        *)
(*                                                                         *)
(* Addresses are those of bytes, so accesses of different sizes overlap    *)
(* as they do in the code.                                                 *)
(***************************************************************************)
EXTENDS ByteMemory, Sequences

CONSTANTS
    RamAddr,     \* addresses inside the committed memory
    MmioAddr,    \* addresses for which mem::is_mmio holds
    Latency      \* the LatencyModel: ticks per kind of access and penalty

\* "none" for an optional address or tick: has_last_addr_ / producer_seen_ false
None == -1

\* The cpu_id that commit_dma gives to its operation
DmaId == -1

CpuIds == {0, 1}

Slots == 0..2

Kinds == {"IFetch", "Read", "Write", "MmioRead", "MmioWrite", "Barrier"}

Producers == {"Auto", "Cpu", "Dma"}

LatencyFields ==
    {"ram_read", "ram_write", "ifetch", "mmio_read", "mmio_write", "barrier",
     "same_address_contention", "tie_turnaround"}

ASSUME LatencyAssumption == Latency \in [LatencyFields -> Nat]

ASSUME AddrAssumption ==
    /\ RamAddr \subseteq Nat
    /\ MmioAddr \subseteq Nat
    /\ RamAddr \cap MmioAddr = {}

\* struct BusOp; fill is cache_line_size, 0 when fill_cache_line is false
BusOp ==
    [cpu : {DmaId} \cup CpuIds, req : Nat, seq : Nat, kind : Kinds, addr : Nat,
     size : Nat, data : Value, fill : Nat, producer : Producers, token : Nat]

\* vector::erase
RemoveIndex(s, i) == [k \in 1..(Len(s) - 1) |-> IF k < i THEN s[k] ELSE s[k + 1]]

is_mmio(addr) == addr \in MmioAddr

valid_bus_size(size) == size \in AccessSizes

is_aligned(addr, size) == size = 1 \/ addr % size = 0

\* validate_bus_op(op) = None: RAM accesses need not be aligned
ValidBusOp(op) ==
    \/ op.kind = "Barrier"
    \/ /\ valid_bus_size(op.size)
       /\ (op.kind \in {"MmioRead", "MmioWrite", "IFetch"} \/ is_mmio(op.addr))
            => is_aligned(op.addr, op.size)

producer_slot(op) ==
    CASE op.producer = "Dma" \/ (op.producer = "Auto" /\ op.cpu < 0) -> 2
      [] OTHER -> IF op.cpu = 1 THEN 1 ELSE 0

\* PriorityClass: CpuRam = 0, CpuMmio = 1, Dma = 2
priority_of(op) ==
    CASE op.cpu < 0 -> 2
      [] OTHER -> IF op.kind \in {"MmioRead", "MmioWrite"} \/ is_mmio(op.addr)
                    THEN 1 ELSE 0

is_cpu(cpu) == cpu \in CpuIds

base_latency(op) ==
    CASE op.kind = "Barrier" -> Latency["barrier"]
      [] op.kind = "IFetch"  -> Latency["ifetch"]
      [] op.kind = "MmioRead"  \/ (op.kind = "Read"  /\ is_mmio(op.addr)) -> Latency["mmio_read"]
      [] op.kind = "MmioWrite" \/ (op.kind = "Write" /\ is_mmio(op.addr)) -> Latency["mmio_write"]
      [] op.kind = "Write" /\ ~is_mmio(op.addr) -> Latency["ram_write"]
      [] op.kind = "Read"  /\ ~is_mmio(op.addr) -> Latency["ram_read"]
=============================================================================
