------------------------------ MODULE DeviceHub ------------------------------
(***************************************************************************)
(* The memory-mapped devices (src/dev/devices.{hpp,cpp}): SCU interrupt    *)
(* latches and DMA registers, SMPC command, VDP1 command and completion,   *)
(* and plain registers.  The arbiter alone calls read and write, one call  *)
(* at a time, and only with aligned accesses of 1, 2 or 4 bytes            *)
(* (validate_bus_op).                                                      *)
(*                                                                         *)
(* A 32-bit word is the set of the positions of its one bits: | & and & ~  *)
(* are union, intersection and difference.  A register is named after the  *)
(* constant that holds its word address; an address is a register and an   *)
(* offset 0..3 in it.  The log of writes is left out.                      *)
(***************************************************************************)
EXTENDS Integers

CONSTANTS
    OtherRegs,    \* word addresses without a register_spec
    CounterRange  \* the VDP1 counters show their value modulo this (256)

ASSUME CounterAssumption == CounterRange \in 1..256

VARIABLES
    mmio_regs,                     \* register -> persisted word
    scu_interrupt_pending,
    scu_interrupt_source_pending,
    smpc_last_command,
    smpc_command_result,
    vdp1_irq_level,
    vdp1_event_counter,
    vdp1_last_command,
    vdp1_completed_counter,
    vdp1_command_pending

scuVars  == <<scu_interrupt_pending, scu_interrupt_source_pending>>
smpcVars == <<smpc_last_command, smpc_command_result>>
vdp1Vars == <<vdp1_irq_level, vdp1_event_counter, vdp1_last_command,
              vdp1_completed_counter, vdp1_command_pending>>
hubVars  == <<mmio_regs, scuVars, smpcVars, vdp1Vars>>

Word == 0..31

kVdp1ScuIrqMask == {5}

register_spec ==
    [kDisplayStatusAddr       |-> [reset |-> {0}, writable |-> {}],
     kScuImsAddr              |-> [reset |-> {},  writable |-> 0..15],
     kScuIstAddr              |-> [reset |-> {},  writable |-> {}],
     kScuIstClearAddr         |-> [reset |-> {},  writable |-> 0..15],
     kScuIstSourceSetAddr     |-> [reset |-> {},  writable |-> 0..15],
     kScuIstSourceClearAddr   |-> [reset |-> {},  writable |-> 0..15],
     kScuDma0SrcAddr          |-> [reset |-> {},  writable |-> Word],
     kScuDma0SizeAddr         |-> [reset |-> {},  writable |-> 0..19],
     kScuDma0CtrlAddr         |-> [reset |-> {},  writable |-> {0, 1, 2, 4}],
     kSmpcStatusAddr          |-> [reset |-> {0}, writable |-> {}],
     kSmpcCommandAddr         |-> [reset |-> {},  writable |-> 0..7],
     kSmpcCommandResultAddr   |-> [reset |-> {},  writable |-> {}],
     kVdp2TvmdAddr            |-> [reset |-> {},  writable |-> 0..15],
     kVdp2TvstatAddr          |-> [reset |-> {3}, writable |-> {}],
     kScspMcierAddr           |-> [reset |-> {},  writable |-> 0..10],
     kVdp1ScuIrqBridgeAddr    |-> [reset |-> {},  writable |-> {0}],
     kVdp1EventTriggerAddr    |-> [reset |-> {},  writable |-> {0}],
     kVdp1EventStatusAddr     |-> [reset |-> {},  writable |-> {}],
     kVdp1CommandAddr         |-> [reset |-> {},  writable |-> 0..7],
     kVdp1CommandStatusAddr   |-> [reset |-> {},  writable |-> {}],
     kVdp1CommandCompleteAddr |-> [reset |-> {},  writable |-> {0}]]

Regs == DOMAIN register_spec \cup OtherRegs

writable_mask(reg) ==
    IF reg \in DOMAIN register_spec THEN register_spec[reg].writable ELSE Word

reset_value(reg) ==
    IF reg \in DOMAIN register_spec THEN register_spec[reg].reset ELSE {}

materialize_register_value(reg) ==
    (reset_value(reg) \ writable_mask(reg)) \cup (mmio_regs[reg] \cap writable_mask(reg))

-----------------------------------------------------------------------------
(* Byte lanes *)

lane_shift(offset, size) ==
    CASE size = 1 -> (3 - offset) * 8
      [] size = 2 -> (2 - (IF offset >= 2 THEN 2 ELSE 0)) * 8
      [] OTHER    -> 0

size_mask(size) == 0..(8 * size - 1)

ShiftLeft(bits, n)  == {b + n : b \in bits} \cap Word
ShiftRight(bits, n) == {b - n : b \in {c \in bits : c >= n}}

lane_mask(a) == ShiftLeft(size_mask(a.size), lane_shift(a.offset, a.size))

write_bits(a) == ShiftLeft(a.value, lane_shift(a.offset, a.size)) \cap lane_mask(a)

-----------------------------------------------------------------------------
(* DeviceHub::read *)

CounterBits(n) == {b \in 0..7 : (n \div 2^b) % 2 = 1}

\* Seeded fault: an IST read leaves out the interrupt sources
IstPendingOnly == scu_interrupt_pending \ materialize_register_value("kScuImsAddr")

InterruptStatus ==
    (scu_interrupt_pending \cup scu_interrupt_source_pending)
        \ materialize_register_value("kScuImsAddr")

RegisterValue(reg) ==
    CASE reg = "kScuIstAddr"            -> InterruptStatus
      [] reg = "kScuIstSourceSetAddr"   -> scu_interrupt_source_pending
      [] reg = "kSmpcCommandAddr"       -> smpc_last_command
      [] reg = "kSmpcCommandResultAddr" -> smpc_command_result
      [] reg = "kVdp1ScuIrqBridgeAddr"  -> vdp1_irq_level
      [] reg = "kVdp1EventStatusAddr"   ->
            CounterBits(vdp1_event_counter) \cup ShiftLeft(vdp1_irq_level, 8)
      [] reg = "kVdp1CommandAddr"       -> vdp1_last_command
      [] reg = "kVdp1CommandStatusAddr" ->
            (IF vdp1_command_pending THEN {0} ELSE {})
              \cup ShiftLeft(CounterBits(vdp1_completed_counter), 8)
              \cup ShiftLeft(vdp1_last_command, 16)
      [] OTHER -> materialize_register_value(reg)

read(reg, offset, size) ==
    ShiftRight(RegisterValue(reg), lane_shift(offset, size)) \cap size_mask(size)

-----------------------------------------------------------------------------
(* DeviceHub::write, by register.  An access a has the fields reg, offset, *)
(* size and value.                                                         *)

\* Seeded fault: the bits written to IST are not cut to the low half
WriteIstUnmasked(a) ==
    /\ a.reg = "kScuIstAddr"
    /\ scu_interrupt_pending' = scu_interrupt_pending \cup write_bits(a)
    /\ UNCHANGED <<mmio_regs, scu_interrupt_source_pending, smpcVars, vdp1Vars>>

WriteIst(a) ==
    /\ a.reg = "kScuIstAddr"
    /\ scu_interrupt_pending' = scu_interrupt_pending \cup (write_bits(a) \cap 0..15)
    /\ UNCHANGED <<mmio_regs, scu_interrupt_source_pending, smpcVars, vdp1Vars>>

WriteIstClear(a) ==
    /\ a.reg = "kScuIstClearAddr"
    /\ scu_interrupt_pending' = scu_interrupt_pending \ (write_bits(a) \cap 0..15)
    /\ scu_interrupt_source_pending' =
          scu_interrupt_source_pending \ (write_bits(a) \cap 0..15)
    /\ UNCHANGED <<mmio_regs, smpcVars, vdp1Vars>>

WriteIstSourceSet(a) ==
    /\ a.reg = "kScuIstSourceSetAddr"
    /\ scu_interrupt_source_pending' =
          scu_interrupt_source_pending \cup (write_bits(a) \cap 0..15)
    /\ UNCHANGED <<mmio_regs, scu_interrupt_pending, smpcVars, vdp1Vars>>

WriteIstSourceClear(a) ==
    /\ a.reg = "kScuIstSourceClearAddr"
    /\ scu_interrupt_source_pending' =
          scu_interrupt_source_pending \ (write_bits(a) \cap 0..15)
    /\ UNCHANGED <<mmio_regs, scu_interrupt_pending, smpcVars, vdp1Vars>>

\* 0xA5000000 | command_byte
WriteSmpcCommand(a) ==
    /\ a.reg = "kSmpcCommandAddr"
    /\ smpc_last_command' = write_bits(a) \cap 0..7
    /\ smpc_command_result' = {24, 26, 29, 31} \cup (write_bits(a) \cap 0..7)
    /\ UNCHANGED <<mmio_regs, scuVars, vdp1Vars>>

WriteVdp1IrqBridge(a) ==
    /\ a.reg = "kVdp1ScuIrqBridgeAddr"
    /\ vdp1_irq_level' = write_bits(a) \cap {0}
    /\ scu_interrupt_source_pending' =
          IF 0 \in write_bits(a)
            THEN scu_interrupt_source_pending \cup kVdp1ScuIrqMask
            ELSE scu_interrupt_source_pending \ kVdp1ScuIrqMask
    /\ UNCHANGED <<mmio_regs, scu_interrupt_pending, smpcVars, vdp1_event_counter,
                   vdp1_last_command, vdp1_completed_counter, vdp1_command_pending>>

\* Seeded fault: the command stays pending after its completion
SignalKeepsPending ==
    /\ vdp1_event_counter' = (vdp1_event_counter + 1) % CounterRange
    /\ vdp1_completed_counter' = (vdp1_completed_counter + 1) % CounterRange
    /\ vdp1_irq_level' = {0}
    /\ scu_interrupt_source_pending' = scu_interrupt_source_pending \cup kVdp1ScuIrqMask
    /\ UNCHANGED vdp1_command_pending

signal_vdp1_completion ==
    /\ vdp1_event_counter' = (vdp1_event_counter + 1) % CounterRange
    /\ vdp1_completed_counter' = (vdp1_completed_counter + 1) % CounterRange
    /\ vdp1_irq_level' = {0}
    /\ scu_interrupt_source_pending' = scu_interrupt_source_pending \cup kVdp1ScuIrqMask
    /\ vdp1_command_pending' = FALSE

WriteVdp1Command(a) ==
    /\ a.reg = "kVdp1CommandAddr"
    /\ vdp1_last_command' = write_bits(a) \cap 0..7
    /\ vdp1_command_pending' = (write_bits(a) \cap 0..7 # {})
    /\ UNCHANGED <<mmio_regs, scuVars, smpcVars, vdp1_irq_level, vdp1_event_counter,
                   vdp1_completed_counter>>

\* Whether the access is an event trigger, or a completion pulse for a command
\* that is pending
Completes(a) ==
    /\ 0 \in write_bits(a)
    /\ \/ a.reg = "kVdp1EventTriggerAddr"
       \/ a.reg = "kVdp1CommandCompleteAddr" /\ vdp1_command_pending

WriteVdp1Completion(a) ==
    /\ Completes(a)
    /\ signal_vdp1_completion
    /\ UNCHANGED <<mmio_regs, scu_interrupt_pending, smpcVars, vdp1_last_command>>

SpecialRegs ==
    {"kScuIstAddr", "kScuIstClearAddr", "kScuIstSourceSetAddr",
     "kScuIstSourceClearAddr", "kSmpcCommandAddr", "kVdp1ScuIrqBridgeAddr",
     "kVdp1CommandAddr", "kVdp1EventTriggerAddr", "kVdp1CommandCompleteAddr"}

\* Seeded fault: a subword write clears the other lanes
WritePlainWhole(a) ==
    LET masked_write == lane_mask(a) \cap writable_mask(a.reg)
    IN  /\ a.reg \notin SpecialRegs
        /\ masked_write # {}
        /\ mmio_regs' = [mmio_regs EXCEPT ![a.reg] = write_bits(a) \cap masked_write]
        /\ UNCHANGED <<scuVars, smpcVars, vdp1Vars>>

WritePlain(a) ==
    LET masked_write == lane_mask(a) \cap writable_mask(a.reg)
    IN  /\ a.reg \notin SpecialRegs
        /\ masked_write # {}
        /\ mmio_regs' = [mmio_regs EXCEPT ![a.reg] =
                            (@ \ masked_write) \cup (write_bits(a) \cap masked_write)]
        /\ UNCHANGED <<scuVars, smpcVars, vdp1Vars>>

\* A write to read-only bits, or a trigger or pulse without effect
WriteIgnored(a) ==
    /\ \/ a.reg \notin SpecialRegs /\ lane_mask(a) \cap writable_mask(a.reg) = {}
       \/ /\ a.reg \in {"kVdp1EventTriggerAddr", "kVdp1CommandCompleteAddr"}
          /\ ~Completes(a)
    /\ UNCHANGED hubVars

write(a) ==
    \/ WriteIst(a) \/ WriteIstClear(a) \/ WriteIstSourceSet(a) \/ WriteIstSourceClear(a)
    \/ WriteSmpcCommand(a)
    \/ WriteVdp1IrqBridge(a) \/ WriteVdp1Command(a) \/ WriteVdp1Completion(a)
    \/ WritePlain(a) \/ WriteIgnored(a)

HubInit ==
    /\ mmio_regs = [r \in Regs |-> {}]
    /\ scu_interrupt_pending = {}
    /\ scu_interrupt_source_pending = {}
    /\ smpc_last_command = {}
    /\ smpc_command_result = {}
    /\ vdp1_irq_level = {}
    /\ vdp1_event_counter = 0
    /\ vdp1_last_command = {}
    /\ vdp1_completed_counter = 0
    /\ vdp1_command_pending = FALSE
=============================================================================
