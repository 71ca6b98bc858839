--------------------------- MODULE DeviceSoftware ---------------------------
(***************************************************************************)
(* Software on the two CPUs writing the device registers through the bus.  *)
(* The arbiter serialises the accesses, so a write is one step, in any     *)
(* order.  The history variables record what the software may expect, in   *)
(* terms of the bytes it wrote, without the hub's shifts and masks.        *)
(***************************************************************************)
EXTENDS DeviceHub

CONSTANTS
    Accesses,  \* the writes the software makes
    MaxWrites  \* bound on their number

VARIABLES
    writes,       \* number of writes made
    bytes,        \* plain registers as arrays of four bytes
    unacked,      \* interrupts raised that no write has acknowledged since
    raised,       \* interrupts raised since the last IST clear of their bit
    armed,        \* a VDP1 command was written and not completed since
    completions   \* VDP1 completions, as the counters show them

historyVars == <<writes, bytes, unacked, raised, armed, completions>>
vars == <<hubVars, historyVars>>

aligned(offset, size) == size \in {1, 2, 4} /\ offset % size = 0

Access == [reg : Regs, offset : 0..3, size : {1, 2, 4}, value : SUBSET Word]

ASSUME AccessAssumption ==
    \A a \in Accesses : a \in Access /\ aligned(a.offset, a.size)

ASSUME BoundAssumption == MaxWrites \in Nat

\* Registers that store what is written and show it again
PlainRegs ==
    Regs \ (SpecialRegs \cup {"kSmpcCommandResultAddr", "kVdp1EventStatusAddr",
                               "kVdp1CommandStatusAddr"})

-----------------------------------------------------------------------------
(* What software expects of a write, byte by byte: byte 0 is the high one *)

Covers(a, k) == a.offset <= k /\ k < a.offset + a.size

\* Byte k of the register, as the access gives it
ByteOf(a, k) == {b \in 0..7 : b + 8 * (a.offset + a.size - 1 - k) \in a.value}

\* The bits of byte k that a set of bit positions of the word holds
InByte(word, k) == {b \in 0..7 : b + 8 * (3 - k) \in word}

\* The word that the access writes, zero in the bytes it does not cover
WordOf(a) == UNION {{b + 8 * (3 - k) : b \in ByteOf(a, k)} : k \in {j \in 0..3 : Covers(a, j)}}

StoredByte(a, k) ==
    LET writable == InByte(writable_mask(a.reg), k)
    IN  IF Covers(a, k)
          THEN (bytes[a.reg][k] \ writable) \cup (ByteOf(a, k) \cap writable)
          ELSE bytes[a.reg][k]

ExpectedBytes(a) ==
    IF a.reg \in PlainRegs
      THEN [bytes EXCEPT ![a.reg] = [k \in 0..3 |-> StoredByte(a, k)]]
      ELSE bytes

Vdp1Done(a) ==
    /\ 0 \in ByteOf(a, 3) /\ Covers(a, 3)
    /\ \/ a.reg = "kVdp1EventTriggerAddr"
       \/ a.reg = "kVdp1CommandCompleteAddr" /\ armed

Raises(a) ==
    CASE a.reg \in {"kScuIstAddr", "kScuIstSourceSetAddr"} -> WordOf(a) \cap 0..15
      [] Vdp1Done(a) -> kVdp1ScuIrqMask
      [] a.reg = "kVdp1ScuIrqBridgeAddr" /\ 0 \in WordOf(a) -> kVdp1ScuIrqMask
      [] OTHER -> {}

Acknowledges(a) ==
    CASE a.reg \in {"kScuIstClearAddr", "kScuIstSourceClearAddr"} -> WordOf(a) \cap 0..15
      [] a.reg = "kVdp1ScuIrqBridgeAddr" /\ 0 \notin WordOf(a) -> kVdp1ScuIrqMask
      [] OTHER -> {}

Write(a) ==
    /\ writes < MaxWrites
    /\ write(a)
    /\ writes' = writes + 1
    /\ bytes' = ExpectedBytes(a)
    /\ unacked' = (unacked \cup Raises(a)) \ Acknowledges(a)
    /\ raised' = IF a.reg = "kScuIstClearAddr" THEN raised \ WordOf(a)
                                               ELSE raised \cup Raises(a)
    /\ armed' = CASE a.reg = "kVdp1CommandAddr" -> WordOf(a) \cap 0..7 # {}
                  [] Vdp1Done(a) -> FALSE
                  [] OTHER -> armed
    /\ completions' = IF Vdp1Done(a) THEN (completions + 1) % CounterRange ELSE completions

Init ==
    /\ HubInit
    /\ writes = 0
    /\ bytes = [r \in PlainRegs |-> [k \in 0..3 |-> InByte(reset_value(r), k)]]
    /\ unacked = {}
    /\ raised = {}
    /\ armed = FALSE
    /\ completions = 0

Next == \E a \in Accesses : Write(a)

Spec == Init /\ [][Next]_vars

-----------------------------------------------------------------------------
(* Properties *)

\* The members keep the widths that the hub's masks give them: latches of 16
\* bits, commands of 8, an interrupt level of one bit, registers that persist
\* nothing in read-only bits.
HubTypeOK ==
    /\ \A r \in Regs : mmio_regs[r] \subseteq writable_mask(r)
    /\ scu_interrupt_pending \subseteq 0..15
    /\ scu_interrupt_source_pending \subseteq 0..15
    /\ smpc_last_command \subseteq 0..7
    /\ smpc_command_result \subseteq Word
    /\ vdp1_irq_level \subseteq {0}
    /\ vdp1_event_counter \in 0..(CounterRange - 1)
    /\ vdp1_last_command \subseteq 0..7
    /\ vdp1_completed_counter \in 0..(CounterRange - 1)
    /\ vdp1_command_pending \in BOOLEAN

\* A plain register is four bytes in big-endian order: whatever mixture of
\* byte, halfword and word writes the two CPUs make, every aligned read of any
\* width returns the bytes last written, with the read-only bits at their reset
\* value (lane_shift, size_mask and the masking at the end of DeviceHub::write).
ReadsMatchBytes ==
    \A r \in PlainRegs, size \in {1, 2, 4} : \A offset \in {o \in 0..3 : aligned(o, size)} :
        read(r, offset, size) =
            UNION {{b + 8 * (offset + size - 1 - k) : b \in bytes[r][k]} :
                        k \in offset..(offset + size - 1)}

\* No interrupt is lost or invented: an IST read shows every unmasked interrupt
\* that was raised (by software, the VDP1 bridge or a VDP1 completion) and not
\* acknowledged since, and only interrupts raised since the last IST clear of
\* their bit, whatever masking went on in between.
InterruptsTruthful ==
    LET ist == read("kScuIstAddr", 0, 4)
        ims == read("kScuImsAddr", 0, 4)
    IN  /\ (unacked \ ims) \subseteq ist
        /\ ist \subseteq (raised \ ims)

\* VDP1 command status: busy exactly while the last command written has not been
\* completed, and the completion count moves once per completed command or
\* trigger, so a repeated completion pulse counts nothing.
CommandStatusTruthful ==
    /\ (0 \in read("kVdp1CommandStatusAddr", 3, 1)) = armed
    /\ read("kVdp1CommandStatusAddr", 2, 1) = CounterBits(completions)
    /\ read("kVdp1EventStatusAddr", 3, 1) = CounterBits(completions)
=============================================================================
