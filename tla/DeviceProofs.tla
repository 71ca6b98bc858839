---------------------------- MODULE DeviceProofs ----------------------------
(***************************************************************************)
(* Proofs about the device registers, for every set of aligned accesses    *)
(* with any values, and any number of them.                                *)
(***************************************************************************)
EXTENDS DeviceSoftware, TLAPS

-----------------------------------------------------------------------------
(* Lanes *)

\* The aligned accesses, by offset and size.
LEMMA AccessCases ==
    ASSUME NEW a \in Accesses
    PROVE  /\ a.reg \in Regs
           /\ a.value \subseteq Word
           /\ \/ a.size = 4 /\ a.offset = 0
              \/ a.size = 2 /\ a.offset = 0
              \/ a.size = 2 /\ a.offset = 2
              \/ a.size = 1 /\ a.offset = 0
              \/ a.size = 1 /\ a.offset = 1
              \/ a.size = 1 /\ a.offset = 2
              \/ a.size = 1 /\ a.offset = 3
<1>1. a \in Access /\ aligned(a.offset, a.size)
  BY AccessAssumption
<1>2. a.reg \in Regs /\ a.offset \in 0..3 /\ a.size \in {1, 2, 4} /\ a.value \subseteq Word
  BY <1>1 DEF Access
<1>3. a.offset % a.size = 0
  BY <1>1 DEF aligned
<1> QED
  BY <1>2, <1>3

\* The bits of the word that an access writes, by lane_shift and size_mask.
LEMMA WriteBits ==
    ASSUME NEW a \in Accesses, NEW n \in Int
    PROVE  n \in write_bits(a) <=>
              /\ n \in Word
              /\ lane_shift(a.offset, a.size) <= n
              /\ n < lane_shift(a.offset, a.size) + 8 * a.size
              /\ n - lane_shift(a.offset, a.size) \in a.value
<1>1. lane_shift(a.offset, a.size) \in Int /\ a.size \in Int /\ a.value \subseteq Int
  BY AccessCases DEF lane_shift, Word
<1> QED
  BY <1>1 DEF write_bits, lane_mask, ShiftLeft, size_mask, Word

\* The bits of the word that an access reaches.
LEMMA MaskBits ==
    ASSUME NEW a \in Accesses, NEW n \in Word
    PROVE  n \in lane_mask(a) <=>
              /\ lane_shift(a.offset, a.size) <= n
              /\ n < lane_shift(a.offset, a.size) + 8 * a.size
<1>1. lane_shift(a.offset, a.size) \in Int /\ a.size \in Int
  BY AccessCases DEF lane_shift
<1>2. n \in Int
  BY DEF Word
<1>3. n \in lane_mask(a) <=>
          \E m \in 0..(8 * a.size - 1) : n = m + lane_shift(a.offset, a.size)
  BY DEF lane_mask, ShiftLeft, size_mask
<1>4. ASSUME lane_shift(a.offset, a.size) <= n,
             n < lane_shift(a.offset, a.size) + 8 * a.size
      PROVE  n \in lane_mask(a)
  <2>1. /\ n - lane_shift(a.offset, a.size) \in 0..(8 * a.size - 1)
        /\ n = (n - lane_shift(a.offset, a.size)) + lane_shift(a.offset, a.size)
    BY <1>1, <1>2, <1>4
  <2> QED
    BY <1>3, <2>1
<1> QED
  BY <1>1, <1>2, <1>3, <1>4

\* Byte k of a register is reached by the accesses that cover it, and gets the
\* byte that the access holds for it.
LEMMA LaneOfByte ==
    ASSUME NEW a \in Accesses, NEW k \in 0..3, NEW b \in 0..7
    PROVE  /\ b + 8 * (3 - k) \in lane_mask(a) <=> Covers(a, k)
           /\ b + 8 * (3 - k) \in write_bits(a) <=> Covers(a, k) /\ b \in ByteOf(a, k)
<1> DEFINE n == b + 8 * (3 - k)
<1>1. n \in Int /\ 0 <= n /\ n <= 31 /\ n \in Word
  BY DEF Word
<1>2. n \in lane_mask(a) <=>
          /\ lane_shift(a.offset, a.size) <= n
          /\ n < lane_shift(a.offset, a.size) + 8 * a.size
  BY <1>1, MaskBits
<1>3. n \in write_bits(a) <=>
          /\ lane_shift(a.offset, a.size) <= n
          /\ n < lane_shift(a.offset, a.size) + 8 * a.size
          /\ n - lane_shift(a.offset, a.size) \in a.value
  BY <1>1, WriteBits
<1>4. Covers(a, k) <=> /\ lane_shift(a.offset, a.size) <= n
                       /\ n < lane_shift(a.offset, a.size) + 8 * a.size
  BY AccessCases DEF lane_shift, Covers
<1>5. n - lane_shift(a.offset, a.size) = b + 8 * (a.offset + a.size - 1 - k)
  BY AccessCases DEF lane_shift
<1>6. b \in ByteOf(a, k) <=> b + 8 * (a.offset + a.size - 1 - k) \in a.value
  BY DEF ByteOf
<1> QED
  BY <1>2, <1>3, <1>4, <1>5, <1>6

\* The bits of the word that the access writes, byte by byte in big-endian order.
LEMMA WordBits ==
    ASSUME NEW a \in Accesses, NEW n \in Word
    PROVE  n \in WordOf(a) <=>
              \E k \in 0..3 : /\ Covers(a, k)
                              /\ n - 8 * (3 - k) \in ByteOf(a, k)
<1>1. \A k \in 0..3 : ByteOf(a, k) \subseteq Int
  BY DEF ByteOf
<1>2. n \in Int
  BY DEF Word
<1> QED
  BY <1>1, <1>2 DEF WordOf, Word

\* The hub's shifts and masks write the bytes that software expects.
THEOREM LanesAreBigEndian ==
    ASSUME NEW a \in Accesses
    PROVE  write_bits(a) = WordOf(a)
<1>1. write_bits(a) \subseteq Word
  BY DEF write_bits, lane_mask, ShiftLeft
<1>2. WordOf(a) \subseteq Word
  BY AccessCases DEF WordOf, ByteOf, Covers, Word
<1>3. ASSUME NEW n \in Word
      PROVE  n \in write_bits(a) <=> n \in WordOf(a)
  <2>1. n \in Int /\ 0 <= n /\ n <= 31
    BY DEF Word
  <2>2. PICK k \in 0..3, b \in 0..7 : n = b + 8 * (3 - k)
    BY <2>1
  <2>3. n \in WordOf(a) <=> Covers(a, k) /\ b \in ByteOf(a, k)
    <3>1. \A j \in 0..3 : n - 8 * (3 - j) \in ByteOf(a, j) => j = k
      BY <2>1, <2>2 DEF ByteOf
    <3>2. n - 8 * (3 - k) = b
      BY <2>2
    <3> QED
      BY <3>1, <3>2, WordBits
  <2>4. n \in write_bits(a) <=> Covers(a, k) /\ b \in ByteOf(a, k)
    BY <2>2, LaneOfByte
  <2> QED
    BY <2>3, <2>4
<1> QED
  BY <1>1, <1>2, <1>3

-----------------------------------------------------------------------------
(* The inductive invariant: what the history variables say, in terms of    *)
(* the members of the hub                                                  *)

BytesInv ==
    /\ bytes \in [PlainRegs -> [0..3 -> SUBSET (0..7)]]
    /\ \A r \in PlainRegs, k \in 0..3 : bytes[r][k] = InByte(materialize_register_value(r), k)

HistoryInv ==
    /\ unacked \subseteq scu_interrupt_pending \cup scu_interrupt_source_pending
    /\ scu_interrupt_pending \cup scu_interrupt_source_pending \subseteq raised
    /\ armed = vdp1_command_pending
    /\ completions = vdp1_event_counter
    /\ completions = vdp1_completed_counter

HubInv ==
    /\ HubTypeOK
    /\ mmio_regs \in [Regs -> SUBSET Word]
    /\ HistoryInv
    /\ BytesInv

\* The masks of the registers are words.
LEMMA MasksAreWords ==
    ASSUME NEW r \in Regs
    PROVE  writable_mask(r) \subseteq Word /\ reset_value(r) \subseteq Word
BY DEF writable_mask, reset_value, register_spec, Word

\* The VDP1 completes in the model of the hub when software expects it.
LEMMA CompletionsAgree ==
    ASSUME HubInv, NEW a \in Accesses
    PROVE  Completes(a) <=> Vdp1Done(a)
<1>1. 0 \in WordOf(a) <=> Covers(a, 3) /\ 0 \in ByteOf(a, 3)
  <2>1. 0 \in Word
    BY DEF Word
  <2>2. \A k \in 0..3 : 0 - 8 * (3 - k) \in ByteOf(a, k) => k = 3
    BY DEF ByteOf
  <2> QED
    BY <2>1, <2>2, WordBits
<1> QED
  BY <1>1, LanesAreBigEndian DEF Completes, Vdp1Done, HubInv, HistoryInv

\* A step that leaves the plain registers alone keeps their bytes.
LEMMA BytesUnchanged ==
    ASSUME HubInv, UNCHANGED <<mmio_regs, bytes>>
    PROVE  /\ mmio_regs' \in [Regs -> SUBSET Word]
           /\ BytesInv'
           /\ (\A r \in Regs : mmio_regs[r] \subseteq writable_mask(r))'
BY DEF HubInv, HubTypeOK, BytesInv, InByte, materialize_register_value

\* A write to a plain register stores the bytes it covers.
LEMMA PlainWrite ==
    ASSUME HubInv, NEW a \in Accesses, WritePlain(a), bytes' = ExpectedBytes(a)
    PROVE  /\ mmio_regs' \in [Regs -> SUBSET Word]
           /\ BytesInv'
           /\ (\A r \in Regs : mmio_regs[r] \subseteq writable_mask(r))'
<1> DEFINE mask == lane_mask(a) \cap writable_mask(a.reg)
           next == (mmio_regs[a.reg] \ mask) \cup (write_bits(a) \cap mask)
<1>1. /\ a.reg \in Regs
      /\ a.reg \notin SpecialRegs
      /\ mask # {}
      /\ mmio_regs' = [mmio_regs EXCEPT ![a.reg] = next]
  BY AccessCases DEF WritePlain
<1>2. writable_mask(a.reg) \subseteq Word
  BY <1>1, MasksAreWords
<1>3. /\ mmio_regs' \in [Regs -> SUBSET Word]
      /\ (\A r \in Regs : mmio_regs[r] \subseteq writable_mask(r))'
  BY <1>1, <1>2 DEF HubInv, HubTypeOK, writable_mask
<1>4. a.reg \in PlainRegs
  BY <1>1 DEF PlainRegs, writable_mask, register_spec
<1>5. bytes' = [bytes EXCEPT ![a.reg] = [k \in 0..3 |-> StoredByte(a, k)]]
  BY <1>4 DEF ExpectedBytes
<1>6. ASSUME NEW k \in 0..3
      PROVE  /\ StoredByte(a, k) \subseteq 0..7
             /\ StoredByte(a, k) =
                   InByte((reset_value(a.reg) \ writable_mask(a.reg))
                            \cup (next \cap writable_mask(a.reg)), k)
  <2>1. bytes[a.reg][k] = InByte((reset_value(a.reg) \ writable_mask(a.reg))
                                   \cup (mmio_regs[a.reg] \cap writable_mask(a.reg)), k)
    BY <1>4 DEF HubInv, BytesInv, materialize_register_value
  <2>2. ASSUME NEW b \in 0..7
        PROVE  /\ b + 8 * (3 - k) \in lane_mask(a) <=> Covers(a, k)
               /\ b + 8 * (3 - k) \in write_bits(a) <=> Covers(a, k) /\ b \in ByteOf(a, k)
    BY LaneOfByte
  <2>3. ASSUME NEW b \in 0..7
        PROVE  b \in StoredByte(a, k) <=>
                 b \in InByte((reset_value(a.reg) \ writable_mask(a.reg))
                                \cup (next \cap writable_mask(a.reg)), k)
    BY <2>1, <2>2 DEF StoredByte, InByte
  <2>4. StoredByte(a, k) \subseteq 0..7
    BY <2>1 DEF StoredByte, InByte, ByteOf
  <2> QED
    BY <2>3, <2>4 DEF InByte
<1>7. bytes' \in [PlainRegs -> [0..3 -> SUBSET (0..7)]]
  BY <1>4, <1>5, <1>6 DEF HubInv, BytesInv
<1>8. ASSUME NEW r \in PlainRegs, NEW k \in 0..3
      PROVE  bytes'[r][k] = InByte(materialize_register_value(r)', k)
  <2>1. CASE r = a.reg
    <3>1. mmio_regs'[r] = next
      BY <1>1, <2>1 DEF HubInv
    <3>2. bytes'[r][k] = StoredByte(a, k)
      BY <1>4, <1>5, <2>1 DEF HubInv, BytesInv
    <3> QED
      BY <1>6, <2>1, <3>1, <3>2 DEF materialize_register_value, reset_value, writable_mask
  <2>2. CASE r # a.reg
    <3>1. r \in Regs
      BY DEF PlainRegs
    <3>2. mmio_regs'[r] = mmio_regs[r] /\ bytes'[r] = bytes[r]
      BY <1>1, <1>4, <1>5, <2>2, <3>1 DEF HubInv, BytesInv
    <3>3. materialize_register_value(r)' = materialize_register_value(r)
      BY <3>2 DEF materialize_register_value, reset_value, writable_mask
    <3>4. bytes[r][k] = InByte(materialize_register_value(r), k)
      BY DEF HubInv, BytesInv
    <3> QED
      BY <3>2, <3>3, <3>4
  <2> QED
    BY <2>1, <2>2
<1>9. BytesInv'
  BY <1>7, <1>8 DEF BytesInv, InByte, PlainRegs, Regs
<1> QED
  BY <1>3, <1>9

\* Every register other than the plain ones leaves the byte arrays alone.
LEMMA SpecialWrite ==
    ASSUME HubInv, NEW a \in Accesses, a.reg \notin PlainRegs, UNCHANGED mmio_regs,
           bytes' = ExpectedBytes(a)
    PROVE  /\ mmio_regs' \in [Regs -> SUBSET Word]
           /\ BytesInv'
           /\ (\A r \in Regs : mmio_regs[r] \subseteq writable_mask(r))'
BY BytesUnchanged DEF ExpectedBytes

\* An ignored write changes no byte that software expects to be stored.
LEMMA IgnoredWrite ==
    ASSUME HubInv, NEW a \in Accesses, WriteIgnored(a), bytes' = ExpectedBytes(a)
    PROVE  bytes' = bytes
<1>1. CASE a.reg \notin PlainRegs
  BY <1>1 DEF ExpectedBytes
<1>2. CASE a.reg \in PlainRegs
  <2>1. a.reg \notin SpecialRegs /\ lane_mask(a) \cap writable_mask(a.reg) = {}
    BY <1>2 DEF WriteIgnored, PlainRegs, SpecialRegs
  <2>2. ASSUME NEW k \in 0..3
        PROVE  StoredByte(a, k) = bytes[a.reg][k]
    <3>1. CASE ~Covers(a, k)
      BY <3>1 DEF StoredByte
    <3>2. CASE Covers(a, k)
      <4>1. \A b \in 0..7 : b + 8 * (3 - k) \in lane_mask(a)
        BY <3>2, LaneOfByte
      <4>2. InByte(writable_mask(a.reg), k) = {}
        BY <2>1, <4>1 DEF InByte
      <4> QED
        BY <3>2, <4>2 DEF StoredByte
    <3> QED
      BY <3>1, <3>2
  <2>3. bytes[a.reg] = [k \in 0..3 |-> StoredByte(a, k)]
    BY <1>2, <2>2 DEF HubInv, BytesInv
  <2> QED
    BY <1>2, <2>3 DEF ExpectedBytes, HubInv, BytesInv
<1> QED
  BY <1>1, <1>2

\* Every write keeps the invariant.
LEMMA WriteKeepsInv ==
    ASSUME HubInv, NEW a \in Accesses, Write(a)
    PROVE  HubInv'
<1>1. /\ write(a)
      /\ bytes' = ExpectedBytes(a)
      /\ unacked' = (unacked \cup Raises(a)) \ Acknowledges(a)
      /\ raised' = IF a.reg = "kScuIstClearAddr" THEN raised \ WordOf(a)
                                                 ELSE raised \cup Raises(a)
      /\ completions' = IF Vdp1Done(a) THEN (completions + 1) % CounterRange ELSE completions
  BY DEF Write
<1>2. armed' = CASE a.reg = "kVdp1CommandAddr" -> WordOf(a) \cap 0..7 # {}
                 [] Vdp1Done(a) -> FALSE
                 [] OTHER -> armed
  BY DEF Write
<1>3. write_bits(a) = WordOf(a)
  BY LanesAreBigEndian
<1>4. HubTypeOK /\ HistoryInv
  BY DEF HubInv
<1>5. Completes(a) <=> Vdp1Done(a)
  BY CompletionsAgree
<1>6. Vdp1Done(a) => a.reg \in {"kVdp1EventTriggerAddr", "kVdp1CommandCompleteAddr"}
  BY DEF Vdp1Done
<1>7. a.reg \in SpecialRegs => a.reg \notin PlainRegs
  BY DEF PlainRegs
<1>8. CASE WriteIst(a)
  <2>1. a.reg = "kScuIstAddr" /\ UNCHANGED mmio_regs
    BY <1>8 DEF WriteIst
  <2>2. mmio_regs' \in [Regs -> SUBSET Word] /\ BytesInv'
          /\ (\A r \in Regs : mmio_regs[r] \subseteq writable_mask(r))'
    BY <1>1, <1>7, <2>1, SpecialWrite DEF SpecialRegs
  <2>3. ~Vdp1Done(a) /\ Raises(a) = WordOf(a) \cap 0..15 /\ Acknowledges(a) = {}
    BY <1>6, <2>1 DEF Raises, Acknowledges
  <2>4. armed' = armed /\ completions' = completions
    BY <1>1, <1>2, <2>1, <2>3
  <2>5. HistoryInv'
    BY <1>1, <1>3, <1>4, <1>8, <2>1, <2>3, <2>4 DEF WriteIst, HistoryInv, scuVars, vdp1Vars
  <2>6. HubTypeOK'
    BY <1>4, <1>8, <2>2 DEF WriteIst, HubTypeOK, scuVars, smpcVars, vdp1Vars
  <2> QED
    BY <2>2, <2>5, <2>6 DEF HubInv
<1>9. CASE WriteIstClear(a)
  <2>1. a.reg = "kScuIstClearAddr" /\ UNCHANGED mmio_regs
    BY <1>9 DEF WriteIstClear
  <2>2. mmio_regs' \in [Regs -> SUBSET Word] /\ BytesInv'
          /\ (\A r \in Regs : mmio_regs[r] \subseteq writable_mask(r))'
    BY <1>1, <1>7, <2>1, SpecialWrite DEF SpecialRegs
  <2>3. ~Vdp1Done(a) /\ Raises(a) = {} /\ Acknowledges(a) = WordOf(a) \cap 0..15
    BY <1>6, <2>1 DEF Raises, Acknowledges
  <2>4. armed' = armed /\ completions' = completions
    BY <1>1, <1>2, <2>1, <2>3
  <2>5. HistoryInv'
    BY <1>1, <1>3, <1>4, <1>9, <2>1, <2>3, <2>4 DEF WriteIstClear, HistoryInv, scuVars, vdp1Vars, HubTypeOK
  <2>6. HubTypeOK'
    BY <1>4, <1>9, <2>2 DEF WriteIstClear, HubTypeOK, scuVars, smpcVars, vdp1Vars
  <2> QED
    BY <2>2, <2>5, <2>6 DEF HubInv
<1>10. CASE WriteIstSourceSet(a)
  <2>1. a.reg = "kScuIstSourceSetAddr" /\ UNCHANGED mmio_regs
    BY <1>10 DEF WriteIstSourceSet
  <2>2. mmio_regs' \in [Regs -> SUBSET Word] /\ BytesInv'
          /\ (\A r \in Regs : mmio_regs[r] \subseteq writable_mask(r))'
    BY <1>1, <1>7, <2>1, SpecialWrite DEF SpecialRegs
  <2>3. ~Vdp1Done(a) /\ Raises(a) = WordOf(a) \cap 0..15 /\ Acknowledges(a) = {}
    BY <1>6, <2>1 DEF Raises, Acknowledges
  <2>4. armed' = armed /\ completions' = completions
    BY <1>1, <1>2, <2>1, <2>3
  <2>5. HistoryInv'
    BY <1>1, <1>3, <1>4, <1>10, <2>1, <2>3, <2>4 DEF WriteIstSourceSet, HistoryInv, scuVars, vdp1Vars
  <2>6. HubTypeOK'
    BY <1>4, <1>10, <2>2 DEF WriteIstSourceSet, HubTypeOK, scuVars, smpcVars, vdp1Vars
  <2> QED
    BY <2>2, <2>5, <2>6 DEF HubInv
<1>11. CASE WriteIstSourceClear(a)
  <2>1. a.reg = "kScuIstSourceClearAddr" /\ UNCHANGED mmio_regs
    BY <1>11 DEF WriteIstSourceClear
  <2>2. mmio_regs' \in [Regs -> SUBSET Word] /\ BytesInv'
          /\ (\A r \in Regs : mmio_regs[r] \subseteq writable_mask(r))'
    BY <1>1, <1>7, <2>1, SpecialWrite DEF SpecialRegs
  <2>3. ~Vdp1Done(a) /\ Raises(a) = {} /\ Acknowledges(a) = WordOf(a) \cap 0..15
    BY <1>6, <2>1 DEF Raises, Acknowledges
  <2>4. armed' = armed /\ completions' = completions
    BY <1>1, <1>2, <2>1, <2>3
  <2>5. HistoryInv'
    BY <1>1, <1>3, <1>4, <1>11, <2>1, <2>3, <2>4 DEF WriteIstSourceClear, HistoryInv, scuVars, vdp1Vars
  <2>6. HubTypeOK'
    BY <1>4, <1>11, <2>2 DEF WriteIstSourceClear, HubTypeOK, scuVars, smpcVars, vdp1Vars
  <2> QED
    BY <2>2, <2>5, <2>6 DEF HubInv
<1>12. CASE WriteSmpcCommand(a)
  <2>1. a.reg = "kSmpcCommandAddr" /\ UNCHANGED mmio_regs
    BY <1>12 DEF WriteSmpcCommand
  <2>2. mmio_regs' \in [Regs -> SUBSET Word] /\ BytesInv'
          /\ (\A r \in Regs : mmio_regs[r] \subseteq writable_mask(r))'
    BY <1>1, <1>7, <2>1, SpecialWrite DEF SpecialRegs
  <2>3. ~Vdp1Done(a) /\ Raises(a) = {} /\ Acknowledges(a) = {}
    BY <1>6, <2>1 DEF Raises, Acknowledges
  <2>4. armed' = armed /\ completions' = completions
    BY <1>1, <1>2, <2>1, <2>3
  <2>5. HistoryInv'
    BY <1>1, <1>3, <1>4, <1>12, <2>1, <2>3, <2>4 DEF WriteSmpcCommand, HistoryInv, scuVars, vdp1Vars, Word
  <2>6. HubTypeOK'
    BY <1>4, <1>12, <2>2 DEF WriteSmpcCommand, HubTypeOK, scuVars, smpcVars, vdp1Vars, Word
  <2> QED
    BY <2>2, <2>5, <2>6 DEF HubInv
<1>13. CASE WriteVdp1IrqBridge(a)
  <2>1. a.reg = "kVdp1ScuIrqBridgeAddr" /\ UNCHANGED mmio_regs
    BY <1>13 DEF WriteVdp1IrqBridge
  <2>2. mmio_regs' \in [Regs -> SUBSET Word] /\ BytesInv'
          /\ (\A r \in Regs : mmio_regs[r] \subseteq writable_mask(r))'
    BY <1>1, <1>7, <2>1, SpecialWrite DEF SpecialRegs
  <2>3. ~Vdp1Done(a) /\ Raises(a) = 
               (IF 0 \in WordOf(a) THEN kVdp1ScuIrqMask ELSE {}) /\ Acknowledges(a) = 
               (IF 0 \in WordOf(a) THEN {} ELSE kVdp1ScuIrqMask)
    BY <1>6, <2>1 DEF Raises, Acknowledges
  <2>4. armed' = armed /\ completions' = completions
    BY <1>1, <1>2, <2>1, <2>3
  <2>5. HistoryInv'
    BY <1>1, <1>3, <1>4, <1>13, <2>1, <2>3, <2>4 DEF WriteVdp1IrqBridge, HistoryInv, scuVars, vdp1Vars, kVdp1ScuIrqMask
  <2>6. HubTypeOK'
    BY <1>4, <1>13, <2>2 DEF WriteVdp1IrqBridge, HubTypeOK, scuVars, smpcVars, vdp1Vars, kVdp1ScuIrqMask
  <2> QED
    BY <2>2, <2>5, <2>6 DEF HubInv
<1>14. CASE WriteVdp1Command(a)
  <2>1. a.reg = "kVdp1CommandAddr" /\ UNCHANGED mmio_regs
    BY <1>14 DEF WriteVdp1Command
  <2>2. mmio_regs' \in [Regs -> SUBSET Word] /\ BytesInv'
          /\ (\A r \in Regs : mmio_regs[r] \subseteq writable_mask(r))'
    BY <1>1, <1>7, <2>1, SpecialWrite DEF SpecialRegs
  <2>3. ~Vdp1Done(a) /\ Raises(a) = {} /\ Acknowledges(a) = {}
    BY <1>6, <2>1 DEF Raises, Acknowledges
  <2>4. armed' = (WordOf(a) \cap 0..7 # {}) /\ completions' = completions
    BY <1>1, <1>2, <2>1, <2>3
  <2>5. HistoryInv'
    BY <1>1, <1>3, <1>4, <1>14, <2>1, <2>3, <2>4 DEF WriteVdp1Command, HistoryInv, scuVars, vdp1Vars
  <2>6. HubTypeOK'
    BY <1>4, <1>14, <2>2 DEF WriteVdp1Command, HubTypeOK, scuVars, smpcVars, vdp1Vars
  <2> QED
    BY <2>2, <2>5, <2>6 DEF HubInv
<1>15. CASE WriteVdp1Completion(a)
  <2>1. /\ Vdp1Done(a) /\ UNCHANGED mmio_regs
        /\ a.reg \in {"kVdp1EventTriggerAddr", "kVdp1CommandCompleteAddr"}
    BY <1>5, <1>6, <1>15 DEF WriteVdp1Completion
  <2>2. mmio_regs' \in [Regs -> SUBSET Word] /\ BytesInv'
          /\ (\A r \in Regs : mmio_regs[r] \subseteq writable_mask(r))'
    BY <1>1, <1>7, <2>1, SpecialWrite DEF SpecialRegs
  <2>3. Raises(a) = kVdp1ScuIrqMask /\ Acknowledges(a) = {}
    BY <2>1 DEF Raises, Acknowledges
  <2>4. armed' = FALSE /\ completions' = (completions + 1) % CounterRange
    BY <1>1, <1>2, <2>1
  <2>5. HistoryInv'
    BY <1>1, <1>4, <1>15, <2>1, <2>3, <2>4
    DEF WriteVdp1Completion, signal_vdp1_completion, HistoryInv
  <2>6. HubTypeOK'
    <3>1. ASSUME NEW n \in Nat
          PROVE  n % CounterRange \in 0..(CounterRange - 1)
      BY CounterAssumption
    <3>2. vdp1_event_counter + 1 \in Nat /\ vdp1_completed_counter + 1 \in Nat
      BY <1>4, CounterAssumption DEF HubTypeOK
    <3>3. /\ vdp1_event_counter' \in 0..(CounterRange - 1)
          /\ vdp1_completed_counter' \in 0..(CounterRange - 1)
      BY <1>15, <3>1, <3>2 DEF WriteVdp1Completion, signal_vdp1_completion
    <3>4. /\ vdp1_irq_level' = {0} /\ vdp1_command_pending' = FALSE
          /\ scu_interrupt_source_pending' = scu_interrupt_source_pending \cup {5}
          /\ UNCHANGED <<scu_interrupt_pending, smpc_last_command, smpc_command_result,
                         vdp1_last_command>>
      BY <1>15 DEF WriteVdp1Completion, signal_vdp1_completion, smpcVars, kVdp1ScuIrqMask
    <3>5. scu_interrupt_source_pending' \subseteq 0..15
      BY <1>4, <3>4 DEF HubTypeOK
    <3>6. vdp1_command_pending' \in BOOLEAN /\ vdp1_irq_level' \subseteq {0}
      BY <3>4
    <3> QED
      BY <1>4, <2>2, <3>3, <3>4, <3>5, <3>6, Zenon DEF HubTypeOK
  <2> QED
    BY <2>2, <2>5, <2>6 DEF HubInv
<1>16. CASE WritePlain(a) \/ WriteIgnored(a)
  <2>1. UNCHANGED <<scuVars, smpcVars, vdp1Vars>>
    BY <1>16 DEF WritePlain, WriteIgnored, hubVars
  <2>2. mmio_regs' \in [Regs -> SUBSET Word] /\ BytesInv'
          /\ (\A r \in Regs : mmio_regs[r] \subseteq writable_mask(r))'
    <3>1. CASE WritePlain(a)
      BY <1>1, <3>1, PlainWrite
    <3>2. CASE WriteIgnored(a)
      <4>1. UNCHANGED <<mmio_regs, bytes>>
        BY <1>1, <3>2, IgnoredWrite DEF WriteIgnored, hubVars
      <4> QED
        BY <4>1, BytesUnchanged
    <3> QED
      BY <1>16, <3>1, <3>2
  <2>3. ~Vdp1Done(a) /\ Raises(a) = {} /\ Acknowledges(a) = {}
           /\ a.reg \notin {"kScuIstClearAddr", "kVdp1CommandAddr"}
    BY <1>5, <1>16 DEF WritePlain, WriteIgnored, SpecialRegs, Raises, Acknowledges, Completes
  <2>4. /\ armed' = armed /\ completions' = completions
        /\ raised' = raised /\ unacked' = unacked
    BY <1>1, <1>2, <2>3
  <2>5. HistoryInv'
    BY <1>4, <2>1, <2>4 DEF HistoryInv, scuVars, vdp1Vars
  <2>6. HubTypeOK'
    BY <1>4, <2>1, <2>2 DEF HubTypeOK, scuVars, smpcVars, vdp1Vars
  <2> QED
    BY <2>2, <2>5, <2>6 DEF HubInv
<1> QED
  BY <1>1, <1>8, <1>9, <1>10, <1>11, <1>12, <1>13, <1>14, <1>15, <1>16 DEF write

\* The inductive invariant holds in every behaviour.
LEMMA HubInvHolds == Spec => []HubInv
<1>1. Init => HubInv
  <2> SUFFICES ASSUME Init PROVE HubInv
    OBVIOUS
  <2>1. mmio_regs = [r \in Regs |-> {}]
    BY DEF Init, HubInit
  <2>2. mmio_regs \in [Regs -> SUBSET Word] /\ HubTypeOK
    <3>1. mmio_regs \in [Regs -> SUBSET Word]
            /\ \A r \in Regs : mmio_regs[r] \subseteq writable_mask(r)
      BY <2>1
    <3>2. 0 \in 0..(CounterRange - 1)
      BY CounterAssumption
    <3> QED
      BY <3>1, <3>2 DEF Init, HubInit, HubTypeOK
  <2>3. HistoryInv
    BY DEF Init, HubInit, HistoryInv
  <2>4. ASSUME NEW r \in PlainRegs
        PROVE  /\ r \in Regs
               /\ reset_value(r) \cap writable_mask(r) = {}
    BY DEF PlainRegs, reset_value, writable_mask, register_spec
  <2>5. ASSUME NEW r \in PlainRegs
        PROVE  materialize_register_value(r) = reset_value(r)
    BY <2>1, <2>4 DEF materialize_register_value
  <2>6. bytes = [r \in PlainRegs |-> [k \in 0..3 |-> InByte(reset_value(r), k)]]
    BY DEF Init
  <2>7. \A r \in PlainRegs, k \in 0..3 : InByte(reset_value(r), k) \subseteq 0..7
    BY DEF InByte
  <2>8. BytesInv
    BY <2>5, <2>6, <2>7 DEF BytesInv
  <2> QED
    BY <2>2, <2>3, <2>8 DEF HubInv
<1>2. HubInv /\ [Next]_vars => HubInv'
  <2>1. ASSUME HubInv, Next PROVE HubInv'
    BY <2>1, WriteKeepsInv DEF Next
  <2>2. ASSUME HubInv, UNCHANGED vars PROVE HubInv'
    <3>1. UNCHANGED <<mmio_regs, bytes>>
      BY <2>2 DEF vars, hubVars, historyVars
    <3> QED
      BY <2>2, <3>1, BytesUnchanged
      DEF HubInv, HubTypeOK, HistoryInv, vars, hubVars, historyVars, scuVars, smpcVars, vdp1Vars
  <2> QED
    BY <2>1, <2>2
<1> QED
  BY <1>1, <1>2, PTL DEF Spec

\* A whole-word read returns the register's value.
LEMMA ReadWord ==
    ASSUME NEW r, RegisterValue(r) \subseteq Word
    PROVE  read(r, 0, 4) = RegisterValue(r)
<1>1. lane_shift(0, 4) = 0 /\ size_mask(4) = 0..31
  BY DEF lane_shift, size_mask
<1>2. ShiftRight(RegisterValue(r), 0) = RegisterValue(r)
  BY DEF ShiftRight, Word
<1> QED
  BY <1>1, <1>2 DEF read, Word

\* Whether a bit is in the result of a read.
LEMMA ReadBits ==
    ASSUME NEW r, NEW offset, NEW size, NEW n \in 0..31, RegisterValue(r) \subseteq Word,
           lane_shift(offset, size) \in 0..31
    PROVE  n \in read(r, offset, size) <=>
              n \in size_mask(size) /\ n + lane_shift(offset, size) \in RegisterValue(r)
<1>1. n \in ShiftRight(RegisterValue(r), lane_shift(offset, size)) <=>
          n + lane_shift(offset, size) \in RegisterValue(r)
  <2>1. \A c \in RegisterValue(r) : c \in Int
    BY DEF Word
  <2>2. n \in ShiftRight(RegisterValue(r), lane_shift(offset, size)) <=>
          \E c \in RegisterValue(r) : c >= lane_shift(offset, size)
                                      /\ n = c - lane_shift(offset, size)
    BY DEF ShiftRight
  <2>3. \A c \in RegisterValue(r) :
            (c >= lane_shift(offset, size) /\ n = c - lane_shift(offset, size))
               <=> c = n + lane_shift(offset, size)
    BY <2>1
  <2> QED
    BY <2>2, <2>3
<1> QED
  BY <1>1 DEF read

\* HubTypeOK is an invariant: the masks of DeviceHub::write keep every latch,
\* command and register within its width, for any software.
THEOREM HubTypeCorrect == Spec => []HubTypeOK
BY HubInvHolds, PTL DEF HubInv

\* No interrupt is lost or invented, for any sequence of aligned accesses of
\* the two CPUs (InterruptsTruthful).
THEOREM InterruptsAreTruthful == Spec => []InterruptsTruthful
<1>1. HubInv => InterruptsTruthful
  <2> SUFFICES ASSUME HubInv PROVE InterruptsTruthful
    OBVIOUS
  <2>1. "kScuImsAddr" \in Regs
    BY DEF Regs, register_spec
  <2>2. RegisterValue("kScuImsAddr") = materialize_register_value("kScuImsAddr")
    BY DEF RegisterValue
  <2>3. RegisterValue("kScuIstAddr") = InterruptStatus
    BY DEF RegisterValue
  <2>4. RegisterValue("kScuImsAddr") \subseteq Word
    BY <2>1, <2>2, MasksAreWords DEF materialize_register_value
  <2>5. RegisterValue("kScuIstAddr") \subseteq Word
    <3>1. scu_interrupt_pending \subseteq 0..15 /\ scu_interrupt_source_pending \subseteq 0..15
      BY DEF HubInv, HubTypeOK
    <3>2. InterruptStatus \subseteq 0..15
      BY <3>1 DEF InterruptStatus
    <3>3. 0..15 \subseteq Word
      BY DEF Word
    <3> QED
      BY <2>3, <3>2, <3>3
  <2>6. /\ read("kScuIstAddr", 0, 4) = InterruptStatus
        /\ read("kScuImsAddr", 0, 4) = materialize_register_value("kScuImsAddr")
    BY <2>2, <2>3, <2>4, <2>5, ReadWord
  <2> QED
    BY <2>6 DEF InterruptsTruthful, InterruptStatus, HubInv, HistoryInv
<1> QED
  BY <1>1, HubInvHolds, PTL

\* The VDP1 status registers tell whether the last command is still running and
\* how many completions there were (CommandStatusTruthful).
THEOREM CommandStatusIsTruthful == Spec => []CommandStatusTruthful
<1>1. HubInv => CommandStatusTruthful
  <2> SUFFICES ASSUME HubInv PROVE CommandStatusTruthful
    OBVIOUS
  <2> DEFINE busy == IF vdp1_command_pending THEN {0} ELSE {}
             done == CounterBits(vdp1_completed_counter)
             events == CounterBits(vdp1_event_counter)
  <2>1. done \subseteq 0..7 /\ events \subseteq 0..7
    BY DEF CounterBits
  <2>2. vdp1_irq_level \subseteq {0} /\ vdp1_last_command \subseteq 0..7
    BY DEF HubInv, HubTypeOK
  <2>3. RegisterValue("kVdp1CommandStatusAddr") =
            busy \cup ShiftLeft(done, 8) \cup ShiftLeft(vdp1_last_command, 16)
    BY DEF RegisterValue
  <2>4. RegisterValue("kVdp1EventStatusAddr") = events \cup ShiftLeft(vdp1_irq_level, 8)
    BY DEF RegisterValue
  <2>5. /\ RegisterValue("kVdp1CommandStatusAddr") \subseteq Word
        /\ RegisterValue("kVdp1EventStatusAddr") \subseteq Word
    BY <2>1, <2>3, <2>4 DEF ShiftLeft, Word
  <2>6. lane_shift(3, 1) = 0 /\ lane_shift(2, 1) = 8 /\ size_mask(1) = 0..7
    BY DEF lane_shift, size_mask
  <2>7. 0 \in read("kVdp1CommandStatusAddr", 3, 1) <=> vdp1_command_pending
    <3>1. 0 \in read("kVdp1CommandStatusAddr", 3, 1) <=>
              0 \in RegisterValue("kVdp1CommandStatusAddr")
      BY <2>5, <2>6, ReadBits
    <3>2. 0 \notin ShiftLeft(done, 8) /\ 0 \notin ShiftLeft(vdp1_last_command, 16)
      BY <2>1, <2>2 DEF ShiftLeft
    <3> QED
      BY <2>3, <3>1, <3>2
  <2>8. read("kVdp1CommandStatusAddr", 2, 1) = done
    <3>1. ASSUME NEW n \in 0..7
          PROVE  n \in read("kVdp1CommandStatusAddr", 2, 1) <=> n \in done
      <4>1. n \in read("kVdp1CommandStatusAddr", 2, 1) <=>
                n + 8 \in RegisterValue("kVdp1CommandStatusAddr")
        BY <2>5, <2>6, ReadBits
      <4>2. n + 8 \notin busy /\ n + 8 \notin ShiftLeft(vdp1_last_command, 16)
        BY <2>2 DEF ShiftLeft
      <4>3. n + 8 \in ShiftLeft(done, 8) <=> n \in done
        BY <2>1 DEF ShiftLeft, Word
      <4> QED
        BY <2>3, <4>1, <4>2, <4>3
    <3>2. read("kVdp1CommandStatusAddr", 2, 1) \subseteq 0..7
      BY <2>6 DEF read
    <3> QED
      BY <2>1, <3>1, <3>2
  <2>9. read("kVdp1EventStatusAddr", 3, 1) = events
    <3>1. ASSUME NEW n \in 0..7
          PROVE  n \in read("kVdp1EventStatusAddr", 3, 1) <=> n \in events
      <4>1. n \in read("kVdp1EventStatusAddr", 3, 1) <=>
                n \in RegisterValue("kVdp1EventStatusAddr")
        BY <2>5, <2>6, ReadBits
      <4>2. n \notin ShiftLeft(vdp1_irq_level, 8)
        BY <2>2 DEF ShiftLeft
      <4> QED
        BY <2>4, <4>1, <4>2
    <3>2. read("kVdp1EventStatusAddr", 3, 1) \subseteq 0..7
      BY <2>6 DEF read
    <3> QED
      BY <2>1, <3>1, <3>2
  <2>10. armed = vdp1_command_pending /\ armed \in BOOLEAN
    BY DEF HubInv, HistoryInv, HubTypeOK
  <2> QED
    BY <2>7, <2>8, <2>9, <2>10 DEF CommandStatusTruthful, HubInv, HistoryInv
<1> QED
  BY <1>1, HubInvHolds, PTL

\* Plain registers read back as big-endian byte arrays under any mixture of
\* access widths (ReadsMatchBytes).
THEOREM PlainRegistersAreBytes == Spec => []ReadsMatchBytes
<1>1. HubInv => ReadsMatchBytes
  <2> SUFFICES ASSUME HubInv, NEW r \in PlainRegs, NEW size \in {1, 2, 4},
                      NEW offset \in {o \in 0..3 : aligned(o, size)}
               PROVE  read(r, offset, size) =
                        UNION {{b + 8 * (offset + size - 1 - k) : b \in bytes[r][k]} :
                                    k \in offset..(offset + size - 1)}
    BY DEF ReadsMatchBytes
  <2> DEFINE expected == UNION {{b + 8 * (offset + size - 1 - k) : b \in bytes[r][k]} :
                                    k \in offset..(offset + size - 1)}
             value == materialize_register_value(r)
  <2>1. /\ offset \in 0..3
        /\ \/ size = 4 /\ offset = 0
           \/ size = 2 /\ offset = 0
           \/ size = 2 /\ offset = 2
           \/ size = 1
    BY DEF aligned
  <2>2. RegisterValue(r) = value
    BY DEF RegisterValue, PlainRegs, SpecialRegs
  <2>3. value \subseteq Word
    BY MasksAreWords DEF materialize_register_value, PlainRegs
  <2>4. lane_shift(offset, size) = 8 * (4 - offset - size)
    BY <2>1 DEF lane_shift
  <2>5. \A k \in 0..3 : bytes[r][k] = {b \in 0..7 : b + 8 * (3 - k) \in value}
    BY DEF HubInv, BytesInv, InByte
  <2>6. expected \subseteq 0..(8 * size - 1)
    <3> SUFFICES ASSUME NEW k \in offset..(offset + size - 1), NEW b \in bytes[r][k]
                 PROVE  b + 8 * (offset + size - 1 - k) \in 0..(8 * size - 1)
      OBVIOUS
    <3>1. k \in 0..3
      BY <2>1
    <3>2. b \in 0..7
      BY <2>5, <3>1
    <3> QED
      BY <2>1, <3>2
  <2>7. read(r, offset, size) \subseteq 0..(8 * size - 1)
    BY DEF read, size_mask
  <2>8. ASSUME NEW n \in 0..(8 * size - 1)
        PROVE  n \in read(r, offset, size) <=> n \in expected
    <3>1. PICK k \in offset..(offset + size - 1), b \in 0..7 :
                n = b + 8 * (offset + size - 1 - k)
      <4>1. n \in Int /\ 0 <= n /\ n <= 31
        BY <2>1
      <4>2. PICK q \in 0..3, b \in 0..7 : n = b + 8 * q
        BY <4>1
      <4>3. q <= size - 1
        BY <2>1, <4>2
      <4>4. /\ offset + size - 1 - q \in offset..(offset + size - 1)
            /\ n = b + 8 * (offset + size - 1 - (offset + size - 1 - q))
        BY <2>1, <4>2, <4>3
      <4> QED
        BY <4>4
    <3>2. k \in 0..3 /\ n \in 0..31 /\ lane_shift(offset, size) \in 0..31
      BY <2>1, <2>4
    <3>3. n \in read(r, offset, size) <=> n + lane_shift(offset, size) \in value
      BY <2>2, <2>3, <3>2, ReadBits DEF size_mask
    <3>4. n + lane_shift(offset, size) = b + 8 * (3 - k)
      BY <2>1, <2>4, <3>1
    <3>5. n \in expected <=> b \in bytes[r][k]
      <4>1. ASSUME NEW j \in offset..(offset + size - 1), NEW c \in bytes[r][j],
                   n = c + 8 * (offset + size - 1 - j)
            PROVE  j = k /\ c = b
        <5>1. j \in 0..3
          BY <2>1
        <5>2. c \in 0..7
          BY <2>5, <5>1
        <5> QED
          BY <2>1, <3>1, <4>1, <5>1, <5>2
      <4>2. n \in expected <=>
              \E j \in offset..(offset + size - 1) : \E c \in bytes[r][j] :
                  n = c + 8 * (offset + size - 1 - j)
        OBVIOUS
      <4> QED
        BY <3>1, <4>1, <4>2
    <3> QED
      BY <2>5, <3>2, <3>3, <3>4, <3>5
  <2> QED
    BY <2>6, <2>7, <2>8
<1> QED
  BY <1>1, HubInvHolds, PTL
=============================================================================
