-------------------------- MODULE MCDeviceSoftware --------------------------
(***************************************************************************)
(* A small instance of DeviceSoftware.  The values have bits in every lane *)
(* and beyond the width of a subword access.                               *)
(***************************************************************************)
EXTENDS DeviceSoftware

Aligned(reg, values) ==
    {a \in [reg : {reg}, offset : 0..3, size : {1, 2, 4}, value : values] :
        aligned(a.offset, a.size)}

Words == {{0, 5, 11, 13, 17, 20, 31}, {4, 5, 8, 18, 24, 31}}

At(reg, offset, size, value) ==
    [reg |-> reg, offset |-> offset, size |-> size, value |-> value]

MCAccesses ==
    Aligned("kScuDma0SrcAddr", Words)
    \cup Aligned("kScuDma0SizeAddr", {{0, 5, 11, 13, 17, 20, 31}})
    \cup Aligned("kScspMcierAddr", {{0, 5, 11, 13, 17, 20, 31}})
    \cup {At(r, 0, 4, Word) : r \in {"kDisplayStatusAddr", "kScuDma0CtrlAddr",
                                      "kSmpcStatusAddr", "kVdp2TvmdAddr", "kVdp2TvstatAddr",
                                      "kVdp1CommandStatusAddr", "kVdp1EventStatusAddr",
                                      "kSmpcCommandResultAddr", "kOther"}}
    \cup {At("kScuImsAddr", 0, 4, v) : v \in {{}, {5}}}
    \cup {At("kScuIstAddr", 0, 4, Word), At("kScuIstAddr", 2, 1, {5}), At("kScuIstAddr", 3, 1, {5})}
    \cup {At("kScuIstClearAddr", o, 1, {5}) : o \in 1..3}
    \cup {At("kScuIstSourceSetAddr", o, 2, {5, 13}) : o \in {0, 2}}
    \cup {At("kScuIstSourceClearAddr", 0, 4, {5}), At("kScuIstSourceClearAddr", 2, 1, {5})}
    \cup {At("kSmpcCommandAddr", 0, 4, {1, 6}), At("kSmpcCommandAddr", 0, 1, {1})}
    \cup {At("kVdp1ScuIrqBridgeAddr", 3, 1, v) : v \in {{}, {0}}}
    \cup {At("kVdp1CommandAddr", 0, 4, v) : v \in {{}, {2, 4}}}
    \cup {At("kVdp1EventTriggerAddr", 3, 1, {0}), At("kVdp1EventTriggerAddr", 0, 1, {0})}
    \cup {At("kVdp1CommandCompleteAddr", 2, 2, {0}), At("kVdp1CommandCompleteAddr", 0, 2, {0})}
=============================================================================
