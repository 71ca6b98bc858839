SPECIFICATION Spec
CONSTANTS
    OtherRegs = {"kOther"}
    CounterRange = 2
    Accesses <- MCAccesses
    MaxWrites = 4
INVARIANTS
    HubTypeOK
    ReadsMatchBytes
    InterruptsTruthful
    CommandStatusTruthful
CHECK_DEADLOCK FALSE
