SPECIFICATION Spec
CONSTANTS
    RamAddr <- MCRamAddr
    MmioAddr <- MCMmioAddr
    ByteMod = 2
    Latency <- MCLatency
    TickMax = 1000
    DevState = {0, 1}
    DevInit = 0
    DevRead <- MCDevRead
    DevWrite <- MCDevWrite
    Templates <- ContractTemplates
    ReqTimes = {0, 1, 6}
    Watermarks = {1, 7}
    MaxOps = 4
    MaxOutstanding = 1
    MaxTrace = 4
    Honest = TRUE
INVARIANTS
    TypeOK
    BusSerial
    TiesAlternate
    PickIgnoresHostOrder
PROPERTIES
    NoLateArrival
