SPECIFICATION Spec
CONSTANTS
    RamAddr <- MCRamAddr
    MmioAddr <- MCMmioAddr
    ByteMod = 2
    Latency <- MCLatency
    TickMax = 1000
    DevState = {0, 1}
    DevInit = 0
    DevRead <- MCDevRead
    DevWrite <- MCDevWrite
    Templates <- FaultTemplates
    ReqTimes = {0, 5}
    Watermarks = {1}
    MaxOps = 3
    MaxOutstanding = 3
    MaxTrace = 4
    Honest = FALSE
INVARIANTS
    ProducerTimeMonotone
    NothingLost
PROPERTIES
    FaultsAreInert
    HaltFreezes
