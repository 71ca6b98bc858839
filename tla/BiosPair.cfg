SPECIFICATION Spec
CONSTANTS
    RamAddr <- MCRamAddr
    MmioAddr <- MCMmioAddr
    ByteMod = 8
    Latency <- MCLatency
    TickMax = 10000
    DevState = {0, 1, 2, 3}
    DevInit = 0
    DevRead <- MCDevRead
    DevWrite <- MCDevWrite
    LineSize = 8
    CacheLines = 2
    WordBits = 12
    AliasBit = 2048
    Regs = {0, 1, 2, 3, 4, 15}
    Decode <- MCDecode
    InvalidWord = 13
    Images <- MCImages
    ResetSp = 28
    Budget = 2
    MaxSteps = 20
    ProbeAddr = 64
INVARIANTS
    StepsBounded
    StaleOnlyByStore
PROPERTIES
    RunAheadInvisible
    Terminates
