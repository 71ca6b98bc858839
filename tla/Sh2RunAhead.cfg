\* What the run-ahead loop decodes differently: a conditional branch, TRAPA
CONSTANTS
    WordBits = 12
    AliasBit = 2048
    Regs = {0, 1, 2, 3, 15}
    LineSize = 16
    CacheLines = 64
    Setups <- RunAheadSetups
    Vectors = {14, 15}
    MaxRequests = 1
    ResetPc = 4
    ResetSp = 120
SPECIFICATION Spec
PROPERTY RefinesIsa
