\* Every pair of instructions, with run-ahead and with exceptions
CONSTANTS
    WordBits = 12
    AliasBit = 2048
    Regs = {0, 1, 2, 3, 15}
    LineSize = 16
    CacheLines = 64
    Setups <- MCSetups
    Vectors = {14, 15}
    MaxRequests = 1
    ResetPc = 4
    ResetSp = 120
SPECIFICATION Spec
INVARIANT HoldsWords Conforms PendingWellFormed
PROPERTY RefinesIsa
