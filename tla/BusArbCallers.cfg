SPECIFICATION Spec
CONSTANTS
    access_cycles <- MCAccessCycles
    Addrs = {0, 1}
    Sizes = {4}
    same_address_contention = 2
    tie_turnaround = 1
    WaitMax = 3
    Requests <- MCRequests
    ReplayTicks = {0, 2, 7}
    MaxTick = 8
PROPERTIES
    GrantsSerial
INVARIANTS
    NobodyOversleeps
    BoundedBypass
    WinnerIgnoresOrder
CHECK_DEADLOCK FALSE
