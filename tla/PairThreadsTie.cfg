SPECIFICATION Spec
CONSTANTS
    RamAddr <- DemoRamAddr
    MmioAddr <- DemoMmioAddr
    ByteMod = 2
    Latency <- MCLatency
    TickMax = 100000
    DevState = {0, 1, 2, 3}
    DevInit = 0
    DevRead <- MCDevRead
    DevWrite <- MCDevWrite
    LineSize = 16
    CacheLines = 1
    Scripts <- DualDemo
PROPERTIES
    TraceParity
