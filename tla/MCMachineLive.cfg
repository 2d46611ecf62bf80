SPECIFICATION FairMachineSpec
CONSTANTS
    WordSize = 4
    RAM_BASE = 0
    JumpTargets <- MCNone
    CsrInstrs <- MCPagingInstrs
    Half = 2
    Stores32 <- MCNone
    Stores64 <- MCPagingStores64

PROPERTIES
    TimerTakenIfFetching
