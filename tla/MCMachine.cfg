SPECIFICATION MachineSpec
CONSTANTS
    WordSize = 4
    RAM_BASE = 0
    JumpTargets <- MCNone
    CsrInstrs <- MCLineInstrs
    Half = 2
    Stores32 <- MCLineStores32
    Stores64 <- MCLineStores64
INVARIANTS
    ClintTypeOK
    HalvesAgree
PROPERTIES
    DueIsStable
    LinesFollowDevice
    TimerInterruptJustified
    HartSpec
