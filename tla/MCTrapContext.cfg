SPECIFICATION CtxSpec
CONSTANTS
    WordSize = 8
    RAM_BASE = 4
    JumpTargets <- MCJumpTargets
    CsrInstrs <- MCNestedInstrs
INVARIANTS
    MContextIntact
    SContextIntact
PROPERTIES
    NoInterruptLeftBehind
