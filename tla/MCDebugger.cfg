SPECIFICATION DebuggerSpec
CONSTANTS
    WordSize = 8
    RAM_BASE = 0
    JumpTargets <- MCJumpTargets
    CsrInstrs <- MCInstrs
    MAX_BREAKPOINTS = 2
    CountSize = 4
    Addresses <- MCAddresses
    MaxStep = 2
CHECK_DEADLOCK FALSE
INVARIANTS
    DebuggerTypeOK
    LinesFrozen
PROPERTIES
    BreakpointsHonoured
    ControlledHart
