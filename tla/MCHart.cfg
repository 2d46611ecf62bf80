SPECIFICATION Spec
CONSTANTS
    WordSize = 8
    RAM_BASE = 4
    JumpTargets <- MCJumpTargets
    CsrInstrs <- MCTrapInstrs
INVARIANT TypeOK
PROPERTIES
    PrivilegeRisesOnlyByTrap
    PrivilegeIsolation
    SequentialPc
