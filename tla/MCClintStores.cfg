SPECIFICATION ClintSpec
CONSTANT Half = 4
INVARIANT StoresReachTheirRegister
