SPECIFICATION Spec
CONSTANTS
    StartSize = 2
    Sizes = {1, 2, 5, 6, 13, 16}
    DtorSize = 3
    MaxAllocs = 6
INVARIANT PoolInv
CHECK_DEADLOCK FALSE
