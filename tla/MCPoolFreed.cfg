SPECIFICATION Spec
CONSTANTS
    StartSize = 2
    Sizes = {1, 2, 16}
    DtorSize = 3
    MaxAllocs = 5
INVARIANT FreesAll
CHECK_DEADLOCK FALSE
