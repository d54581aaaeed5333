SPECIFICATION Spec
CONSTANTS
    StartSize = 2
    Sizes = {1, 2, 5, 6, 13, 16}
    DtorSize = 3
    MaxAllocs = 6
INVARIANTS
    TypeOK
    MemoryNotShared
    SortedWhereSearched
PROPERTIES
    BestFit
CHECK_DEADLOCK FALSE
