SPECIFICATION Spec
CONSTANTS
    Ops = {0, 1, 2, 3, 4, 5, 6, 7}
    OpType <- MCOpType
    Srate = 1
    MsPerSec = 1
    MaxEvents = 4
    MaxInLists = 4
    MaxChain = 1
    Waits = {0}
    Times = {1}
    SubSteps = FALSE
    Longer = {0}
INVARIANTS
    NestDepthCovers
CHECK_DEADLOCK FALSE
