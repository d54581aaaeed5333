SPECIFICATION Spec
CONSTANTS
    Ops = {0, 1, 2, 3, 4, 5, 6, 7}
    OpType <- MCOpType
    Srate = 1
    MsPerSec = 1
    MaxEvents = 4
    MaxInLists = 4
    MaxChain = 0
    Waits = {0, 1, 2}
    Times = {1, 2}
    SubSteps = TRUE
    Longer = {0, 1}
INVARIANT VoiceReuseAfterExpiry
CHECK_DEADLOCK FALSE
