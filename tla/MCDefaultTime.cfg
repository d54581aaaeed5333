CONSTANTS
    MaxEvents = 3
    Waits = {0, 3}
    Times = {2}
    DefTime = 4
    MaxInLists = 3
    Wrap = 1024
SPECIFICATION Spec
INVARIANT SensibleDefaultTime
CHECK_DEADLOCK FALSE
