CONSTANTS
    MaxEvents = 4
    MaxInLists = 3
    Waits = {0, 3}
    Times = {2}
    DefTime = 4
    Wrap = 1024
SPECIFICATION Spec
INVARIANTS TypeOK PlacedOnTime CarryEndsGroup StepsConnected FilledToTheEnd
CHECK_DEADLOCK FALSE
