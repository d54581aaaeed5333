CONSTANTS
    MaxNodes = 4
    MaxEvents = 3
    MaxTokens = 8
    MaxGrouped = 8
    MaxLevels = 3
    Names = {}
    Mults = {}
    Gain = 1
SPECIFICATION Spec
INVARIANT DelaysWhatFollows
CHECK_DEADLOCK FALSE
