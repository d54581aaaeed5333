CONSTANTS
    MaxNodes = 4
    MaxEvents = 3
    MaxTokens = 9
    MaxGrouped = 7
    MaxLevels = 3
    Names = {"n1"}
    Mults = {2}
    Gain = 1
SPECIFICATION Spec
INVARIANT PlainInv
CHECK_DEADLOCK FALSE
