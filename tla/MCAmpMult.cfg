CONSTANTS
    MaxNodes = 4
    MaxEvents = 3
    MaxTokens = 8
    MaxGrouped = 8
    MaxLevels = 3
    Names = {"n1"}
    Mults = {2}
    Gain = 1
SPECIFICATION Spec
INVARIANT MultiplierApplies
CHECK_DEADLOCK FALSE
