CONSTANTS
    MaxNodes = 6
    MaxEvents = 3
    MaxTokens = 12
    MaxGrouped = 12
    MaxLevels = 3
    Names = {}
    Mults = {}
    Gain = 1
SPECIFICATION Spec
INVARIANT ListOfItsOperator
CHECK_DEADLOCK FALSE
