SPECIFICATION Spec
CONSTANTS
    Values = {41472}
    Ratios = {0, 41472}
    Times = {0, 1, 4}
    Mul = 2
    Garbage = {0}
    Wrap = 100
    MaxLen = 3
    MaxUpdates = 4
    Loose = TRUE
PROPERTY GoalInRemainingTime
