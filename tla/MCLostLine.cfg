SPECIFICATION Spec
CONSTANTS
    AreaLen = 3
    UngetMax = 2
    MaxChar = 9
    Loose = FALSE
    Scripts <- MCReturnScripts
INVARIANT ToldAsWritten
