SPECIFICATION Spec
CONSTANTS
    AreaLen = 3
    UngetMax = 2
    MaxChar = 9
    Loose = TRUE
    Scripts <- MCPlainScripts
INVARIANT ToldAsWritten
