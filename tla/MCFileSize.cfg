SPECIFICATION FairSpec
CONSTANTS
    Ops = {0, 1}
    OpType <- MCOpType
    MsPerSec = 2
    Rate = 2
    DevRate = 3
    BufTimeMs = 3
    ScriptLists <- MCScriptLists
    NoProgram = NoProgram
    StdioBuf = 2
    SizeWrap = 16
    MaxArgs = 3
    MaxFails = 0
INVARIANTS
    SizeIsTotal
