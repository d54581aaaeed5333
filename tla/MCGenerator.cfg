SPECIFICATION FairSpec
CONSTANTS
    Ops = {0, 1}
    OpType <- MCOpType
    Srate = 3
    MsPerSec = 2
    BufLen = 2
    ChLen = 3
    Programs <- MCPrograms
    MaxEvents = 3
    MaxVoices = 2
    Waits = {0, 1, 3}
    Times = {0, 1, 2}
INVARIANTS
    TypeOK
    SkippedVoicesSilent
    DurationMatchesCarrier
    OneVoicePerCarrier
    MixPastMaxClear
    NothingAfterShortBlock
    WritesInBounds
    IInv
PROPERTIES
    EventOnTime
    NeverCutOff
    StreamSpec
    Terminates
