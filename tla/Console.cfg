SPECIFICATION FairSpec
CONSTANTS
    BUF_LEN = 3
    Depth = 2
    Threshold = 1
    timeout = 2
    MaxInactive = 2
    Lengths = {1, 4}
    MaxChars = 5
    Span = 4
    Period = 2
INVARIANTS
    TypeOK
    PendingIsArmed
    AlarmOnTime
PROPERTIES
    ImplementsPipe
    IsrReturns
    WriteReturns
