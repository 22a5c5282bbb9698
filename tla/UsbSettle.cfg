SPECIFICATION FairSpec
CONSTANTS
    Span = 64
    Thousand = 4
    TicksPerSecond = 4
    Delay = 2
PROPERTIES
    SettleEnds
