SPECIFICATION FairSpec
CONSTANTS
    MaxScore = 3
    WindowTicks = 1
    HitFrames = 2
INVARIANTS
    TypeOK
    ScoreIsWins
    NoRedrawInPlay
    NoHitWhileReady
PROPERTIES
    RoundOnFreshMaze
    ImplementsMatch
    HandshakesEnd
