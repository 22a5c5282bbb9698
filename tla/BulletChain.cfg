SPECIFICATION FairSpec
CONSTANTS
    N = 3
    Life = 9
    Gap = 2
    WireSpan = 16
    PowerUp = {TRUE, FALSE}
INVARIANTS
    TypeOK
    Spacing
PROPERTIES
    NoLateGhost
    BulletGoesOut
