SPECIFICATION Spec
CONSTANTS
    mazeWidth = 2
    mazeHeight = 2
    pathWidth = 19
    WordBits = 20
    Mazes <- MCMazes
    Spawn <- MCSpawn
    BottomAt = 235
    RightAt = 153
    Life = 1000
    MaxFrames = 34
    MaxChanges = 2
INVARIANTS
    TypeOK
PROPERTIES
    NoSilentCrossing
    StraightBounce
    StepsBack
