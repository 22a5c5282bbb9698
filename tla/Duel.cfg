SPECIFICATION DuelSpec
CONSTANTS
    mazeWidth = 2
    mazeHeight = 2
    pathWidth = 19
    WordBits = 20
    Mazes <- MCMazes
    Spawns <- MCSpawns
    BottomAt = 235
    RightAt = 153
    Life = 7
    Gap = 2
    HitFrames = 6
    Inputs <- MCInputs
    PowerUp <- MCPowerUp
    MaxAge = 10
    MaxSpent = 1
INVARIANTS
    MuzzlesClear
PROPERTIES
    ImplementsArena
    ImplementsChain
