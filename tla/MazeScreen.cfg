SPECIFICATION ScanSpec
CONSTANTS
    mazeWidth = 8
    mazeHeight = 5
    pathWidth = 19
    WordBits = 32
INVARIANTS
    PicturesTheMaze
    DirectionRight
