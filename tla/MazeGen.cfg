SPECIFICATION FairSpec
CONSTANTS
    mazeWidth = 4
    mazeHeight = 3
INVARIANTS
    TypeOK
    StackFits
    SpanningTree
PROPERTIES
    Terminates
