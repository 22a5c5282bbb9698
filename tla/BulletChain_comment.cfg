SPECIFICATION Spec
CONSTANTS
    N = 3
    Life = 9
    Gap = 2
    WireSpan = 16
    PowerUp = {FALSE}
PROPERTIES
    ActiveOnlyAfterPredecessor
