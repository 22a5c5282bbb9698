SPECIFICATION Spec
CONSTANTS
    Width = 5
    Height = 4
    hpixels = 6
    vlines = 8
    SyncLine = 6
    objectS = 1
    MaxWalls = 2
PROPERTIES
    ContactFresh
    OneStepPerFrame
