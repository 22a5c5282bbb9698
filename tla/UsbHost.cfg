SPECIFICATION FairSpec
CONSTANTS
    USB_NUMDEVICES = 3
    MaxChanges = 3
INVARIANTS
    TypeOK
    PollsTheDevice
PROPERTIES
    EnumerationEnds
    LossIsNoticed
