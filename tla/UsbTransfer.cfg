SPECIFICATION FairSpec
CONSTANTS
    USB_NAK_LIMIT = 3
    USB_RETRY_LIMIT = 2
    MaxReports = 3
    MaxErrors = 3
    MaxLate = 1
INVARIANTS
    TypeOK
    ExactlyOnce
    BoundedDispatch
PROPERTIES
    Delivered
