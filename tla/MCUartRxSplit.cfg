\* A frame that two reads share is lost.
SPECIFICATION Spec
CONSTANTS
    Header = 5
    Kind = 91
    Items <- MCItems
    MaxBytes = 6
    BufSize = 10
INVARIANT
    StreamDelivered
CHECK_DEADLOCK FALSE
