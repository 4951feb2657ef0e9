SPECIFICATION Spec
CONSTANTS
    Header = 5
    Kind = 91
    Items <- MCItems
    MaxBytes = 9
    BufSize = 9
INVARIANTS
    TypeOK
    RestAtFront
    WholeFramesArrive
PROPERTY
    PerReadParser
CHECK_DEADLOCK FALSE
