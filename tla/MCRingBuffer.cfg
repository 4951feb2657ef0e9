\* One writer and one reader, overlapping updates of count, resets.
SPECIFICATION Spec
CONSTANTS
    Size = 3
    MaxPut = 10
    MaxLen = 4
INVARIANTS
    TypeOK
    InOrder
    NothingOverwritten
    CountExact
CHECK_DEADLOCK FALSE
