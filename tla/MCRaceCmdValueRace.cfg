\* The value may be read before it is stored.
SPECIFICATION Spec
CONSTANTS
    SendCount = 3
    MaxCalls = 2
    MaxForeign = 0
INVARIANT
    OwnValue
CHECK_DEADLOCK FALSE
