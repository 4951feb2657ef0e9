\* Another instance sets the event of the same name.
SPECIFICATION Spec
CONSTANTS
    SendCount = 3
    MaxCalls = 2
    MaxForeign = 1
INVARIANT
    SomeResponse
CHECK_DEADLOCK FALSE
