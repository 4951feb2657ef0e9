\* Two stations, a segment of four addresses, at most two rows at a time.
SPECIFICATION Spec
CONSTANTS
    Stations = {s1, s2}
    Size = 4
    Asked = {1, 2}
    Freed = {0, 1}
    Width = 32
    Ids = {i1, i2}
    NoId = none
SYMMETRY Symmetry
CONSTRAINT Explored
INVARIANTS
    TypeOK
    GrantsApart
    TableSound
    ListIsTable
PROPERTY
    HandleIsPool
CHECK_DEADLOCK FALSE
