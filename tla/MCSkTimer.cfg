\* Three entries, a day of one second, clocks that wrap at 16.
SPECIFICATION FairSpec
CONSTANTS
    Num = 3
    Period = 1
    Width = 16
    Weeks <- MCWeeks
    Starts = {0, 2, 5}
    Clock = {1, 2, 5, 13}
INVARIANTS
    TypeOK
    EachDueRunsOnce
    SortedNoHoles
PROPERTY
    CheckEnds
