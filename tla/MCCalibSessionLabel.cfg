\* The second run's out-ear error is painted on the in-ear label.
SPECIFICATION Spec
CONSTANTS
    Tries = 2
    MaxRuns = 2
PROPERTY
    OwnLabel
CHECK_DEADLOCK FALSE
