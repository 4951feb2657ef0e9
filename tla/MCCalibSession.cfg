\* Two runs, each with retries in its loops.
SPECIFICATION FairSpec
CONSTANTS
    Tries = 2
    MaxRuns = 2
INVARIANTS
    TypeOK
    OneWorker
    VerdictsTrue
    LabelsMatchVerdict
    AutotestArmed
    PromptHonoured
PROPERTY
    RunEnds
CHECK_DEADLOCK FALSE
