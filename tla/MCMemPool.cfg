\* Two threads, a pool of one block and one of two, another instance at the semaphore.
SPECIFICATION FairSpec
CONSTANTS
    Threads = {t1, t2}
    None = none
    Other = other
    NumPools = 2
    BlkCnt <- MCBlkCnt
    BlkSize <- MCBlkSize
    Asked <- MCAsked
    Width = 4
INVARIANTS
    TypeOK
    OneOwner
    LargeEnough
    SemaHeldInside
    CountAtRest
PROPERTY
    CallsReturn
CHECK_DEADLOCK FALSE
