\* Replies in time and late ones, losses, failed allocations.
SPECIFICATION FairSpec
CONSTANTS
    SendCount = 3
    MaxCalls = 2
    MaxForeign = 2
INVARIANTS
    TypeOK
    OwnSignal
    StaleByAtMostOne
    OneReleasePerReply
PROPERTY
    CallReturns
    CommandContract
CHECK_DEADLOCK FALSE
