SPECIFICATION FairSpec
CONSTANTS
    l1 = l1
    l2 = l2
    Listeners <- OneListener
    NoTask = NoTask
    MaxSM = 2
    MaxUses = 2
    MaxAdds = 2
    ListenersChange = TRUE
INVARIANTS
    TaskFindsItsWorld
    NothingBehindUninit
    RemovedIsGone
    AllReleased
PROPERTIES
    StopReturns
    InitCompletes
CHECK_DEADLOCK FALSE
