SPECIFICATION Spec
CONSTANTS
    l1 = l1
    l2 = l2
    Listeners <- OneListener
    NoTask = NoTask
    MaxSM = 1
    MaxUses = 0
    MaxAdds = 2
    ListenersChange = FALSE
INVARIANT
    RegisteredStillFires
CHECK_DEADLOCK FALSE
