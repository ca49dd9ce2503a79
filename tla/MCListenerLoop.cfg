SPECIFICATION Spec
CONSTANTS
    s1 = s1
    a = a
    b = b
    k1 = k1
    k2 = k2
    l1 = l1
    l2 = l2
    MaxInstances = 1
    Surfaces <- OneSurface
    Children <- None
    Containers <- None
    Listeners <- TwoListeners
    MaxReports = 2
    MaxQueue = 2
INVARIANT LoopStaysInList
CHECK_DEADLOCK FALSE
