SPECIFICATION Spec
CONSTANTS
    s1 = s1
    a = a
    b = b
    k1 = k1
    k2 = k2
    l1 = l1
    l2 = l2
    MaxInstances = 2
    Surfaces <- OneSurface
    Children <- None
    Containers <- None
    Listeners <- TwoListeners
    MaxReports = 4
    MaxQueue = 2
INVARIANTS EndIsTold
CHECK_DEADLOCK FALSE
