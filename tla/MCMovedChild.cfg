SPECIFICATION Spec
CONSTANTS
    root = root
    a = a
    b = b
    i1 = i1
    Root = root
    Children <- TwoChildren
    Items <- NoIds
    MaxPasses = 2
    MaxChanges = 3
    Echo <- NoIds
INVARIANTS
    LayoutStylesAreKept
CHECK_DEADLOCK FALSE
