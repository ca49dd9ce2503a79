SPECIFICATION Spec
CONSTANTS
    Items <- TwoItems
    Cells <- TwoCells
    Extra <- ArrayToo
    Pieces = {a, b}
    MaxChanges = 6
INVARIANT
    NoDestroyedObserverIsCalled
CHECK_DEADLOCK FALSE
