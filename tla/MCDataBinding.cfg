SPECIFICATION Spec
CONSTANTS
    Items <- TwoItems
    Cells <- TwoCells
    Extra <- BothToo
    Pieces = {a, b}
    MaxChanges = 6
INVARIANTS
    BindingsMatchComponents
    ListFollowsData
    ScreenFollowsData
CHECK_DEADLOCK FALSE
