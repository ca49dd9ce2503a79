SPECIFICATION Spec
CONSTANTS
    Items <- TwoItems
    Cells <- TwoCells
    Extra <- TitleToo
    Pieces = {a, b}
    MaxChanges = 6
INVARIANT
    TemplateReachesChildren
CHECK_DEADLOCK FALSE
