SPECIFICATION Spec
CONSTANTS
    Items <- NoItems
    Cells <- NoItems
    Extra <- TitleToo
    Pieces = {a, b}
    MaxChanges = 6
PROPERTY
    AppendedPieceIsAdded
CHECK_DEADLOCK FALSE
