SPECIFICATION Spec
CONSTANTS
    Widths <- TwoWidths
    MaxCalls = 2
    MaxLayouts = 0
    MaxBridges = 1
INVARIANTS
    QueriedBridgeIsAlive
CHECK_DEADLOCK FALSE
