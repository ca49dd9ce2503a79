SPECIFICATION Spec
CONSTANTS
    Widths <- TwoWidths
    MaxCalls = 5
    MaxLayouts = 3
    MaxBridges = 2
INVARIANTS
    TypeOK
    SurfaceFollowsView
    PublishedBridgeIsAlive
CHECK_DEADLOCK FALSE
