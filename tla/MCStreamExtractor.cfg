SPECIFICATION FairSpec
CONSTANTS
    Docs <- TwoStreams
    Surfaces <- TwoSurfaces
    MaxBuffer = 22
INVARIANTS
    InDocumentOrder
    ShowsPrefix
    OnlyKnownCutsMatter
PROPERTY
    ChunkIsProcessed
CHECK_DEADLOCK FALSE
