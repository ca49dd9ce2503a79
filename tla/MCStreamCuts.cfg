SPECIFICATION Spec
CONSTANTS
    Docs <- OneText
    Surfaces <- TwoSurfaces
    MaxBuffer = 40
INVARIANT
    CutsDoNotMatter
CHECK_DEADLOCK FALSE
