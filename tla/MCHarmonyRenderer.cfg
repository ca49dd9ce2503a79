SPECIFICATION Spec
CONSTANTS
    s1 = s1
    a = a
    b = b
    k1 = k1
    k2 = k2
    l1 = l1
    l2 = l2
    MaxInstances = 2
    Surfaces <- OneSurface
    Children <- TwoChildren
    Containers <- TwoContainers
    Listeners <- OneListener
    MaxReports = 5
    MaxQueue = 2
INVARIANTS RendererMirrorsCore ActionsReachOwnInstance ContainerShowsItsSurface
CHECK_DEADLOCK FALSE
SYMMETRY Symmetry
