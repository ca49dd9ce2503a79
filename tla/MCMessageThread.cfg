SPECIFICATION FairSpec
CONSTANTS
    p1 = p1
    main = main
    w = w
    Posters <- OnePoster
    Owner = main
    Worker = w
    NoOne = NoOne
    NoTask = NoTask
    Kinds <- BothKinds
    MaxPosts <- Posts201
    MaxStarts = 2
INVARIANTS
    TypeOK
    QuietAfterStop
    SubmissionOrder
    AtMostOneLateRun
    NothingEarlyIsLeft
PROPERTIES
    StopTerminates
    AcceptedTaskBegins
    ImplementsExecutor
CHECK_DEADLOCK FALSE
