SPECIFICATION FairSpec
CONSTANTS
    root = root
    a = a
    b = b
    i1 = i1
    Root = root
    Children <- TwoChildren
    Items <- OneItem
    MaxPasses = 2
    MaxChanges = 4
    Echo <- RootAndChild
INVARIANTS
    Settled
    MirrorsModel
    MessagesMakeSense
    OneLayoutOneBurst
PROPERTY
    DispatchComesLast
    OperationEnds
CHECK_DEADLOCK FALSE
