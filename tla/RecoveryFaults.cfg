SPECIFICATION FairSpec
CONSTANTS
    Ids = {i1, i2, i3, i4}
    NoId = NoId
    Main = main
    Cleaners = {c1}
    MaxFaults = 3
    MaxMeddling = 2
    SharedClusterName = FALSE
INVARIANTS
    RemovedIsGone
    OnlyRunContainersRemoved
    CleanExitLeavesNothing
PROPERTY EventuallyClean
