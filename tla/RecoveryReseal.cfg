SPECIFICATION Spec
CONSTANTS
    Ids = {i1, i2}
    NoId = NoId
    Main = main
    Cleaners = {c1}
    MaxFaults = 1
    MaxMeddling = 0
    SharedClusterName = FALSE
INVARIANT CleanupCanBeRepeated
