SPECIFICATION Spec
CONSTANTS
    Ids = {i1, i2, i3}
    NoId = NoId
    Main = main
    Cleaners = {c1, c2}
    MaxFaults = 1
    MaxMeddling = 1
    SharedClusterName = TRUE
SYMMETRY Symmetry
INVARIANTS
    CompleteIsClean
