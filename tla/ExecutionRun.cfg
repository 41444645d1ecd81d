SPECIFICATION Spec
CONSTANTS
    SomeProfiles = {"static", "supply-chain", "kind-e2e", "release"}
    MayRetain = TRUE
INVARIANTS
    StartedRunCloses
    SuccessIsEarned
    
    LeftoversAreKnown
    JournalTellsTheOutcome
