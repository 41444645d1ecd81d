SPECIFICATION FairSpec
CONSTANTS
    Pods = {p1, p2, p3}
    Replicas = 1
INVARIANTS
    VerifiedCauseIsReal
    RollbackRecordIsTrue
    EveryEffectIsDiagnosed
PROPERTY ExecutionEnds
