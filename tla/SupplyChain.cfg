SPECIFICATION Spec
CONSTANTS
    Digests = {"a", "b", "i"}
    Indexes = {"i"}
    Versions = {1, 2}
    Findings <- MCFindings
    Policy <- MCPolicy
    MaxDay = 2
    MaxMoves = 2
    None = None
INVARIANTS
    EvidenceIsOfTheBuild
    SealedBundlesVerify
    ReportedToolsWereUsed
\* A run ends.
CHECK_DEADLOCK FALSE
