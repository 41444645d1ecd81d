SPECIFICATION FairSpec
CONSTANTS
    Leader = leader
    Descendants = {d1}
    Streams = {out}
    Limit = 1
    PipeSize = 2
    MaxOutput = 3
INVARIANTS
    OutcomeIsTheCommandsOwn
    CommandNeverSurvives
PROPERTIES
    CaptureIsComplete
    OutputIsDrained
    InvocationEnds
CHECK_DEADLOCK FALSE
