SPECIFICATION MCSpec
CONSTANTS
    Keys = {"jenkins", "kubernetes"}
    KeyOrder <- MCKeyOrder
    Commits = {"c1", "c2", "c3"}
    Marked = {"c1", "c2"}
    License <- MCLicense
    Origins <- MCOrigins
    Packaged <- MCPackaged
    EditedLocks <- MCEditedLocks
    None = None
    Procs = {p1, p2}
    Ops <- MCOps
    Configs = {"k1", "k3"}
    Model <- MCModel
    Paths <- MCPaths
    PathsOf <- MCPathsOf
    Template <- MCTemplate
    ContextPath = "context"
    Stray = "stray"
    Hosts <- MCHosts
    Checkouts <- MCCheckouts
    Edited = Edited
    Irregular = Irregular
    Leftover = Leftover
    MaxMoves = 2
    MaxCommands = 2
INVARIANTS
    ViewsAgree
    ManifestIsBehind
PROPERTIES
    UserEditsSurvive
    GenerateRepairs
    ExaminedIsPinned
    UpdateKeepsLicense
SYMMETRY Symmetry
CHECK_DEADLOCK FALSE
