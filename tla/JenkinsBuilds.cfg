SPECIFICATION Spec
CONSTANTS
    main = main
    feature = feature
    pMain = pMain
    pFeature = pFeature
    pAll = pAll
    Branches = {main, feature}
    Commits = {c1, c2}
    Versions = {v1}
    Patterns = {pMain, pFeature, pAll}
    Globs <- MCGlobs
    Slugs <- MCSlugs
    Models <- MCModels
    MaxBuilds = 2
    MaxStarts = 2
    Flawed = {c2}
    Reproducible = FALSE
    None = None
INVARIANT ChecksSuffice
INVARIANT DeployedIsVerified
INVARIANT SourceIsTrue
INVARIANT ProductionIsApproved
INVARIANT NoForeseenRefusal
INVARIANT RollbackRestores
PROPERTY EveryBuildEnds
CHECK_DEADLOCK FALSE
