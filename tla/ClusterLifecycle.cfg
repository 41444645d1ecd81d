CONSTANTS
    Creator = creator
    Destroyers = {d1, d2}
    MaxFaults = 2
    MaxMeddling = 2
SPECIFICATION FairSpec
INVARIANTS
    DestroyTellsTheTruth
    SingleFailureLeavesNoTrap
PROPERTY EventuallyDestroyed
