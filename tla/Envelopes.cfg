SPECIFICATION FairSpec
CONSTANTS
    Sessions <- MCSessions
    Shared = 100
    NoSession = 0
    MaxQueue = 1
    MaxCrashes = 1
INVARIANTS
    NoLostUpdate
    NoWaitCycle
PROPERTY DesyncHeals
