CONSTANTS
    MaxCalls = 2
    MaxLegs = 1
    MaxInvites = 1
    Directions = {"toSip", "toSignal"}
    Races = {"call", "invite", "teardown", "late"}
    Teardown = TRUE
SPECIFICATION FairSpec
INVARIANTS
    DtmfReachesOwnCall
PROPERTIES
    TeardownEnds
CHECK_DEADLOCK FALSE
