CONSTANTS
    MaxCalls = 2
    MaxLegs = 3
    MaxInvites = 2
    Directions = {"toSip", "toSignal"}
    Races = {}
    Teardown = TRUE
SPECIFICATION FairSpec
INVARIANTS
    NoUseAfterFree
    BridgedTogether
PROPERTIES
    SipHangupEndsCall
    EndedCallReleasesLeg
CHECK_DEADLOCK FALSE
