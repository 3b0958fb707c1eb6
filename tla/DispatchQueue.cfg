CONSTANTS
    offer = offer
    ice = ice
    sync = sync
    Work = {offer, ice, sync}
    Stuck = {sync}
    MaxPushes = 3
    EarlyFailure = TRUE
SPECIFICATION FairSpec
INVARIANTS
    FifoExactlyOnce
    NoLostWakeup
    CleanStopDrains
PROPERTIES
    StopTerminates
    PushedIsExecuted
CHECK_DEADLOCK FALSE
