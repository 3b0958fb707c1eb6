SPECIFICATION FairSpec
CONSTANT
    MaxAttempts = 2
INVARIANTS
    DestroysOnlyLostConnection
    LoserCleansUp
PROPERTY
    CloseReturns
CHECK_DEADLOCK FALSE
