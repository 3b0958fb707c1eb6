SPECIFICATION RecoverySpec
PROPERTIES
    SocketRecovers
    SipRecovers
    RevokedEndsUnregistered
