SPECIFICATION FairBridge
CONSTANTS
    r1 = r1
    r2 = r2
    u1 = u1
    Request <- MCRequest
    User <- MCUser
    Nobody = Nobody
    Free = Free
    AuthDisabled = FALSE
INVARIANTS
    LifeTypeOK
    CutAtDeadline
    AnnouncedIsServed
    RevokedStayRevoked
    RevokedRefused
PROPERTIES
    GracefulStopKeepsUsers
    StopsWhenTold
