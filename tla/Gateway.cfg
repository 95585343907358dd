SPECIFICATION Spec
CONSTANTS
    Sessions = {s1, s2, s3}
    MaxSessions = 2
INVARIANTS
    TypeOK
    ActiveIsReachable
    ClosedOnce
PROPERTIES
    IdleIsEvicted
    DeletedIsDestroyed
CHECK_DEADLOCK FALSE
