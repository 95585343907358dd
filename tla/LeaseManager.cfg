SPECIFICATION Spec
CONSTANTS
    Tenants = {t1, t2}
    Controllers = {c1, c2}
    Ttls = {0, 1}
    Horizon = 2
    LeaseBound = 2
    NoLease = NoLease
    Nobody = Nobody
INVARIANTS
    TypeOK
    GrantsAreKept
    AnnouncedAtMostOnce
PROPERTIES
    IsExclusiveLease
    UnmarkedIsCleanedUp
CHECK_DEADLOCK FALSE
