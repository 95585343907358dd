SPECIFICATION SafetySpec
CONSTANTS
    Tenants = {t1, t2}
    Controllers = {c1}
    Calls = {r1, r2}
    WorkerIds = {w1, w2}
    MinPort = 1
    MaxPort = 3
    MaxWorkers = 2
    ForeignPorts = {2}
    Nothing = Nothing
    ShutdownCall = ShutdownCall
SYMMETRY Symmetry
INVARIANTS
    TypeOK
    MappingIsKnown
    ReservedPortsAreOwned
    OneWorkerPerTenant
    LeasedIsKept
    NoOrphans
CHECK_DEADLOCK FALSE
