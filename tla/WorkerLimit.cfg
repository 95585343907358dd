SPECIFICATION SafetySpec
CONSTANTS
    Tenants = {t1, t2}
    Controllers = {c1}
    Calls = {r1, r2}
    WorkerIds = {w1, w2}
    MinPort = 1
    MaxPort = 3
    MaxWorkers = 1
    ForeignPorts = {}
    Nothing = Nothing
    ShutdownCall = ShutdownCall
SYMMETRY Symmetry
INVARIANTS
    LimitIsKept
CHECK_DEADLOCK FALSE
