SPECIFICATION Spec
CONSTANTS
    Tenants = {t1}
    Controllers = {c1}
    Calls = {r1}
    WorkerIds = {w1, w2}
    MinPort = 1
    MaxPort = 2
    MaxWorkers = 2
    ForeignPorts = {}
    Nothing = Nothing
    ShutdownCall = ShutdownCall
PROPERTIES
    RunningEnds
CHECK_DEADLOCK FALSE
