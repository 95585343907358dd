SPECIFICATION Spec
CONSTANTS
    Actions = {"c1"}
    DialogTypes = {"confirm", "beforeunload"}
    Permissions = {"geolocation"}
    MaxRequests = 1
    MaxWire = 2
    Tabs = {"t1"}
    RegCalls = {"c1", "c2"}
    MaxClients = 3
    Requests = {"r1", "r2", "r3", "r4"}
    WebSockets = {"r4"}
    Waits = {"w1", "w2"}
    MaxEntries = 2
    Elements <- MCElements
    Parent <- MCParent
    Hosted <- MCHosted
    Markup <- MCMarkup
    Looks <- MCLooks
    ObsCalls = {"c1", "c2"}
    MaxLog = 2
    MaxShadow = 1
    MaxMutations = 3
    MaxBatch = 2
    MaxTime = 1
    InputCalls = {"c1", "c2"}
    Operations = {"click", "clickSmall", "clickAt", "type", "press", "hover", "select",
                  "scrollTo", "scrollPage", "dragElement", "wheel", "inspect"}
    MaxNodes = 2
    Watched = {"w1", "w2"}
    Checks = {"k1", "k2"}
    MaxStates = 3
    FailureThreshold = 2
INVARIANTS
    PendingIsShown
    ClosedStaysClosed
    RegisteredClientIsOpen
    QuietIsQuiet
    CollectedBeforeOverflow
    ActedOnce
    UnhealthyByItsOwnChecks
CHECK_DEADLOCK FALSE
