SPECIFICATION MCSpec
CONSTANTS
    Managers = {m1, m2}
    Browsers = {b1, b2, b3}
    Chain <- AutoChain
    None = None
    Actions = {"c1"}
    DialogTypes = {"confirm", "beforeunload"}
    Permissions = {"geolocation"}
    MaxRequests = 1
    MaxWire = 2
INVARIANTS
    TypeOK
    OwnedIsHeld
    ConnectedIsLive
    PagesAreOfTheBrowser
PROPERTIES
    EnsureEnds
    DialogEnds
CHECK_DEADLOCK FALSE
