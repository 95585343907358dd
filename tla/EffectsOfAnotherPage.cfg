SPECIFICATION Spec
CONSTANTS
    Calls = {c1}
    Nodes = {n1, n2}
    Eids = {e1, e2}
    Urls = {u1, u2}
    None = None
INVARIANTS
    EffectsAreOfTheAction
CHECK_DEADLOCK FALSE
