SPECIFICATION Spec
CONSTANTS
    Calls = {c1, c2}
    Nodes = {n1, n2}
    Eids = {e1, e2}
    Urls = {u1, u2}
    None = None
INVARIANTS
    TypeOK
    DiffIsWithinPage
    AnsweredEidsResolve
    ResolvedWasAnswered
SYMMETRY Symmetry
CHECK_DEADLOCK FALSE
