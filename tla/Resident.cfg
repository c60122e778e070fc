SPECIFICATION Spec
CONSTANTS
    Paths = {p1, p2}
    Ids = {s1, s2}
    None = None
    World = {"fail", "linked", "other", "left"}
    MaxMoves = 2
SYMMETRY Symmetry
INVARIANTS
    IndInv
    OneSessionEach
    LiveIsNotRecovered
    NoDeadButtons
CHECK_DEADLOCK FALSE
