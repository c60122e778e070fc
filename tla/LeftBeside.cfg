SPECIFICATION Spec
CONSTANTS
    Paths = {p1}
    Ids = {s1, s2, s3}
    None = None
    World = {"left"}
    MaxMoves = 0
PROPERTIES
    NothingLeftBeside
CHECK_DEADLOCK FALSE
