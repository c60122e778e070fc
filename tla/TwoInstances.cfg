SPECIFICATION Spec
CONSTANTS
    Openers = {o1, o2, o3}
    Askers = {}
    Containers = {c1}
    Kinds = {"socket"}
    Nobody = Nobody
    MaxCrashes = 1
INVARIANTS
    OneInstance
CHECK_DEADLOCK FALSE
