SPECIFICATION FairSpec
CONSTANTS
    Openers = {o1, o2, o3}
    Askers = {a1}
    Containers = {c1}
    Kinds = {"socket", "pipe"}
    Nobody = Nobody
    MaxCrashes = 1
INVARIANTS
    IndInv
    OnePipeInstance
    CallersAreAttended
PROPERTIES
    SweepsSpareTheServed
    HandsOverOnce
    CallersHearBack
CHECK_DEADLOCK FALSE
