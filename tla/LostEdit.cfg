SPECIFICATION Spec
CONSTANTS
    World = {"lose_event", "fail"}
    MaxSaves = 1
    MaxOthers = 0
    MaxCrashes = 0
PROPERTIES
    ClosesKeepTheEdit
CHECK_DEADLOCK FALSE
