SPECIFICATION Spec
CONSTANTS
    World = {"lose_event", "crash", "other", "reopen", "command"}
    MaxSaves = 2
    MaxOthers = 1
    MaxCrashes = 1
INVARIANTS
    IndInv
    OnlyConflictsAreAsked
PROPERTIES
    RecoveryKeepsOthersWork
    ExaminedEditsSurvive
    KeepsCustody
    TornIsLeftAlone
CHECK_DEADLOCK FALSE
