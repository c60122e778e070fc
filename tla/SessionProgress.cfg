SPECIFICATION FairSpec
CONSTANTS
    World = {"fail", "other", "crash", "litter"}
    MaxSaves = 1
    MaxOthers = 1
    MaxCrashes = 1
INVARIANTS
    IndInv
    LingeringCanSettle
PROPERTIES
    SavesLand
    LingeringEnds
    ClosesLoseOnlyTheUnheard
    ExaminedEditsSurvive
CHECK_DEADLOCK FALSE
