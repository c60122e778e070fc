SPECIFICATION FairSpec
CONSTANTS
    World = {"reopen"}
    MaxSaves = 1
    MaxOthers = 0
    MaxCrashes = 0
PROPERTIES
    LingeringEnds
CHECK_DEADLOCK FALSE
