SPECIFICATION FairSpec
CONSTANTS
    World = {"other"}
    MaxSaves = 1
    MaxOthers = 1
    MaxCrashes = 0
PROPERTIES
    LiveKeepsOthersWork
CHECK_DEADLOCK FALSE
