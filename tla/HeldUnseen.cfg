SPECIFICATION FairSpec
CONSTANTS
    Sessions = {s1}
    MaxAsks = 2
    Worlds <- MCFailing
PROPERTIES
    HeldIsAnswerable
CHECK_DEADLOCK FALSE
