SPECIFICATION FairSpec
CONSTANTS
    Sessions = {s1}
    MaxAsks = 2
    Worlds <- MCWorlds
INVARIANTS
    TypeOK
    IndInv
    NoButtonOutlivesItsQuestion
    StrandedOnlyAsKnown
    OwedIsOnItsWay
    WarningsAreSeen
PROPERTIES
    OnlyTheWindowIsMissed
    TroublesAreNotLost
    PressesAreActedOn
    IconCatchesUp
CHECK_DEADLOCK FALSE
