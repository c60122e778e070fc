SPECIFICATION Spec
CONSTANTS
    Keys <- MCKeys
    Odd <- MCOdd
    NoKey = NoKey
    Shipped = {"doc"}
    Expected = {"exe"}
    Layers <- MCLayers
    Broken = Broken
    MaxPushes = 1
INVARIANTS
    IndInv
    StandingRefusalsHold
    GateHolds
    DecisionsAreTheReference
    RefusalsAreExplained
