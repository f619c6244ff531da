SPECIFICATION FairSpec
CONSTANTS
    if1 = if1
    a = a
    x = x
    Ifaces <- OneIface
    Neighbors <- OneNeighbor
    Main <- OnlyA
    TwoHops <- OneTwoHop
    Willingness <- AlwaysDefault
    VTime = 2
    HoldTime = 2
INVARIANTS
    TypeOK
    EveryTupleHasEvent
    SymmetryBound
    TwoHopBound
    LinksMatchNeighbors
    MprsAreSymmetric
PROPERTIES
    SilentForgotten
