SPECIFICATION FairSpec
CONSTANTS
    a = a
    b = b
    c = c
    d = d
    e = e
    a1 = a1
    b1 = b1
    b2 = b2
    c1 = c1
    d1 = d1
    e1 = e1
    tc = tc
    hello = hello
    Nodes <- AllNodes
    Ifaces <- AllIfaces
    Owner <- OwnerOf
    Reach <- BothWays
    Messages <- AllMessages
    Originator <- OriginatorOf
    Hellos <- HelloMessages
    Selectors <- MprSelectors
    MaxTtl = 3
    OLSR_MAX_MSGS = 1
    OLSR_DUP_HOLD_TIME = 3
    MaxJitter = 1
    MaxDisturbances = 1
INVARIANTS
    TypeOK
    RetransmittedOnce
    FloodComplete
PROPERTIES
    DuplicatesOutliveHold
    FloodsEnd
CHECK_DEADLOCK FALSE
