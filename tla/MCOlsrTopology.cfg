SPECIFICATION FairSpec
CONSTANTS
    o1 = o1
    d1 = d1
    d2 = d2
    Originators <- OneOriginator
    Attackers <- NoAttackers
    Dests <- TwoDests
    Injected <- TwoDests
    TcInterval = 1
    MaxDelay = 1
    StartAnsn = 65535
    AnsnHorizon = 2
INVARIANTS
    TypeOK
    OneAnsnPerOriginator
    EveryTupleHasTimer
    StalenessBound
PROPERTIES
    NoRollback
    RefinesView
    SilentForgotten
