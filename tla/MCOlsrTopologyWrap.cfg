SPECIFICATION Spec
CONSTANTS
    o1 = o1
    d1 = d1
    d2 = d2
    Originators <- OneOriginator
    Attackers <- AllAttackers
    Dests <- OneDest
    Injected <- OneDest
    TcInterval = 1
    MaxDelay = 1
    StartAnsn = 65200
    AnsnHorizon = 401
PROPERTIES
    OffsetTcTakenAsNewer
