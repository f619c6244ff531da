SPECIFICATION FairSpec
CONSTANTS
    hop = hop
    far = far
    NextHops <- OneHop
    Dests <- OneDest
    Round = 1
    ForwardTimeout = 1
    WarmupDuration = 3
    ProbationDuration = 1
    BlacklistDuration = 2
    BlacklistThreshold = 2
    MinDataObservations = 1
    MacFailureThreshold = 0
    SelfDropsThreshold = 0
    RtsCtsDiscrepancyThresh = 1
    RateNum = 2
    RateDen = 5
    MaxSent = 3
    MaxFailures = 1
    MaxDiff = 2
    MaxChecks = 1
INVARIANTS
    TypeOK
    AccountedOnce
    VerdictJustified
    NoEarlyVerdict
    TermIsBounded
PROPERTIES
    Readmitted
