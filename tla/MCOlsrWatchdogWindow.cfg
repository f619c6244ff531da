SPECIFICATION HistorySpec
CONSTANTS
    hop = hop
    far = far
    NextHops <- OneHop
    Dests <- OneDest
    Round = 2
    ForwardTimeout = 1
    WarmupDuration = 1
    ProbationDuration = 2
    BlacklistDuration = 3
    BlacklistThreshold = 2
    MinDataObservations = 1
    MacFailureThreshold = 0
    SelfDropsThreshold = 0
    RtsCtsDiscrepancyThresh = 1
    RateNum = 2
    RateDen = 5
    MaxSent = 2
    MaxFailures = 1
    MaxDiff = 2
    MaxChecks = 2
PROPERTIES
    WindowSpansLifetime
