SPECIFICATION FairSpec
CONSTANTS
    v = v
    x = x
    z = z
    p = p
    q = q
    c = c
    fake = fake
    m_mainAddress = v
    Fake = fake
    Neighbors <- Greens
    Nodes <- Others
    Graphs <- Networks
    Claims <- ClaimsOfX
    Denials <- DenialsOfX
    TcSources <- Sources
    VTime = 1
    MaxChanges = 2
INVARIANTS
    TypeOK
    NoVerdictLeaks
    HexagonFound
PROPERTIES
    VerdictOfRecentHellos
    Cleared
