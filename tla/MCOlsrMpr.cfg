SPECIFICATION FairSpec
CONSTANTS
    me = me
    a = a
    b = b
    c = c
    x = x
    y = y
    Neighbors <- Abc
    Targets <- AXY
    m_mainAddress = me
    Willingness <- Willing
CHECK_DEADLOCK FALSE
INVARIANTS
    TypeOK
    MprSetCovers
    MprsAreWilling
    SuspectsNotAlone
PROPERTIES
    Terminates
