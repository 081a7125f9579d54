SPECIFICATION FairSpec
CONSTANTS
    u1 = u1
    u2 = u2
    c1 = c1
    c2 = c2
    Users <- OneUser
    Conns <- OneConn
    TimeoutTicks = 1
    RetryTicks = 2
    WeAreActive = FALSE
    Passive = {}
    Forceable = {}
    Protocols <- Nmdc
    Outgoing = TRUE
    Ctm2Hub = TRUE
    MayShutdown = TRUE
    MayChange = FALSE
PROPERTY
    ShutdownEnds
