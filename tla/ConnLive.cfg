SPECIFICATION FairSpec
CONSTANTS
    u1 = u1
    u2 = u2
    c1 = c1
    c2 = c2
    Users <- TwoUsers
    Conns <- OneConn
    TimeoutTicks = 2
    RetryTicks = 3
    WeAreActive = FALSE
    Passive = {}
    Forceable = {}
    Protocols <- Both
    Outgoing = FALSE
    Ctm2Hub = FALSE
    MayShutdown = FALSE
    MayChange = FALSE
PROPERTY
    AskedAgain
