SPECIFICATION Spec
CONSTANTS
    u1 = u1
    u2 = u2
    c1 = c1
    c2 = c2
    Users <- OneUser
    Conns <- TwoConns
    TimeoutTicks = 1
    RetryTicks = 2
    WeAreActive = FALSE
    Passive <- OneUser
    Forceable <- OneUser
    Protocols <- Both
    Outgoing = TRUE
    Ctm2Hub = TRUE
    MayShutdown = TRUE
    MayChange = TRUE
SYMMETRY SwapConns
INVARIANTS
    TypeOK
    ActiveIffConnected
    AcceptedHungUp
