SPECIFICATION FairSpec
CONSTANTS
    u1 = u1
    u2 = u2
    c1 = c1
    c2 = c2
    Users <- TwoUsers
    Conns <- TwoConns
    UserOf <- OnePerUser
    Slots = 1
    ExtraSlots = 0
    Favs = {}
    KickExempt = {}
    Leavers = {}
    Returners = {}
    Grantees <- OneUser
    Ops = {}
    AutoSlots = TRUE
    AutoKick = FALSE
    MaxMissed = 0
PROPERTY
    WaitingServed
