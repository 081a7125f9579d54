SPECIFICATION Spec
CONSTANTS
    u1 = u1
    u2 = u2
    c1 = c1
    c2 = c2
    Users <- TwoUsers
    Conns <- TwoConns
    UserOf <- OnePerUser
    Slots = 1
    ExtraSlots = 1
    Favs = {}
    KickExempt = {}
    Leavers <- OneUser
    Returners <- OneUser
    Grantees = {}
    Ops = {}
    AutoSlots = FALSE
    AutoKick = TRUE
    MaxMissed = 1
VIEW Observed
INVARIANTS
    TypeOK
    SlotAccounting
    OneSlotEach
    UploadMatchesState
    WaitingConsistent
