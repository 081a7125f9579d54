SPECIFICATION Spec
CONSTANTS
    t1 = t1
    t2 = t2
    r1 = r1
    r2 = r2
    u1 = u1
    u2 = u2
    i1 = i1
    i2 = i2
    NoItem = NoItem
    NoName = NoName
    Targets <- TwoTargets
    FileName <- SameName
    Roots <- TwoRoots
    Users <- TwoUsers
    Passive = {}
    Size = 2
    Items <- TwoItems
    Wanted <- OneAtT1
    KeepFinished = FALSE
    Operations = {"remove", "removeSource", "pause", "move", "restart", "recheck"}
CHECK_DEADLOCK FALSE
SYMMETRY Swap
INVARIANTS
    TypeOK
    NothingUnlisted
    OneItemPerFile
    RunningMatches
    DoneIsOnDisk
    DroppedIsDisconnected
 
