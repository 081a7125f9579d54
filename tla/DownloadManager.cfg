SPECIFICATION FairSpec
CONSTANTS
    u1 = u1
    u2 = u2
    f1 = f1
    f2 = f2
    h1 = h1
    h2 = h2
    NoFile = NoFile
    Users <- TwoUsers
    Files <- TwoFiles
    Priority <- LowAndHigh
    TestSur = {}
    HubsOf <- FirstRoams
    Slots = 1
    MaxSpeed = TRUE
    Offers <- Shared
INVARIANTS
    TypeOK
    DownloadsAlive
    RunningIsReported
    IdleOrBusy
PROPERTY
    WorkTaken
