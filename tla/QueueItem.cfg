SPECIFICATION FairSpec
CONSTANTS
    d1 = d1
    d2 = d2
    Size = 7
    TreeBlock = 2
    Chunks <- OneOrTwo
    Downloaders <- TwoDownloaders
INVARIANTS
    TypeOK
    NoByteTwice
    DoneIsStored
PROPERTIES
    FetchedSpec
    GetsFinished
