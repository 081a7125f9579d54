SPECIFICATION FairSpec
CONSTANTS
    Protocols <- Both
    Numbers <- TwoNumbers
    MaxRounds = 2
INVARIANTS
    TypeOK
    RolesFit
PROPERTY
    HandshakeEnds
