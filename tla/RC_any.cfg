SPECIFICATION FairSpec
CONSTANTS
    Marks = 4
    UserWrs = 2
    USize = 16
    SendDepth = 3
    MaxSent = 5
    NicMayFail = TRUE
INVARIANTS
    TypeOK
    PendingNeverUnder
    PendingExact
    RequestsAccountedFor
PROPERTIES
    AckedInOrder
    SignaledGetsPolled
