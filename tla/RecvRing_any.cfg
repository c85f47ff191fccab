SPECIFICATION FairSpec
CONSTANTS
    q1 = q1
    q2 = q2
    Qps = {q1}
    N = 4
    RecvDepths = {3, 4}
    MaxMsgs = 10
    MayBreak = TRUE
INVARIANTS
    RingInv
PROPERTIES
    DropsOnlyWhenBehind
    ReadInOrder
    AllReleased
