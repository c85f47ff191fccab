SPECIFICATION Spec
CONSTANTS
    Bits = 4
    kMaxMultiMsg = 3
    MAXSZ = 15
    HeaderSz = 3
    IdSz = 1
    RpcHeaderSz = 3
    ReplyHeaderSz = 2
    MaxSz = 13
    Users <- AllUsers
CHECK_DEADLOCK FALSE
INVARIANTS
    EncodingInv
    RepliesAreWhole
    CallAbortsOnlyInGap
