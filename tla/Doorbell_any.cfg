SPECIFICATION HelperSpec
CONSTANTS
    N = 4
    MaxReq = 9
CHECK_DEADLOCK FALSE
INVARIANTS
    PostedIsWhole
    PostedIsPrefix
    ChainInv
