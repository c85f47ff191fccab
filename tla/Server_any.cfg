SPECIFICATION FairSpec
CONSTANTS
    r1 = r1
    r2 = r2
    s1 = s1
    Ctrls = {r1, r2}
    Senders = {s1}
    MaxFd = 3
    MaxStarts = 2
    MaxSends = 2
    MaxEmpty = 1
CHECK_DEADLOCK FALSE
INVARIANTS
    SocketInv
    HandledOnce
    DaemonInv
PROPERTIES
    StopReturns
