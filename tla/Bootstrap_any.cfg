SPECIFICATION FairSpec
CONSTANTS
    c1 = c1
    c2 = c2
    a = a
    ch = ch
    Clients = {c1, c2}
    Names = {a}
    Channels = {ch}
    Requested = {ch}
    Ops <- MCOps
    Attrs = {"mr"}
    Rcs = 1
    MaxCreates = 2
    Faults <- AllFaults
INVARIANTS
    OwnedIsPaired
    NoOrphan
    DeleteOkMeansGone
    ServerInv
PROPERTIES
    CallsEnd
