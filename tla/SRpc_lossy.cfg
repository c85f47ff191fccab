SPECIFICATION FairSpec
CONSTANTS
    c1 = c1
    c2 = c2
    s1 = s1
    Clients = {c1}
    Strangers = {}
    MaxCalls = 3
    MayLose = TRUE
    LateIds <- OnlyHeartBeat
    DupIds <- OnlyHeartBeat
INVARIANTS
    CallsAreSound
PROPERTIES
    ImplementsRemoteCall
    CallsReturn
