SPECIFICATION Spec
CONSTANTS
    c1 = c1
    c2 = c2
    s1 = s1
    Clients = {c1}
    Strangers = {s1}
    MaxCalls = 3
    MayLose = FALSE
    LateIds <- BothIds
    DupIds <- BothIds
INVARIANTS
    AcceptedOnce
    HeartbeatsAreIgnored
    StaleOnlyAfterGivingUp
