SPECIFICATION Spec
CONSTANTS
    c1 = c1
    c2 = c2
    s1 = s1
    Clients = {c1}
    Strangers = {}
    MaxCalls = 3
    MayLose = FALSE
    LateIds <- BothIds
    DupIds <- NoIds
INVARIANTS
    ReplyAnswersCall
