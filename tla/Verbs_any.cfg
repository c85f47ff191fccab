SPECIFICATION FairSpec
CONSTANTS
    n = n
    m = m
    c = c
    a = a
    b = b
    Nics = {n}
    Mems = {m}
    Chans = {c}
    Objs = {a, b}
    Kinds <- Handles
INVARIANTS
    RefusedOnlyIfShared
    ObjectsIntact
    ReadIsLive
PROPERTIES
    AllFreed
