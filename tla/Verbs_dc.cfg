SPECIFICATION Spec
CONSTANTS
    n = n
    m = m
    c = c
    a = a
    b = b
    Nics = {n}
    Mems = {}
    Chans = {}
    Objs = {a}
    Kinds <- OnlyDC
INVARIANTS
    DestroysAccepted
