------------------------------ MODULE MCWindow ------------------------------
(* Small instances of Window: a send queue of 6, so that or_max is 3.      *)
EXTENDS Window

CONSTANTS w1, w2

Cfg(p, f, b, n, t) == [program |-> p, factor |-> f, batch |-> b, qps |-> n, type |-> t]

AllConfigs ==
    {Cfg("one", 1, 1, 1, t) : t \in Types}
    \cup {Cfg("dc", 1, 1, 2, "READ")}
    \cup {Cfg("or", f, 1, 1, "READ") : f \in {1, 4, 6}}
    \cup {Cfg("db", f, 2, 1, "CAS") : f \in {4, 8}}
    \cup {Cfg("fly", f, 1, 1, "READ") : f \in {2, 7}}
=============================================================================
