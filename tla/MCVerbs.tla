------------------------------ MODULE MCVerbs -------------------------------
(* Small instances of Verbs.                                               *)
EXTENDS Verbs

CONSTANTS n, m, c, a, b

Handles == {"MR", "RC", "RCM", "UD"}
OnlyDC == {"DC"}
=============================================================================
