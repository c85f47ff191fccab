----------------------------- MODULE MCRecvRing -----------------------------
(* Small instances of RecvRing.                                            *)
EXTENDS RecvRing

CONSTANTS q1, q2
=============================================================================
