------------------------------ MODULE MCServer ------------------------------
(* Two servers, one after or beside the other, and a client.               *)
EXTENDS Server

CONSTANTS r1, r2, s1
=============================================================================
