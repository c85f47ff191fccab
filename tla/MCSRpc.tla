------------------------------- MODULE MCSRpc -------------------------------
(* Small instances of SRpc.                                                *)
EXTENDS SRpc

CONSTANTS c1, c2, s1

BothIds == {"HeartBeat", "User"}
OnlyHeartBeat == {"HeartBeat"}
NoIds == {}
=============================================================================
