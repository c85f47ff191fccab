----------------------------- MODULE MCMultiMsg -----------------------------
(* Small instances of MultiMsg: a 4-bit u16 and 15 bytes for kMaxMsgSz.    *)
EXTENDS MultiMsg

AllUsers == {"user", "exact", "call", "reply"}
=============================================================================
