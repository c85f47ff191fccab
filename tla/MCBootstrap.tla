---------------------------- MODULE MCBootstrap -----------------------------
(* Small instances of Bootstrap.                                           *)
EXTENDS Bootstrap

CONSTANTS c1, c2, a, ch

(* The second client only competes for the name, with a message QP.        *)
MCOps == [c \in Clients |->
             IF c = c1 THEN Procedures ELSE {"CreateRCM", "DeleteRC"}]
AllFaults == {"loss", "nic", "create", "connect", "alloc", "short", "local",
              "crash"}
=============================================================================
