----------------------------- MODULE MCDoorbell -----------------------------
(* Four entries and nine requests: two full batches and a third begun.     *)
EXTENDS Doorbell
=============================================================================
