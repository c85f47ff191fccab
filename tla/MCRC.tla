-------------------------------- MODULE MCRC --------------------------------
(* Small instances of RC: watermarks of 4 or 5 values wrap several times.  *)
EXTENDS RC
=============================================================================
