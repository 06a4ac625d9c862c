--------------------------- MODULE MCChargeLedger ---------------------------
(* ChargeLedger on small instances for TLC. *)
EXTENDS ChargeLedger
=============================================================================
