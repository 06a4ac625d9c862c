--------------------------- MODULE MCInvoiceLedger ---------------------------
(* InvoiceLedger on small instances for TLC. *)
EXTENDS InvoiceLedger
=============================================================================
