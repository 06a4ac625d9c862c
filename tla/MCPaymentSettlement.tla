------------------------- MODULE MCPaymentSettlement -------------------------
(* PaymentSettlement on small instances for TLC. *)
EXTENDS PaymentSettlement, TLC

Deliveries == Permutations(Workers)

\* One payment: two events that report it, and a failed attempt before it.
OnePayment == [kind : PaymentKinds, of : {1}]

\* One event for a payment and the two a refund of it may cause.
PaymentAndRefund == {EventOf("session_completed", 1)} \cup [kind : RefundKinds, of : RefundIds]
=============================================================================
