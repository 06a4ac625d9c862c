-------------------------- MODULE PaymentSettlement --------------------------
(***************************************************************************)
(* The ledger of charges, the webhook deliveries that settle payments in   *)
(* it, and the payment provider that holds the money: parents pay or       *)
(* abandon the checkout sessions the ledger opened, the provider reports   *)
(* it in one or more events, and delivers each event, in any order and any *)
(* number of times, until it has had a 2xx answer.                         *)
(***************************************************************************)
EXTENDS ChargeLedger, WebhookClaims

VARIABLES
    paidAt,      \* transactions whose session was paid at the provider
    refundedAt,  \* refunds the provider has completed
    sent         \* events the provider has begun to deliver

settlementVars == <<ledgerVars, claimVars, paidAt, refundedAt, sent>>
providerVars   == <<paidAt, refundedAt, sent>>

\* The kinds of events the handler resolves to a session: two of them can
\* report the same success (checkout.session.completed, sent again under
\* another id, and checkout.session.async_payment_succeeded).  Events named
\* payment_intent.* carry the school's own id of the session, which resolves
\* to nothing: they are refused before any claim and change no state.
SuccessKinds == {"session_completed", "async_succeeded"}
PaymentKinds == SuccessKinds \cup {"session_failed"}
RefundKinds  == {"refund_succeeded", "refund_failed"}

EventOf(kind, n) == [kind |-> kind, of |-> n]
AllEventIds == [kind : PaymentKinds, of : TxIds] \cup [kind : RefundKinds, of : RefundIds]

\* The events a school's endpoint is subscribed to: for each payment at least
\* one that reports its success.
ASSUME SettlementAssumption ==
    /\ EventIds \subseteq AllEventIds
    /\ \A t \in TxIds : \E k \in SuccessKinds : EventOf(k, t) \in EventIds

\* Mutant: every payment event of the provider is read as a success.
PayloadSucceeds(e) ==
    [tx |-> e.of, kind |-> "payment", outcome |-> "succeeded", refundId |-> None,
     differs |-> "nothing"]

\* What verifyWebhook makes of an event.
Payload(e) ==
    IF e.kind \in RefundKinds
    THEN [tx |-> refund[e.of].tx, kind |-> "refund",
          outcome |-> IF e.kind = "refund_succeeded" THEN "refunded" ELSE "failed",
          refundId |-> e.of, differs |-> "nothing"]
    ELSE [tx |-> e.of, kind |-> "payment",
          outcome |-> IF e.kind \in SuccessKinds THEN "succeeded" ELSE "failed",
          refundId |-> None, differs |-> "nothing"]

SettlementInit ==
    /\ LedgerInit
    /\ ClaimsInit
    /\ paidAt = {}
    /\ refundedAt = {}
    /\ sent = {}

-----------------------------------------------------------------------------
(* The provider.                                                            *)

\* A session the ledger ever opened can be paid at the provider, whatever the
\* school has done to the charge since.
Pay(t) ==
    /\ tx[t].channel = "provider"
    /\ t \notin paidAt
    /\ paidAt' = paidAt \cup {t}
    /\ sent' = sent \cup {e \in EventIds : e.of = t /\ e.kind \in SuccessKinds}
    /\ UNCHANGED <<ledgerVars, claimVars, refundedAt>>

\* An attempt fails or the session lapses; a later attempt may still succeed.
Decline(t) ==
    /\ tx[t].channel = "provider"
    /\ t \notin paidAt
    /\ EventOf("session_failed", t) \in EventIds \ sent
    /\ sent' = sent \cup {EventOf("session_failed", t)}
    /\ UNCHANGED <<ledgerVars, claimVars, paidAt, refundedAt>>

\* The provider decides a refund it answered as pending.
DecideRefund(r) ==
    /\ refund[r].status = "pending"
    /\ \A k \in RefundKinds : EventOf(k, r) \in EventIds \ sent
    /\ \/ /\ refundedAt' = refundedAt \cup {r}
          /\ sent' = sent \cup {EventOf("refund_succeeded", r)}
       \/ /\ sent' = sent \cup {EventOf("refund_failed", r)}
          /\ UNCHANGED refundedAt
    /\ UNCHANGED <<ledgerVars, claimVars, paidAt>>

-----------------------------------------------------------------------------
(* The server.                                                              *)

School == SchoolStep /\ UNCHANGED <<claimVars, providerVars>>

Deliver(w, e) ==
    /\ e \in sent
    /\ Claim(w, e) \/ AnswerReplay(w, e)
    /\ UNCHANGED <<ledgerVars, providerVars>>

SettleEvent(w) ==
    /\ worker[w].pc = "claimed"
    /\ \E res \in Results :
         /\ SettleProviderEvent(Payload(worker[w].event), res)
         /\ Settle(w, worker[w].event, res)
    /\ UNCHANGED providerVars

CloseEvent(w) == HandlerStep(w) /\ UNCHANGED <<ledgerVars, providerVars>>

Faults == FaultStep /\ UNCHANGED <<ledgerVars, providerVars>>

Time == \E e \in EventIds : Age(e) /\ UNCHANGED <<ledgerVars, providerVars>>

SettlementNext ==
    \/ \E t \in TxIds : Pay(t) \/ Decline(t)
    \/ \E r \in RefundIds : DecideRefund(r)
    \/ School
    \/ \E w \in Workers, e \in EventIds : Deliver(w, e)
    \/ \E w \in Workers : SettleEvent(w) \/ CloseEvent(w)
    \/ Faults
    \/ Time

\* A request that has begun goes on (unless a fault ends it), time passes, and
\* the provider keeps delivering an event until it is acknowledged.  Its
\* attempts are spread over days, so they meet an idle worker and a claimable
\* or decided row again and again: strong fairness.
SettlementFairness ==
    /\ \A w \in Workers : WF_settlementVars(SettleEvent(w) \/ CloseEvent(w))
    /\ WF_settlementVars(Time)
    /\ \A e \in EventIds :
         SF_settlementVars(e \notin acked /\ \E w \in Workers : Deliver(w, e))

SettlementSpec     == SettlementInit /\ [][SettlementNext]_settlementVars
FairSettlementSpec == SettlementSpec /\ SettlementFairness

-----------------------------------------------------------------------------
\* Money is credited to a charge online only if the provider took it, and a
\* refund is booked as completed after it was pending only if the provider
\* paid it back: the webhook, however it is repeated, reordered, retried or
\* taken over by a second worker, invents no money.
LedgerFollowsProvider ==
    /\ \A t \in TxIds : Credited(tx, t) /\ tx[t].channel = "provider" => t \in paidAt
    /\ \A r \in RefundIds :
         EventOf("refund_succeeded", r) \in sent /\ refund[r].status # "pending"
            => refund[r].status = "succeeded"

\* An event whose row says it was processed has had its effect on the ledger:
\* a success is credited, a completed refund is booked.  A crash between the
\* commit of a settlement and the finish of its row, or two workers on one
\* event, leave no row that claims more than was done.
ProcessedMeansBooked ==
    \A e \in EventIds : row[e] = "processed" =>
        /\ e.kind \in SuccessKinds => Credited(tx, e.of)
        /\ e.kind = "refund_succeeded" => refund[e.of].status = "succeeded"
        /\ e.kind = "session_failed" => tx[e.of].status # "pending"

\* The provider stops delivering once it has had a 2xx answer, so an answer is
\* given for a payment only when it was credited or its event waits for staff:
\* in manual review, or failed by another delivery of it that is still to be
\* told so.
AnsweredMeansDecided ==
    \A e \in acked : e.kind \in SuccessKinds =>
        Credited(tx, e.of) \/ row[e] \in {"manual_review", "failed", "processing"}

\* As long as no statement fails, a processed event stays processed: a slow
\* delivery whose claim was taken over finishes the row again, whatever its
\* status is by then, but its settlement finds the payment decided.  Only for a
\* success, and only if money of the charge has been refunded meanwhile, does it
\* put the event in front of staff.
ProcessedStays ==
    [][\A e \in EventIds : row[e] = "processed" /\ failures' = 0 =>
          \/ row'[e] = "processed"
          \/ /\ row'[e] = "manual_review"
             /\ e.kind \in SuccessKinds
             /\ Refunded(tx, tx[e.of].charge) > 0]_settlementVars

\* A payment taken by the provider is credited in the end, or one of its
\* events is put in front of staff, although deliveries crash, statements fail
\* and claims are taken over.
PaidIsCreditedOrReviewed ==
    \A t \in TxIds :
        t \in paidAt ~> \/ Credited(tx, t)
                        \/ \E e \in EventIds : /\ e.of = t /\ e.kind \in SuccessKinds
                                              /\ row[e] = "manual_review"

\* A refund the provider completed is booked in the end.
RefundIsBooked ==
    \A r \in RefundIds : r \in refundedAt ~> refund[r].status = "succeeded"

\* Every event the provider sends is decided in the end.
SentIsDecided == \A e \in EventIds : e \in sent ~> row[e] \in Terminal

\* The row of an event claims no more than was done for it, and the provider is
\* told no more than the row says.
ClaimsTellTheTruth == ClaimsTypeOK /\ ProcessedMeansBooked /\ AnsweredMeansDecided

\* What the provider took is credited, or put in front of staff, and what it
\* paid back is booked, in the end.
MoneyArrives == PaidIsCreditedOrReviewed /\ RefundIsBooked
=============================================================================
