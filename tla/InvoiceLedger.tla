---------------------------- MODULE InvoiceLedger ----------------------------
(***************************************************************************)
(* The ledger of tuition invoices: invoices, the payments and credits      *)
(* applied to them, and the checkout sessions parents open to pay them by  *)
(* card, with the operations of packages/core/src/tuition-access.ts.       *)
(*                                                                         *)
(* Every writer of an invoice locks its row first (refreshInvoiceStatus,   *)
(* `for update`), and a provider event locks its transaction before that,  *)
(* so an operation is one atomic step.  An operation that throws is rolled *)
(* back and is no step; a request answered with the row that an earlier    *)
(* request with its idempotency key wrote is no step either.               *)
(***************************************************************************)
EXTENDS Integers, FiniteSets, Totals

CONSTANTS
    Periods,     \* the (billing account, period) pairs that are invoiced
    MaxInvoice,  \* bound: rows of school_invoices
    MaxTx,       \* bound: rows of school_payment_transactions
    MaxPayment,  \* bound: rows of school_invoice_payments
    MaxCredit,   \* bound: rows of school_invoice_credits
    MaxRefund,   \* bound: refunds made in the Stripe Dashboard
    MaxAmount,   \* bound: the largest amount, in minor units, a request names
    GrossTotals, \* the totals, in minor units, invoices are issued with
    None         \* SQL null

ASSUME InvoiceAssumption ==
    /\ MaxInvoice \in Nat /\ MaxTx \in Nat /\ MaxPayment \in Nat
    /\ MaxCredit \in Nat /\ MaxRefund \in Nat
    /\ MaxAmount \in Nat \ {0}
    /\ GrossTotals \subseteq Nat
    /\ None \notin Periods \cup Nat

VARIABLES
    invoice,      \* school_invoices, each with whether today is past its due date and grace
    payment,      \* school_invoice_payments
    credit,       \* school_invoice_credits
    tx,           \* school_payment_transactions of invoices, in order of creation
    session,      \* status of the school_payment_sessions row of a transaction
    stripeRefund  \* refunds made in the Stripe Dashboard

invoiceVars == <<invoice, payment, credit, tx, session, stripeRefund>>

InvoiceIds == 1 .. MaxInvoice
TxIds      == 1 .. MaxTx
PaymentIds == 1 .. MaxPayment
CreditIds  == 1 .. MaxCredit
RefundIds  == 1 .. MaxRefund
Amounts    == 1 .. MaxAmount

\* "none" is the status of a row that is not inserted yet.  A draft exists only
\* inside the transaction that issues the invoice.
InvoiceStatus == {"none", "issued", "partially_paid", "paid", "overdue", "void"}
Open          == {"issued", "partially_paid", "overdue"}
TxStatus      == {"none", "pending", "succeeded", "failed", "cancelled"}
SessionStatus == {"none", "open", "completed", "cancelled", "failed", "expired"}

NoInvoice == [status |-> "none", period |-> None, total |-> 0, paid |-> 0, credits |-> 0,
              outstanding |-> 0, late |-> FALSE]
NoPayment == [status |-> "none", invoice |-> None, amount |-> 0, ref |-> None,
              webhook |-> FALSE]
NoCredit  == [kind |-> "none", invoice |-> None, amount |-> 0, refund |-> None]
NoTx      == [status |-> "none", invoice |-> None, amount |-> 0]
NoRefund  == [tx |-> None, amount |-> 0]

\* `ref` is the transaction whose Stripe payment intent a card payment names as
\* its external reference, whoever booked it; `webhook` tells who did.
InvoiceTypeOK ==
    /\ invoice \in [InvoiceIds ->
         [status : InvoiceStatus, period : Periods \cup {None}, total : Nat, paid : Nat,
          credits : Nat, outstanding : Nat, late : BOOLEAN]]
    /\ payment \in [PaymentIds ->
         [status : {"none", "succeeded", "reversed"}, invoice : InvoiceIds \cup {None},
          amount : Nat, ref : TxIds \cup {None}, webhook : BOOLEAN]]
    /\ credit \in [CreditIds ->
         [kind : {"none", "note", "refund"}, invoice : InvoiceIds \cup {None}, amount : Nat,
          refund : RefundIds \cup {None}]]
    /\ tx \in [TxIds -> [status : TxStatus, invoice : InvoiceIds \cup {None}, amount : Nat]]
    /\ session \in [TxIds -> SessionStatus]
    /\ stripeRefund \in [RefundIds -> [tx : TxIds \cup {None}, amount : Nat]]

-----------------------------------------------------------------------------
(* Balances.                                                                *)

InvoiceOutstandingMinor(total, paid, credits) ==
    IF paid + credits >= total THEN 0 ELSE total - (paid + credits)

\* Mutant: lateness is looked at before the balance.
DeriveLateFirst(row, outstanding) ==
    IF row.late THEN "overdue"
    ELSE IF outstanding = 0 THEN "paid"
    ELSE IF row.paid > 0 THEN "partially_paid"
    ELSE "issued"

DeriveInvoiceStatus(row, outstanding) ==
    IF outstanding = 0 THEN "paid"
    ELSE IF row.late THEN "overdue"
    ELSE IF row.paid > 0 THEN "partially_paid"
    ELSE "issued"

\* refreshInvoiceStatus, on the row as the operation leaves it.
Refreshed(row) ==
    LET outstanding == InvoiceOutstandingMinor(row.total, row.paid, row.credits)
    IN  IF row.status = "void" THEN row
        ELSE [row EXCEPT !.outstanding = outstanding,
                         !.status = DeriveInvoiceStatus(row, outstanding)]

RefreshedInvoice(i) == [invoice EXCEPT ![i] = Refreshed(@)]

\* The next row to insert, of the rows that are not there yet.
NextRow(missing, x) == x \in missing /\ \A y \in missing : x <= y
FreshInvoice(i) == NextRow({j \in InvoiceIds : invoice[j].status = "none"}, i)
FreshPayment(p) == NextRow({q \in PaymentIds : payment[q].status = "none"}, p)
FreshCredit(d)  == NextRow({e \in CreditIds : credit[e].kind = "none"}, d)
FreshTx(t)      == NextRow({u \in TxIds : tx[u].status = "none"}, t)
FreshRefund(r)  == NextRow({q \in RefundIds : stripeRefund[q].tx = None}, r)

-----------------------------------------------------------------------------
(* Invoices.                                                                *)

PeriodFree(period) ==
    \A j \in InvoiceIds : invoice[j].period = period => invoice[j].status = "void"

\* issueTuitionInvoiceForAccount; a period whose discounts leave nothing to pay
\* is invoiced too.
IssueInvoice(i, period, total, late) ==
    /\ FreshInvoice(i)
    /\ PeriodFree(period)
    /\ invoice' = [invoice EXCEPT ![i] =
                     Refreshed([NoInvoice EXCEPT !.status = "issued", !.period = period,
                                                 !.total = total, !.late = late])]
    /\ UNCHANGED <<payment, credit, tx, session, stripeRefund>>

\* Any page that loads one invoice refreshes it.
LoadInvoice(i) ==
    /\ invoice[i].status # "none"
    /\ invoice' = RefreshedInvoice(i)
    /\ UNCHANGED <<payment, credit, tx, session, stripeRefund>>

\* Any page that lists invoices marks the late ones of the school.
SyncOverdueInvoiceStatuses ==
    /\ invoice' = [i \in InvoiceIds |->
                     IF /\ invoice[i].status \in {"issued", "partially_paid"}
                        /\ invoice[i].outstanding > 0
                        /\ invoice[i].late
                     THEN [invoice[i] EXCEPT !.status = "overdue"] ELSE invoice[i]]
    /\ UNCHANGED <<payment, credit, tx, session, stripeRefund>>

\* The due date and the days of grace pass; a longer grace in the settings of
\* the school takes it back.  Nobody asks whether a void invoice is late.
TurnCalendar(i) ==
    /\ invoice[i].status \notin {"none", "void"}
    /\ invoice' = [invoice EXCEPT ![i].late = ~@]
    /\ UNCHANGED <<payment, credit, tx, session, stripeRefund>>

\* Its open checkout session stays open.
VoidInvoice(i) ==
    /\ invoice[i].status \notin {"none", "void"}
    /\ invoice[i].paid = 0
    /\ invoice' = [invoice EXCEPT ![i].status = "void", ![i].outstanding = 0,
                                  ![i].late = FALSE]
    /\ UNCHANGED <<payment, credit, tx, session, stripeRefund>>

-----------------------------------------------------------------------------
(* Payments.                                                                *)

CanTakePayment(i, amount) ==
    /\ Refreshed(invoice[i]).status \in Open
    /\ amount <= Refreshed(invoice[i]).outstanding

BookPayment(p, i, amount, ref, webhook) ==
    /\ FreshPayment(p)
    /\ payment' = [payment EXCEPT ![p] =
                     [status |-> "succeeded", invoice |-> i, amount |-> amount, ref |-> ref,
                      webhook |-> webhook]]
    /\ invoice' = [invoice EXCEPT ![i] = Refreshed([invoice[i] EXCEPT !.paid = @ + amount])]

\* recordInvoicePayment by staff, who may give a payment intent as the external
\* reference of a card payment.
RecordInvoicePayment(i, amount, ref) ==
    /\ CanTakePayment(i, amount)
    /\ ref # None => tx[ref].status # "none"
    /\ \E p \in PaymentIds : BookPayment(p, i, amount, ref, FALSE)
    /\ UNCHANGED <<credit, tx, session, stripeRefund>>

\* Mutant: only what an event booked counts as card money, not a card payment
\* that staff have entered.
BookedByEvent(p) == payment[p].webhook

InvoicePaymentIsStripeCard(p) == payment[p].ref # None

\* greatest(paid_minor - amount, 0)
PaidLess(row, amount) == IF row.paid >= amount THEN row.paid - amount ELSE 0

ReverseInvoicePayment(p) ==
    LET i == payment[p].invoice IN
    /\ payment[p].status = "succeeded"
    /\ ~InvoicePaymentIsStripeCard(p)
    /\ payment' = [payment EXCEPT ![p].status = "reversed"]
    /\ invoice' = [invoice EXCEPT ![i] =
                     Refreshed([invoice[i] EXCEPT !.paid = PaidLess(invoice[i], payment[p].amount)])]
    /\ UNCHANGED <<credit, tx, session, stripeRefund>>

-----------------------------------------------------------------------------
(* Credits.                                                                 *)

SucceededOf(i, card) ==
    Total([p \in PaymentIds |->
             IF /\ payment[p].invoice = i
                /\ payment[p].status = "succeeded"
                /\ InvoicePaymentIsStripeCard(p) = card
             THEN payment[p].amount ELSE 0])

LocalRefundCreditMinor(i) ==
    Total([d \in CreditIds |->
             IF credit[d].invoice = i /\ credit[d].kind = "refund" /\ credit[d].refund = None
             THEN credit[d].amount ELSE 0])

\* Money paid by card goes back through Stripe only: when an invoice holds some,
\* staff may refund what came in otherwise and has not been refunded yet.
LocalRefundAllowed(i, amount) ==
    SucceededOf(i, TRUE) > 0 => amount <= SucceededOf(i, FALSE) - LocalRefundCreditMinor(i)

\* Mutant: every credit is capped like a refund.
CapOfRefund(row, kind) == row.total - row.credits

CreditCap(row, kind) == IF kind = "refund" THEN row.total - row.credits ELSE row.outstanding

ApplyCredit(i, kind, amount, refundId) ==
    /\ invoice[i].status \notin {"none", "void"}
    /\ amount <= CreditCap(Refreshed(invoice[i]), kind)
    /\ \E d \in CreditIds :
         /\ FreshCredit(d)
         /\ credit' = [credit EXCEPT ![d] =
                         [kind |-> kind, invoice |-> i, amount |-> amount, refund |-> refundId]]
    /\ invoice' = [invoice EXCEPT ![i] = Refreshed([invoice[i] EXCEPT !.credits = @ + amount])]

\* createInvoiceCredit by staff.  "note" stands for the kinds credit_note,
\* account_credit, overpayment and adjustment, which are treated alike.
CreateInvoiceCredit(i, kind, amount) ==
    /\ kind = "refund" => LocalRefundAllowed(i, amount)
    /\ ApplyCredit(i, kind, amount, None)
    /\ UNCHANGED <<payment, tx, session, stripeRefund>>

-----------------------------------------------------------------------------
(* Checkout.                                                                *)

OpenSessions(i) == {t \in TxIds : tx[t].invoice = i /\ session[t] = "open"}
LatestOpen(i)   == {t \in OpenSessions(i) : \A u \in OpenSessions(i) : u <= t}

\* failInvoiceCheckout, of the latest open session.
CheckoutClosed(i, ended) ==
    [tx      |-> [t \in TxIds |->
                    IF t \in LatestOpen(i) /\ tx[t].status = "pending"
                    THEN [tx[t] EXCEPT !.status = "failed"] ELSE tx[t]],
     session |-> [t \in TxIds |-> IF t \in LatestOpen(i) THEN ended ELSE session[t]]]

\* An open session of the same amount is used again, which is no step, unless
\* it has expired.
CreateInvoiceCheckoutSession(i, amount, ended) ==
    /\ CanTakePayment(i, amount)
    /\ ended = "failed" =>
         \A t \in LatestOpen(i) : tx[t].amount # amount \/ tx[t].status # "pending"
    /\ LatestOpen(i) = {} => ended = "failed"
    /\ \E t \in TxIds :
         /\ FreshTx(t)
         /\ tx' = [CheckoutClosed(i, ended).tx EXCEPT ![t] =
                     [status |-> "pending", invoice |-> i, amount |-> amount]]
         /\ session' = [CheckoutClosed(i, ended).session EXCEPT ![t] = "open"]
    /\ invoice' = RefreshedInvoice(i)
    /\ UNCHANGED <<payment, credit, stripeRefund>>

-----------------------------------------------------------------------------
(* Stripe's events.  A payment event names a session, a refund event the    *)
(* payment intent of a transaction that has been credited.  `res` is what   *)
(* settleInvoiceProviderEvent returns, or "error" when it throws.           *)

\* A refund of a card payment is made in the Stripe Dashboard, in parts at will.
RefundInDashboard(r, t, amount) ==
    /\ FreshRefund(r)
    /\ tx[t].status = "succeeded"
    /\ amount + Total([q \in RefundIds |-> IF stripeRefund[q].tx = t
                                           THEN stripeRefund[q].amount ELSE 0]) <= tx[t].amount
    /\ stripeRefund' = [stripeRefund EXCEPT ![r] = [tx |-> t, amount |-> amount]]
    /\ UNCHANGED <<invoice, payment, credit, tx, session>>

InvoiceEvents ==
    [tx : TxIds, outcome : {"succeeded", "failed", "cancelled", "ignored"}, differs : {FALSE}]
        \cup [tx : TxIds, outcome : {"succeeded"}, differs : {TRUE}]

\* Money that differs from the session's, in amount or currency.  The outcome
\* is not looked at.
SettleMismatch(e, res) ==
    LET failing == tx[e.tx].status = "pending" IN
    /\ e.differs
    /\ res = "manual_review"
    /\ tx' = [tx EXCEPT ![e.tx].status = IF failing THEN "failed" ELSE @]
    /\ session' = [session EXCEPT ![e.tx] = IF failing /\ @ = "open" THEN "failed" ELSE @]
    /\ UNCHANGED <<invoice, payment, credit, stripeRefund>>

SettleIgnored(e, res) ==
    /\ ~e.differs
    /\ e.outcome = "ignored"
    /\ res = "ignored"
    /\ UNCHANGED invoiceVars

SettleNotPaid(e, res) ==
    /\ ~e.differs
    /\ e.outcome \in {"failed", "cancelled"}
    /\ IF tx[e.tx].status = "pending"
       THEN /\ res = "settled"
            /\ tx' = [tx EXCEPT ![e.tx].status = e.outcome]
            /\ session' = [session EXCEPT ![e.tx] = e.outcome]
       ELSE res = "noop" /\ UNCHANGED <<tx, session>>
    /\ UNCHANGED <<invoice, payment, credit, stripeRefund>>

\* Mutant: a payment intent that is booked already is not recognised.
NeverBooked(t) == FALSE

\* The payment intent is booked already, by an earlier event or by staff.
AlreadyBooked(t) ==
    \/ \E p \in PaymentIds : payment[p].ref = t /\ payment[p].status = "succeeded"
    \/ tx[t].status = "succeeded"

SettleRepeated(e, res) ==
    /\ ~e.differs
    /\ e.outcome = "succeeded"
    /\ AlreadyBooked(e.tx)
    /\ res = "noop"
    /\ UNCHANGED invoiceVars

\* Void, settled or too little outstanding: the money is in front of staff and
\* the transaction stays as it is.
SettleRefused(e, res) ==
    LET i == tx[e.tx].invoice IN
    /\ ~e.differs
    /\ e.outcome = "succeeded"
    /\ ~AlreadyBooked(e.tx)
    /\ ~CanTakePayment(i, tx[e.tx].amount)
    /\ res = "manual_review"
    /\ invoice' = RefreshedInvoice(i)
    /\ UNCHANGED <<payment, credit, tx, session, stripeRefund>>

\* A failed or cancelled transaction is revived: Stripe has the money.
SettleCredit(e, res) ==
    LET t == e.tx IN
    /\ ~e.differs
    /\ e.outcome = "succeeded"
    /\ ~AlreadyBooked(t)
    /\ CanTakePayment(tx[t].invoice, tx[t].amount)
    /\ res = "settled"
    /\ tx' = [tx EXCEPT ![t].status = "succeeded"]
    /\ session' = [session EXCEPT ![t] = "completed"]
    /\ \E p \in PaymentIds : BookPayment(p, tx[t].invoice, tx[t].amount, t, TRUE)
    /\ UNCHANGED <<credit, stripeRefund>>

SettleInvoiceProviderEvent(e, res) ==
    /\ tx[e.tx].status # "none"
    /\ \/ SettleMismatch(e, res)
       \/ SettleIgnored(e, res)
       \/ SettleNotPaid(e, res)
       \/ SettleRepeated(e, res)
       \/ SettleRefused(e, res)
       \/ SettleCredit(e, res)

CreditedRefund(r) == \E d \in CreditIds : credit[d].refund = r

\* A refund event: a refund is credited once, whatever the number of events that
\* report it, and goes to staff when it exceeds what is left of the total.  One
\* that reports a pending or a failed refund, or names none, changes nothing.
SettleRefund(r, res) ==
    LET i    == tx[stripeRefund[r].tx].invoice
        fits == stripeRefund[r].amount <= CreditCap(Refreshed(invoice[i]), "refund")
    IN
    /\ stripeRefund[r].tx # None
    /\ res = IF CreditedRefund(r) \/ fits THEN "settled" ELSE "manual_review"
    /\ IF CreditedRefund(r) THEN UNCHANGED <<invoice, credit>>
       ELSE IF fits THEN ApplyCredit(i, "refund", stripeRefund[r].amount, r)
       ELSE invoice' = RefreshedInvoice(i) /\ UNCHANGED credit
    /\ UNCHANGED <<payment, tx, session, stripeRefund>>

-----------------------------------------------------------------------------
InvoiceInit ==
    /\ invoice = [i \in InvoiceIds |-> NoInvoice]
    /\ payment = [p \in PaymentIds |-> NoPayment]
    /\ credit  = [d \in CreditIds |-> NoCredit]
    /\ tx      = [t \in TxIds |-> NoTx]
    /\ session = [t \in TxIds |-> "none"]
    /\ stripeRefund = [r \in RefundIds |-> NoRefund]

InvoiceSchoolStep ==
    \/ \E i \in InvoiceIds, period \in Periods, total \in GrossTotals, late \in BOOLEAN :
         IssueInvoice(i, period, total, late)
    \/ \E i \in InvoiceIds : LoadInvoice(i) \/ TurnCalendar(i) \/ VoidInvoice(i)
    \/ SyncOverdueInvoiceStatuses
    \/ \E i \in InvoiceIds, amount \in Amounts, ref \in TxIds \cup {None} :
         RecordInvoicePayment(i, amount, ref)
    \/ \E p \in PaymentIds : ReverseInvoicePayment(p)
    \/ \E i \in InvoiceIds, kind \in {"note", "refund"}, amount \in Amounts :
         CreateInvoiceCredit(i, kind, amount)
    \/ \E i \in InvoiceIds, amount \in Amounts, ended \in {"failed", "expired"} :
         CreateInvoiceCheckoutSession(i, amount, ended)

InvoiceNext ==
    \/ InvoiceSchoolStep
    \/ \E r \in RefundIds, t \in TxIds, amount \in Amounts : RefundInDashboard(r, t, amount)
    \/ \E e \in InvoiceEvents, res \in {"settled", "noop", "ignored", "manual_review"} :
         SettleInvoiceProviderEvent(e, res)
    \/ \E r \in RefundIds, res \in {"settled", "manual_review"} : SettleRefund(r, res)

InvoiceSpec == InvoiceInit /\ [][InvoiceNext]_invoiceVars

-----------------------------------------------------------------------------
(* Safety.                                                                  *)

\* The totals an invoice carries, which payments, reversals, credits and
\* webhooks add to and subtract from, are the sums of its rows.
PaidInto(i) ==
    Total([p \in PaymentIds |-> IF payment[p].invoice = i /\ payment[p].status = "succeeded"
                                THEN payment[p].amount ELSE 0])
CreditsOf(i, kinds) ==
    Total([d \in CreditIds |-> IF credit[d].invoice = i /\ credit[d].kind \in kinds
                               THEN credit[d].amount ELSE 0])
InvoiceBooksAgree ==
    \A i \in InvoiceIds : /\ invoice[i].paid = PaidInto(i)
                          /\ invoice[i].credits = CreditsOf(i, {"note", "refund"})

\* Payments and credit notes together never exceed the total of an invoice, nor
\* do credits of all kinds: a parent's checkout, a late webhook and a payment
\* or a credit entered by staff are never taken for the same debt twice.
NeverOversettled ==
    \A i \in InvoiceIds : /\ invoice[i].paid + CreditsOf(i, {"note"}) <= invoice[i].total
                          /\ invoice[i].credits <= invoice[i].total

\* The outstanding amount and the status stored with an invoice, which some
\* operations recompute and others assign, agree with its totals; only whether
\* it is overdue may be out of date.
BalanceFits(row) ==
    LET owed == InvoiceOutstandingMinor(row.total, row.paid, row.credits) IN
    /\ row.status \notin {"none", "void"} => row.outstanding = owed
    /\ row.status = "paid" => owed = 0
    /\ row.status \in Open => owed > 0
    /\ row.status = "partially_paid" => row.paid > 0
    /\ row.status = "issued" => row.paid = 0
    /\ row.status = "void" => row.outstanding = 0 /\ row.paid = 0
StatusTellsTheBalance == \A i \in InvoiceIds : BalanceFits(invoice[i])

\* A period of a billing account has one invoice that is not void, although
\* periods are invoiced again after a void and late webhooks reach void ones.
OneLiveInvoicePerPeriod ==
    \A i, j \in InvoiceIds :
        /\ invoice[i].status \notin {"none", "void"}
        /\ invoice[j].status \notin {"none", "void"}
        /\ invoice[i].period = invoice[j].period
        => i = j

\* A parent is never sent to two checkouts of one invoice at a time, and what
\* an open session asks for is still to be paid by its transaction.
OneOpenCheckout ==
    \A t \in TxIds : session[t] = "open" =>
        /\ tx[t].status = "pending"
        /\ OpenSessions(tx[t].invoice) = {t}

\* A transaction has succeeded exactly when the webhook booked one payment for
\* it, of its amount and on its invoice, through repeated, reordered and late
\* events and revived failures.
BookedFor(t) == {p \in PaymentIds : payment[p].webhook /\ payment[p].ref = t}
BookedOnce ==
    \A t \in TxIds :
        /\ tx[t].status = "succeeded" <=> session[t] = "completed"
        /\ IF tx[t].status = "succeeded"
           THEN \E p \in PaymentIds :
                   /\ BookedFor(t) = {p}
                   /\ payment[p].status = "succeeded"
                   /\ payment[p].invoice = tx[t].invoice
                   /\ payment[p].amount = tx[t].amount
           ELSE BookedFor(t) = {}

\* Money paid by card leaves an invoice through Stripe only: its payment is
\* never reversed or changed here, nor is a transaction that succeeded.
CardPaymentsStand ==
    [][/\ \A p \in PaymentIds :
            payment[p].ref # None /\ payment[p].status # "none" => payment'[p] = payment[p]
       /\ \A t \in TxIds : tx[t].status = "succeeded" => tx'[t] = tx[t]]_invoiceVars

\* A refund made in Stripe can always be credited: notes and refunds by staff
\* leave room for the card money that may still go back, so that no refund
\* ends in manual review for exceeding the invoice.
StripeRefundsFit ==
    \A r \in RefundIds : stripeRefund[r].tx # None /\ ~CreditedRefund(r) =>
        LET i == tx[stripeRefund[r].tx].invoice IN
        stripeRefund[r].amount <= invoice[i].total - invoice[i].credits

\* The rows of the invoice ledger have their types, agree with one another, never
\* settle more than was asked for and leave room for what Stripe gives back.
InvoiceInv == InvoiceTypeOK /\ InvoiceBooksAgree /\ NeverOversettled /\ StripeRefundsFit

\* A family is asked for the money of a period once, by one open checkout at a
\* time, and what it pays is booked once.
AskedAndBookedOnce == OneLiveInvoicePerPeriod /\ OneOpenCheckout /\ BookedOnce

=============================================================================
