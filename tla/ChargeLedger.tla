---------------------------- MODULE ChargeLedger ----------------------------
(***************************************************************************)
(* The ledger of school charges: charges, payment transactions, checkout   *)
(* sessions, refunds and receipts, and the operations of                   *)
(* packages/core/src/payments-access.ts on them.                           *)
(*                                                                         *)
(* Every operation runs in one database transaction whose first statement  *)
(* locks the charge row (lockCharge, `for update`) and every writer of a   *)
(* charge's transactions, sessions, refunds and receipts takes that lock   *)
(* first, so an operation is one atomic step.  An operation that throws is *)
(* rolled back and is no step; a request answered with the row an earlier  *)
(* request with the same idempotency key wrote is no step either.          *)
(***************************************************************************)
EXTENDS Integers, FiniteSets, Totals

CONSTANTS
    Charges,    \* identities of the rows of school_charges
    MaxTx,      \* bound: rows of school_payment_transactions
    MaxRefund,  \* bound: rows of school_payment_refunds
    MaxAmount,  \* bound: the largest amount, in minor units, a request names
    Keys,       \* idempotency keys the clients send
    None        \* SQL null

ASSUME LedgerAssumption ==
    /\ MaxTx \in Nat
    /\ MaxRefund \in Nat
    /\ MaxAmount \in Nat \ {0}
    /\ None \notin Charges \cup Keys \cup Nat \cup {"provider", "offline"}

VARIABLES
    charge,     \* school_charges
    tx,         \* school_payment_transactions, in order of initiated_at
    session,    \* status of the school_payment_sessions row of a transaction
    refund,     \* school_payment_refunds, in order of created_at
    receipts    \* the transactions with a row in school_payment_receipts

ledgerVars == <<charge, tx, session, refund, receipts>>

TxIds     == 1 .. MaxTx
RefundIds == 1 .. MaxRefund
Amounts   == 1 .. MaxAmount

\* "none" is the status of a row that is not inserted yet.
ChargeStatus ==
    {"none", "draft", "issued", "partially_paid", "paid", "waived", "cancelled", "refunded"}
TxStatus ==
    {"none", "pending", "succeeded", "failed", "cancelled", "partially_refunded", "refunded"}
SessionStatus == {"none", "open", "completed", "cancelled", "failed"}
RefundStatus  == {"none", "pending", "succeeded", "failed"}

NoCharge == [status |-> "none", original |-> 0, due |-> 0]
NoTx     == [status |-> "none", charge |-> None, amount |-> 0, refunded |-> 0,
             channel |-> None, key |-> None]
NoRefund == [status |-> "none", tx |-> None, amount |-> 0, key |-> None]

ChargeRows == [status : ChargeStatus, original : Nat, due : Nat]
TxRows     == [status : TxStatus, charge : Charges \cup {None}, amount : Nat, refunded : Nat,
               channel : {"provider", "offline", None}, key : Keys \cup {None}]
RefundRows == [status : RefundStatus, tx : TxIds \cup {None}, amount : Nat,
               key : Keys \cup {None}]

TypeOK ==
    /\ charge \in [Charges -> ChargeRows]
    /\ tx \in [TxIds -> TxRows]
    /\ session \in [TxIds -> SessionStatus]
    /\ refund \in [RefundIds -> RefundRows]
    /\ receipts \subseteq TxIds

-----------------------------------------------------------------------------
(* Balances.  The table of transactions is a parameter: an operation        *)
(* refreshes the charge from the rows it has just written.                  *)

PaidStatus == {"succeeded", "partially_refunded", "refunded"}

Credited(txs, t)    == txs[t].status \in PaidStatus
PaidInto(txs, c, t) == txs[t].charge = c /\ Credited(txs, t)

PaidColumn(txs, c) ==
    [t \in TxIds |-> IF PaidInto(txs, c, t) THEN txs[t].amount ELSE 0]
RefundedColumn(txs, c) ==
    [t \in TxIds |-> IF PaidInto(txs, c, t) THEN txs[t].refunded ELSE 0]

GrossPaid(txs, c) == Total(PaidColumn(txs, c))
Refunded(txs, c)  == Total(RefundedColumn(txs, c))

NetPaid(txs, c) ==
    LET gross == GrossPaid(txs, c)
        back  == Refunded(txs, c)
    IN  IF gross >= back THEN gross - back ELSE 0

OutstandingMinor(due, net) == IF due > net THEN due - net ELSE 0

Outstanding(c) == OutstandingMinor(charge[c].due, NetPaid(tx, c))

DeriveChargeStatus(current, due, net, refunded) ==
    IF current \in {"draft", "cancelled"}          THEN current
    ELSE IF due = 0 /\ net = 0 /\ refunded = 0     THEN "waived"
    ELSE IF refunded > 0 /\ net = 0                THEN "refunded"
    ELSE IF net = 0 THEN IF current = "waived"     THEN "waived" ELSE "issued"
    ELSE IF net < due                              THEN "partially_paid"
    ELSE "paid"

\* refreshChargeStatus on the transactions the operation leaves behind.
Refreshed(c, txs) ==
    [charge EXCEPT ![c].status =
        DeriveChargeStatus(charge[c].status, charge[c].due, NetPaid(txs, c), Refunded(txs, c))]

\* Mutant: anything outstanding is payable, a draft too.
PayableIfOutstanding(c) == charge[c].status # "cancelled" /\ Outstanding(c) > 0

ChargeIsPayable(c) == charge[c].status \in {"issued", "partially_paid"} /\ Outstanding(c) > 0

\* The next row to insert, and the unique index on idempotency keys.
FreshTx(t) ==
    /\ tx[t].status = "none"
    /\ \A u \in 1 .. (t - 1) : tx[u].status # "none"
FreshRefund(r) ==
    /\ refund[r].status = "none"
    /\ \A q \in 1 .. (r - 1) : refund[q].status # "none"

\* Mutant: an idempotency key is not looked up.
AnyKey(k) == TRUE

TxKeyFree(k)     == k # None => \A t \in TxIds : tx[t].key # k
RefundKeyFree(k) == k # None => \A r \in RefundIds : refund[r].key # k

-----------------------------------------------------------------------------
(* Staff operations on a charge.                                            *)

CreateCharge(c, amount, issued) ==
    /\ charge[c].status = "none"
    /\ charge' = [charge EXCEPT ![c] =
                    [status   |-> IF issued THEN "issued" ELSE "draft",
                     original |-> amount,
                     due      |-> amount]]
    /\ UNCHANGED <<tx, session, refund, receipts>>

IssueCharge(c) ==
    /\ charge[c].status = "draft"
    /\ charge' = [charge EXCEPT ![c].status = "issued"]
    /\ UNCHANGED <<tx, session, refund, receipts>>

OpenSessionsCancelled(c) ==
    [t \in TxIds |->
        IF tx[t].charge = c /\ session[t] = "open" THEN "cancelled" ELSE session[t]]

\* Mutant: cancelling leaves the pending transactions of the charge pending.
KeepPending(c) == tx

PendingCancelled(c) ==
    [t \in TxIds |->
        IF tx[t].charge = c /\ tx[t].status = "pending"
        THEN [tx[t] EXCEPT !.status = "cancelled"] ELSE tx[t]]

\* Any charge whose net payments are nil, whatever its status; its open
\* sessions and pending transactions go with it.
CancelCharge(c) ==
    /\ charge[c].status # "none"
    /\ NetPaid(tx, c) = 0
    /\ charge' = [charge EXCEPT ![c].status = "cancelled"]
    /\ session' = OpenSessionsCancelled(c)
    /\ tx' = PendingCancelled(c)
    /\ UNCHANGED <<refund, receipts>>

ApplyChargeAdjustment(c, amount) ==
    LET net     == NetPaid(tx, c)
        nextDue == charge[c].due - amount
    IN
    /\ charge[c].status \notin {"none", "cancelled"}
    /\ amount <= charge[c].due
    /\ nextDue >= net
    /\ charge' = [charge EXCEPT
                    ![c].due = nextDue,
                    ![c].status =
                        IF nextDue = 0 /\ net = 0 THEN "waived"
                        ELSE DeriveChargeStatus(charge[c].status, nextDue, net, Refunded(tx, c))]
    /\ UNCHANGED <<tx, session, refund, receipts>>

-----------------------------------------------------------------------------
(* Taking money.                                                            *)

CreateReceipt(t) == receipts' = receipts \cup {t}

TxRow(c, amount, key, channel, status) ==
    [status |-> status, charge |-> c, amount |-> amount, refunded |-> 0,
     channel |-> channel, key |-> key]

RecordOfflinePayment(c, amount, key) ==
    /\ ChargeIsPayable(c)
    /\ amount <= Outstanding(c)
    /\ TxKeyFree(key)
    /\ \E t \in TxIds :
         /\ FreshTx(t)
         /\ tx' = [tx EXCEPT ![t] = TxRow(c, amount, key, "offline", "succeeded")]
         /\ charge' = Refreshed(c, tx')
         /\ CreateReceipt(t)
    /\ UNCHANGED <<session, refund>>

\* Pending transactions do not count against the amount outstanding: several
\* checkouts of one charge may be open at a time.
CreateCheckoutSession(c, amount, key) ==
    /\ ChargeIsPayable(c)
    /\ amount <= Outstanding(c)
    /\ TxKeyFree(key)
    /\ \E t \in TxIds :
         /\ FreshTx(t)
         /\ tx' = [tx EXCEPT ![t] = TxRow(c, amount, key, "provider", "pending")]
         /\ session' = [session EXCEPT ![t] = "open"]
    /\ UNCHANGED <<charge, refund, receipts>>

-----------------------------------------------------------------------------
(* Refunds.                                                                 *)

\* applySucceededRefund: refuses to refund more than the transaction holds.
CanApplyRefund(t, amount) == tx[t].refunded + amount <= tx[t].amount

ApplySucceededRefund(t, amount) ==
    /\ CanApplyRefund(t, amount)
    /\ tx' = [tx EXCEPT
                ![t].refunded = tx[t].refunded + amount,
                ![t].status = IF tx[t].refunded + amount = tx[t].amount
                              THEN "refunded" ELSE "partially_refunded"]
    /\ charge' = Refreshed(tx[t].charge, tx')

\* What the channel answers to a refund request.  A refund of an offline
\* payment is booked at once under an id made from the transaction alone,
\* which the unique index on provider refund ids admits once.
RefundAnswers(t) ==
    IF tx[t].channel = "provider" THEN {"pending", "succeeded", "failed"}
    ELSE IF \E r \in RefundIds : refund[r].tx = t THEN {} ELSE {"succeeded"}

\* Refunds still pending at the provider do not count against the amount
\* available.
RequestRefund(t, amount, key, answer) ==
    /\ tx[t].status \in {"succeeded", "partially_refunded"}
    /\ RefundKeyFree(key)
    /\ amount <= tx[t].amount - tx[t].refunded
    /\ answer \in RefundAnswers(t)
    /\ \E r \in RefundIds :
         /\ FreshRefund(r)
         /\ refund' = [refund EXCEPT ![r] =
                         [status |-> answer, tx |-> t, amount |-> amount, key |-> key]]
    /\ IF answer = "succeeded" THEN ApplySucceededRefund(t, amount)
                               ELSE UNCHANGED <<charge, tx>>
    /\ UNCHANGED <<session, receipts>>

-----------------------------------------------------------------------------
(* Settling a provider event.  An event names the transaction it is about,  *)
(* whether it reports on the payment or on a refund of it (isProviderRefund- *)
(* Event), the outcome, the refund's provider id if it has one, and what of *)
(* it, its amount or its currency, differs from the row it is compared with. *)
(* `res` is what settleProviderEvent returns, or "error" when it throws and *)
(* the database transaction is rolled back.                                 *)

PaymentEvents ==
    [tx : TxIds, kind : {"payment"}, outcome : {"succeeded", "failed", "cancelled", "ignored"},
     refundId : {None}, differs : {"nothing", "amount", "currency"}]
RefundEvents ==
    [tx : TxIds, kind : {"refund"}, outcome : {"refunded", "failed", "ignored"},
     refundId : RefundIds \cup {None}, differs : {"nothing", "amount", "currency"}]
Events == PaymentEvents \cup RefundEvents

Results == {"settled", "noop", "ignored", "manual_review", "error"}

Mismatch(e) == e.differs = "currency" \/ (e.differs = "amount" /\ e.kind = "payment")

\* A pending transaction fails; its session stays as it is.
SettleMismatch(e, res) ==
    /\ Mismatch(e)
    /\ res = "manual_review"
    /\ tx' = IF tx[e.tx].status = "pending"
             THEN [tx EXCEPT ![e.tx].status = "failed"] ELSE tx
    /\ UNCHANGED <<charge, session, refund, receipts>>

SettleIgnored(e, res) ==
    /\ ~Mismatch(e)
    /\ e.outcome = "ignored"
    /\ res = "ignored"
    /\ UNCHANGED ledgerVars

PendingRefunds(e) ==
    {r \in RefundIds : /\ refund[r].tx = e.tx
                       /\ refund[r].status = "pending"
                       /\ e.refundId \in {None, r}}

\* completeProviderRefund: the oldest pending refund the event can mean.  An
\* event that means none is settled and leaves no trace.
SettleRefunded(e, res) ==
    /\ ~Mismatch(e)
    /\ e.outcome = "refunded"
    /\ \/ /\ ~Credited(tx, e.tx) \/ PendingRefunds(e) = {}
          /\ res = "settled"
          /\ UNCHANGED ledgerVars
       \/ /\ Credited(tx, e.tx)
          /\ \E r \in PendingRefunds(e) :
               /\ \A q \in PendingRefunds(e) : r <= q
               /\ \/ /\ e.differs = "nothing"
                     /\ ApplySucceededRefund(e.tx, refund[r].amount)
                     /\ refund' = [refund EXCEPT ![r].status = "succeeded"]
                     /\ res = "settled"
                     /\ UNCHANGED <<session, receipts>>
                  \/ /\ e.differs = "amount" \/ ~CanApplyRefund(e.tx, refund[r].amount)
                     /\ res = "error"
                     /\ UNCHANGED ledgerVars

SettleRefundFailed(e, res) ==
    /\ ~Mismatch(e)
    /\ e.kind = "refund"
    /\ e.outcome = "failed"
    /\ res = "settled"
    /\ refund' = [r \in RefundIds |->
                    IF r \in PendingRefunds(e)
                    THEN [refund[r] EXCEPT !.status = "failed"] ELSE refund[r]]
    /\ UNCHANGED <<charge, tx, session, receipts>>

\* Mutant: a failure report is believed after a success.
NotRefunded(t) == tx[t].status \in {"pending", "succeeded"}

Unsettled(t) == tx[t].status = "pending"

SettleNotPaid(e, res) ==
    /\ ~Mismatch(e)
    /\ e.kind = "payment"
    /\ e.outcome \in {"failed", "cancelled"}
    /\ IF Unsettled(e.tx)
       THEN /\ tx' = [tx EXCEPT ![e.tx].status = e.outcome]
            /\ session' = [session EXCEPT ![e.tx] = e.outcome]
            /\ res = "settled"
       ELSE /\ res = "noop"
            /\ UNCHANGED <<tx, session>>
    /\ UNCHANGED <<charge, refund, receipts>>

\* Mutant: a success is credited beyond what is outstanding.
RefuseClosedOnly(t) ==
    IF tx[t].status \notin {"pending", "failed", "cancelled"} THEN "noop"
    ELSE IF charge[tx[t].charge].status \in {"cancelled", "waived"} THEN "manual_review"
    ELSE "none"

\* Why a success is not credited: already credited, the charge is closed, or
\* the payment exceeds what is outstanding, in the order of the code.
Refusal(t) ==
    LET c == tx[t].charge IN
    IF tx[t].status = "succeeded"                          THEN "noop"
    ELSE IF charge[c].status \in {"cancelled", "waived"}   THEN "manual_review"
    ELSE IF tx[t].amount > Outstanding(c)                  THEN "manual_review"
    ELSE IF tx[t].status \notin {"pending", "failed", "cancelled"} THEN "noop"
    ELSE "none"

SettleRefused(e, res) ==
    /\ ~Mismatch(e)
    /\ e.outcome = "succeeded"
    /\ Refusal(e.tx) # "none"
    /\ res = Refusal(e.tx)
    /\ UNCHANGED ledgerVars

\* A failed or cancelled transaction is revived: the provider has the money.
SettleCredit(e, res) ==
    /\ ~Mismatch(e)
    /\ e.outcome = "succeeded"
    /\ Refusal(e.tx) = "none"
    /\ res = "settled"
    /\ tx' = [tx EXCEPT ![e.tx].status = "succeeded"]
    /\ session' = [session EXCEPT ![e.tx] = "completed"]
    /\ charge' = Refreshed(tx[e.tx].charge, tx')
    /\ CreateReceipt(e.tx)
    /\ UNCHANGED refund

\* Only transactions of the provider channel have a session or a provider
\* payment id by which an event is resolved to them.
SettleProviderEvent(e, res) ==
    /\ tx[e.tx].channel = "provider"
    /\ \/ SettleMismatch(e, res)
       \/ SettleIgnored(e, res)
       \/ SettleRefunded(e, res)
       \/ SettleRefundFailed(e, res)
       \/ SettleNotPaid(e, res)
       \/ SettleRefused(e, res)
       \/ SettleCredit(e, res)

-----------------------------------------------------------------------------
LedgerInit ==
    /\ charge   = [c \in Charges |-> NoCharge]
    /\ tx       = [t \in TxIds |-> NoTx]
    /\ session  = [t \in TxIds |-> "none"]
    /\ refund   = [r \in RefundIds |-> NoRefund]
    /\ receipts = {}

\* Everything but the provider's events.
SchoolStep ==
    \/ \E c \in Charges, amount \in Amounts, issued \in BOOLEAN : CreateCharge(c, amount, issued)
    \/ \E c \in Charges : IssueCharge(c)
    \/ \E c \in Charges : CancelCharge(c)
    \/ \E c \in Charges, amount \in Amounts : ApplyChargeAdjustment(c, amount)
    \/ \E c \in Charges, amount \in Amounts, key \in Keys \cup {None} :
         RecordOfflinePayment(c, amount, key)
    \/ \E c \in Charges, amount \in Amounts, key \in Keys \cup {None} :
         CreateCheckoutSession(c, amount, key)
    \/ \E t \in TxIds, amount \in Amounts, key \in Keys \cup {None}, answer \in RefundStatus :
         RequestRefund(t, amount, key, answer)

LedgerNext ==
    \/ SchoolStep
    \/ \E e \in Events, res \in Results : SettleProviderEvent(e, res)

LedgerSpec == LedgerInit /\ [][LedgerNext]_ledgerVars

-----------------------------------------------------------------------------
(* Safety.                                                                  *)

\* No sequence of payments, late or repeated provider successes, adjustments
\* and refunds credits a charge with more than is due on it: the overpayment
\* checks of recordOfflinePayment and settleProviderEvent and the floor of
\* applyChargeAdjustment hold together although several checkouts of a charge
\* may be open at once.
NoOverCredit == \A c \in Charges : NetPaid(tx, c) <= charge[c].due

\* The refunded amount a transaction carries is the sum of its succeeded
\* refunds and never exceeds what was paid, although pending refunds are not
\* reserved and a provider may confirm them in any order or twice.
SucceededRefunds(t) ==
    Total([r \in RefundIds |->
             IF refund[r].tx = t /\ refund[r].status = "succeeded" THEN refund[r].amount ELSE 0])
RefundsReconcile ==
    \A t \in TxIds : /\ tx[t].refunded = SucceededRefunds(t)
                     /\ tx[t].refunded <= tx[t].amount

\* The stored status of a charge, which is refreshed by some operations and
\* assigned by others, always agrees with the money recorded for it.
StatusFits(c) ==
    LET s == charge[c].status
        due == charge[c].due
        net == NetPaid(tx, c)
        back == Refunded(tx, c)
    IN  /\ s = "paid"           <=> net > 0 /\ net = due
        /\ s = "partially_paid" <=> net > 0 /\ net < due
        /\ s = "refunded"        => net = 0 /\ back > 0 /\ due > 0
        /\ s = "issued"          => net = 0 /\ back = 0 /\ due > 0
        /\ s = "waived"          => due = 0
        /\ s \in {"none", "draft"} => \A t \in TxIds : tx[t].charge # c
StatusTellsTheMoney == \A c \in Charges : StatusFits(c)

\* A cancelled charge holds no money and leaves nothing a parent could still
\* be sent to pay: no open session, no pending transaction (cancelCharge).
CancelledChargeIsQuiet ==
    \A t \in TxIds :
        (tx[t].charge \in Charges /\ charge[tx[t].charge].status = "cancelled")
            => tx[t].status # "pending" /\ session[t] # "open" /\ NetPaid(tx, tx[t].charge) = 0

\* A transaction has a receipt exactly when it was credited, however it was
\* credited (offline, provider, a revived late success) and whatever was
\* refunded since; a completed session is one whose payment was credited.
ReceiptsAreExact ==
    /\ receipts = {t \in TxIds : Credited(tx, t)}
    /\ \A t \in TxIds : session[t] = "completed" <=> Credited(tx, t) /\ tx[t].channel = "provider"

\* A request repeated with its idempotency key is never booked twice, for
\* payments and for refunds.
KeysNameOneRow ==
    /\ \A t, u \in TxIds : tx[t].key # None /\ tx[t].key = tx[u].key => t = u
    /\ \A r, q \in RefundIds : refund[r].key # None /\ refund[r].key = refund[q].key => r = q

\* A credit is history: no later event, failure report or cancellation takes
\* a credited transaction back to an uncredited status, moves it to another
\* charge, changes its amount or lowers what was refunded of it.
CreditsAreHistory ==
    [][\A t \in TxIds : Credited(tx, t) =>
          /\ Credited(tx', t)
          /\ tx'[t].charge = tx[t].charge
          /\ tx'[t].amount = tx[t].amount
          /\ tx'[t].refunded >= tx[t].refunded]_ledgerVars

\* The net amount paid of a charge drops only by a refund of one of its
\* transactions that succeeds in that step, and by exactly its amount.
CompletedNow(c) ==
    {r \in RefundIds : /\ refund[r].status # "succeeded"
                       /\ refund'[r].status = "succeeded"
                       /\ tx[refund'[r].tx].charge = c}
MoneyLeavesByRefundOnly ==
    [][\A c \in Charges : tx' # tx /\ NetPaid(tx', c) < NetPaid(tx, c) =>
          \E r \in RefundIds : /\ CompletedNow(c) = {r}
                               /\ NetPaid(tx', c) = NetPaid(tx, c) - refund'[r].amount]_ledgerVars

\* A cancelled charge is never reopened, adjusted or credited again.
CancelledIsForever ==
    [][\A c \in Charges : charge[c].status = "cancelled" =>
          /\ charge'[c] = charge[c]
          /\ tx' = tx \/ NetPaid(tx', c) = NetPaid(tx, c)]_ledgerVars

\* What cancelCharge tells staff of a charge with money on it: "issue a refund
\* instead".  Some credited transaction of such a charge can be refunded.
PaidChargeCanBeRefunded ==
    \A c \in Charges : NetPaid(tx, c) > 0 =>
        \E t \in TxIds : /\ tx[t].charge = c
                         /\ tx[t].status \in {"succeeded", "partially_refunded"}
                         /\ RefundAnswers(t) # {}

-----------------------------------------------------------------------------
(* The inductive invariant behind NoOverCredit and RefundsReconcile.        *)

\* Rows that are not inserted are blank, and a transaction is of an inserted
\* charge.
RowsBelong ==
    /\ \A c \in Charges : charge[c].status = "none" => charge[c] = NoCharge
    /\ \A t \in TxIds :
         /\ tx[t].status = "none" => tx[t] = NoTx
         /\ tx[t].status # "none" =>
              tx[t].charge \in Charges /\ charge[tx[t].charge].status # "none"

\* Only a transaction whose status says so has been refunded, so that a
\* success, late or revived, credits its whole amount.
RefundedSaysSo ==
    \A t \in TxIds : tx[t].status \notin {"partially_refunded", "refunded"} => tx[t].refunded = 0

\* The books of the ledger: its rows, its refunds and its balances together,
\* preserved by every operation of payments-access.ts from any state in which
\* they hold.
LedgerInv == TypeOK /\ RowsBelong /\ RefundedSaysSo /\ RefundsReconcile /\ NoOverCredit

-----------------------------------------------------------------------------
(* The ledger implements the account of each charge.                        *)

AccountState(c) ==
    CASE charge[c].status = "none"      -> "absent"
      [] charge[c].status = "draft"     -> "draft"
      [] charge[c].status = "waived"    -> "waived"
      [] charge[c].status = "cancelled" -> "closed"
      [] OTHER                          -> "open"

Account == INSTANCE ChargeAccount WITH
    Accounts <- Charges,
    state    <- [c \in Charges |-> AccountState(c)],
    due      <- [c \in Charges |-> charge[c].due],
    paid     <- [c \in Charges |-> NetPaid(tx, c)]

\* Every step of the ledger is a step of the account of one charge or leaves
\* every account as it is.
ImplementsAccount == Account!Spec

\* Whatever the sequence of operations and events, the status stored with a
\* charge tells its money, and a cancelled charge is quiet.
StatusesAgree == StatusTellsTheMoney /\ CancelledChargeIsQuiet

\* A payment is booked once: one receipt for each credited transaction, one row
\* for each idempotency key.
BookedExactlyOnce == ReceiptsAreExact /\ KeysNameOneRow

\* No step rewrites what is booked: credits stay, money leaves by refunds only,
\* and a cancelled charge stays as it is.
HistoryStands == CreditsAreHistory /\ MoneyLeavesByRefundOnly /\ CancelledIsForever
=============================================================================
