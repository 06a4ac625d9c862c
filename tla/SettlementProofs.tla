---------------------------- MODULE SettlementProofs ----------------------------
(***************************************************************************)
(* Theorems about PaymentSettlement, for every number of charges, events,  *)
(* deliveries, crashes and failures: the ledger is the one of ChargeLedger *)
(* whatever the deliveries do, they invent no money, no row and no answer  *)
(* claims more than was done, and what was processed stays so.             *)
(***************************************************************************)
EXTENDS PaymentSettlement, ChargeLedgerProofs

-----------------------------------------------------------------------------
(* The inductive invariant.                                                 *)

\* What an event that is called processed has done.
Booked(e) ==
    /\ e.kind \in SuccessKinds => Credited(tx, e.of)
    /\ e.kind = "refund_succeeded" => refund[e.of].status = "succeeded"
    /\ e.kind = "session_failed" => tx[e.of].status # "pending"

\* A refund is of a transaction that was credited.
RefundsOfCredits ==
    \A r \in RefundIds : refund[r].status # "none" =>
        refund[r].tx \in TxIds /\ Credited(tx, refund[r].tx)

\* Only a transaction of which something was refunded is called so.
RefundedCounts ==
    \A t \in TxIds : tx[t].status \in {"partially_refunded", "refunded"} => tx[t].refunded > 0

\* Each event reports what has happened at the provider to a session or a pending
\* refund of the ledger, and a refund is decided once.
SentForCause ==
    \A e \in sent :
        /\ e \in EventIds
        /\ e.kind \in PaymentKinds => tx[e.of].channel = "provider"
        /\ e.kind \in SuccessKinds => e.of \in paidAt
        /\ e.kind \in RefundKinds => refund[e.of].status # "none"
        /\ e.kind = "refund_succeeded" => EventOf("refund_failed", e.of) \notin sent

\* The payment of a success that was put in front of staff can be credited after all
\* only once money of its charge is refunded.
Postponed(e) ==
    LET c == tx[e.of].charge IN
    /\ e.kind \in SuccessKinds
    /\ \/ Refunded(tx, c) > 0
       \/ ~Credited(tx, e.of) /\ charge[c].status = "cancelled"
       \/ ~Credited(tx, e.of) /\ tx[e.of].amount + NetPaid(tx, c) > charge[c].due

\* A refund the ledger could not book without a failing statement never fits.
NeverFits(e) ==
    /\ e.kind = "refund_succeeded"
    /\ refund[e.of].status = "pending"
    /\ ~CanApplyRefund(refund[e.of].tx, refund[e.of].amount)

\* What a delivery holds in its hands is true, however long ago it read it.
WorkersTellTheTruth ==
    \A w \in Workers :
        /\ worker[w].pc # "idle" => worker[w].event \in sent /\ row[worker[w].event] # "none"
        /\ worker[w].pc = "settled" =>
             /\ worker[w].result # "ignored"
             /\ worker[w].result \in {"settled", "noop"} => Booked(worker[w].event)
             /\ worker[w].result = "manual_review" => Postponed(worker[w].event)
             /\ worker[w].result = "error" /\ failures = 0 => NeverFits(worker[w].event)

RowsTellTheTruth ==
    /\ \A e \in EventIds :
        /\ row[e] # "ignored"
        /\ row[e] # "none" => e \in sent
        /\ row[e] = "processed" => Booked(e)
    /\ \A e \in acked : row[e] # "none"

\* The books, the deliveries and the provider together.
SettlementInv ==
    /\ StatusInv
    /\ RefundsOfCredits /\ RefundedCounts
    /\ ClaimsTypeOK
    /\ SentForCause
    /\ LedgerFollowsProvider
    /\ WorkersTellTheTruth
    /\ RowsTellTheTruth

-----------------------------------------------------------------------------
(* What no step of the ledger undoes.                                       *)

\* A transaction keeps its charge and its channel and never becomes pending again,
\* and a credited one stays so.
TxGrows ==
    \A t \in TxIds :
        /\ tx[t].status # "none" => /\ tx'[t].status # "none"
                                    /\ tx'[t].charge = tx[t].charge
                                    /\ tx'[t].amount = tx[t].amount
                                    /\ tx'[t].channel = tx[t].channel
        /\ tx[t].status \notin {"none", "pending"} => tx'[t].status # "pending"
        /\ Credited(tx, t) => Credited(tx', t) /\ tx'[t].refunded >= tx[t].refunded

\* A refund keeps its transaction and its amount, and one that succeeded stays so.
RefundsGrow ==
    \A r \in RefundIds :
        /\ refund[r].status # "none" => /\ refund'[r].status # "none"
                                        /\ refund'[r].tx = refund[r].tx
                                        /\ refund'[r].amount = refund[r].amount
        /\ refund[r].status = "succeeded" => refund'[r].status = "succeeded"

\* A row changes its status only, between pending, failed and cancelled.
LEMMA UncreditedGrows ==
    ASSUME TypeOK, \A t \in TxIds : tx'[t] = tx[t] \/
             /\ tx[t].status = "pending" /\ tx'[t].status \in {"failed", "cancelled"}
             /\ tx'[t].charge = tx[t].charge /\ tx'[t].amount = tx[t].amount
             /\ tx'[t].channel = tx[t].channel
    PROVE  TxGrows
<1> SUFFICES ASSUME NEW t \in TxIds
             PROVE  /\ tx[t].status # "none" => /\ tx'[t].status # "none"
                                                /\ tx'[t].charge = tx[t].charge
                                                /\ tx'[t].amount = tx[t].amount
                                                /\ tx'[t].channel = tx[t].channel
                    /\ tx[t].status \notin {"none", "pending"} => tx'[t].status # "pending"
                    /\ Credited(tx, t) => Credited(tx', t) /\ tx'[t].refunded >= tx[t].refunded
  BY DEF TxGrows
<1>1. tx[t].refunded \in Nat
  BY DEF TypeOK, TxRows
<1> QED
  BY <1>1 DEF Credited, PaidStatus

\* A new row for a request changes no other.
LEMMA NewRowGrows ==
    ASSUME TypeOK, NEW t \in TxIds, tx[t].status = "none",
           \A u \in TxIds \ {t} : tx'[u] = tx[u]
    PROVE  TxGrows
<1>1. \A u \in TxIds : tx[u].refunded \in Nat
  BY DEF TypeOK, TxRows
<1> QED
  BY <1>1 DEF TxGrows, Credited, PaidStatus

\* What a succeeded refund does to the transactions.
LEMMA RefundedGrows ==
    ASSUME TypeOK, NEW t \in TxIds, Credited(tx, t), NEW amount \in Nat \ {0},
           ApplySucceededRefund(t, amount)
    PROVE  /\ TxGrows
           /\ \A u \in TxIds : Credited(tx', u) => Credited(tx, u)
           /\ RefundedCounts => RefundedCounts'
<1>1. /\ tx'[t].status \in {"refunded", "partially_refunded"}
      /\ tx'[t].charge = tx[t].charge /\ tx'[t].amount = tx[t].amount
      /\ tx'[t].channel = tx[t].channel /\ tx'[t].refunded = tx[t].refunded + amount
      /\ \A u \in TxIds \ {t} : tx'[u] = tx[u]
  BY DEF ApplySucceededRefund, TypeOK, TxRows
<1>2. \A u \in TxIds : tx[u].refunded \in Nat
  BY DEF TypeOK, TxRows
<1>3. TxGrows
  BY <1>1, <1>2 DEF TxGrows, Credited, PaidStatus
<1>4. \A u \in TxIds : Credited(tx', u) => Credited(tx, u)
  BY <1>1 DEF Credited
<1>5. RefundedCounts => RefundedCounts'
  BY <1>1, <1>2 DEF RefundedCounts
<1> QED
  BY <1>3, <1>4, <1>5

\* The school undoes nothing, credits payments it took itself only, and leaves the
\* refunds that are there alone.
LEMMA SchoolGrows ==
    ASSUME StatusInv, RefundsOfCredits, RefundedCounts, SchoolStep
    PROVE  /\ TxGrows /\ RefundsOfCredits' /\ RefundedCounts'
           /\ \A t \in TxIds : Credited(tx', t) /\ tx'[t].channel = "provider" => Credited(tx, t)
           /\ \A r \in RefundIds : refund[r].status # "none" => refund'[r] = refund[r]
<1> DEFINE Goal == /\ TxGrows /\ RefundsOfCredits' /\ RefundedCounts'
                   /\ \A t \in TxIds : Credited(tx', t) /\ tx'[t].channel = "provider" =>
                                         Credited(tx, t)
                   /\ \A r \in RefundIds : refund[r].status # "none" => refund'[r] = refund[r]
<1>1. TypeOK
  BY DEF StatusInv, LedgerInv
<1>2. ASSUME UNCHANGED <<tx, refund>> PROVE Goal
  <2>1. TxGrows
    BY <1>1, <1>2, UncreditedGrows
  <2> QED
    BY <1>2, <2>1 DEF RefundsOfCredits, RefundedCounts, Credited
<1>3. ASSUME NEW c \in Charges, CancelCharge(c) PROVE Goal
  <2>1. /\ refund' = refund
        /\ \A t \in TxIds : tx'[t] = tx[t] \/
             /\ tx[t].status = "pending" /\ tx'[t].status \in {"failed", "cancelled"}
             /\ tx'[t].charge = tx[t].charge /\ tx'[t].amount = tx[t].amount
             /\ tx'[t].channel = tx[t].channel
    BY <1>1, <1>3 DEF CancelCharge, PendingCancelled, TypeOK, TxRows
  <2>2. TxGrows
    BY <1>1, <2>1, UncreditedGrows
  <2>3. \A t \in TxIds : Credited(tx', t) <=> Credited(tx, t)
    BY <2>1 DEF Credited, PaidStatus
  <2>4. RefundedCounts'
    BY <2>1 DEF RefundedCounts
  <2> QED
    BY <2>1, <2>2, <2>3, <2>4 DEF RefundsOfCredits
<1>4. ASSUME NEW c \in Charges, NEW amount \in Amounts, NEW key \in Keys \cup {None},
             RecordOfflinePayment(c, amount, key)
      PROVE  Goal
  <2>1. PICK t \in TxIds :
          /\ tx[t].status = "none"
          /\ tx' = [tx EXCEPT ![t] = TxRow(c, amount, key, "offline", "succeeded")]
    BY <1>4 DEF RecordOfflinePayment, FreshTx
  <2>2. /\ tx'[t].channel = "offline" /\ tx'[t].status = "succeeded" /\ refund' = refund
        /\ \A u \in TxIds \ {t} : tx'[u] = tx[u]
    BY <1>1, <1>4, <2>1 DEF TypeOK, TxRow, RecordOfflinePayment
  <2>3. TxGrows
    BY <1>1, <2>1, <2>2, NewRowGrows
  <2>4. RefundsOfCredits' /\ RefundedCounts'
    BY <2>2, <2>3 DEF RefundsOfCredits, RefundedCounts, TxGrows
  <2> QED
    BY <2>2, <2>3, <2>4 DEF Credited
<1>5. ASSUME NEW c \in Charges, NEW amount \in Amounts, NEW key \in Keys \cup {None},
             CreateCheckoutSession(c, amount, key)
      PROVE  Goal
  <2>1. PICK t \in TxIds :
          /\ tx[t].status = "none"
          /\ tx' = [tx EXCEPT ![t] = TxRow(c, amount, key, "provider", "pending")]
    BY <1>5 DEF CreateCheckoutSession, FreshTx
  <2>2. /\ tx'[t].status = "pending" /\ refund' = refund
        /\ \A u \in TxIds \ {t} : tx'[u] = tx[u]
    BY <1>1, <1>5, <2>1 DEF TypeOK, TxRow, CreateCheckoutSession
  <2>3. TxGrows
    BY <1>1, <2>1, <2>2, NewRowGrows
  <2>4. RefundsOfCredits' /\ RefundedCounts'
    BY <2>2, <2>3 DEF RefundsOfCredits, RefundedCounts, TxGrows
  <2> QED
    BY <2>2, <2>3, <2>4 DEF Credited, PaidStatus
<1>6. ASSUME NEW t \in TxIds, NEW amount \in Amounts, NEW key \in Keys \cup {None},
             NEW answer \in RefundStatus, RequestRefund(t, amount, key, answer)
      PROVE  Goal
  <2>1. PICK r \in RefundIds :
          /\ refund[r].status = "none"
          /\ refund' = [refund EXCEPT ![r] =
                          [status |-> answer, tx |-> t, amount |-> amount, key |-> key]]
    BY <1>6 DEF RequestRefund, FreshRefund
  <2>2. refund'[r].tx = t /\ \A q \in RefundIds \ {r} : refund'[q] = refund[q]
    BY <1>1, <2>1 DEF TypeOK
  <2>3. Credited(tx, t) /\ amount \in Nat \ {0}
    BY <1>6 DEF RequestRefund, Credited, PaidStatus, Amounts
  <2>4. /\ TxGrows /\ RefundedCounts'
        /\ \A u \in TxIds : Credited(tx', u) => Credited(tx, u)
    <3>1. CASE tx' = tx
      BY <1>1, <3>1, UncreditedGrows DEF RefundedCounts, Credited
    <3>2. CASE ApplySucceededRefund(t, amount)
      BY <1>1, <2>3, <3>2, RefundedGrows
    <3> QED
      BY <1>6, <3>1, <3>2 DEF RequestRefund
  <2>5. RefundsOfCredits'
    BY <2>2, <2>3, <2>4 DEF RefundsOfCredits, TxGrows
  <2> QED
    BY <2>1, <2>2, <2>4, <2>5
<1> HIDE DEF Goal
<1>7. Goal
  BY <1>2, <1>3, <1>4, <1>5, <1>6
  DEF SchoolStep, CreateCharge, IssueCharge, ApplyChargeAdjustment
<1> QED
  BY <1>7 DEF Goal

\* An event is named by its kind and what it is of.
LEMMA EventNamed ==
    ASSUME NEW e \in EventIds
    PROVE  e = EventOf(e.kind, e.of)
  BY SettlementAssumption DEF EventOf, AllEventIds

\* The kinds of events, and what each is about.
LEMMA EventKinds ==
    ASSUME SentForCause, TypeOK, NEW e \in sent
    PROVE  /\ e \in EventIds
           /\ \/ e.kind \in SuccessKinds /\ e.of \in TxIds
              \/ e.kind = "session_failed" /\ e.of \in TxIds
              \/ e.kind = "refund_succeeded" /\ e.of \in RefundIds
              \/ e.kind = "refund_failed" /\ e.of \in RefundIds
           /\ e.kind \in PaymentKinds => e.of \in TxIds /\ tx[e.of].channel = "provider"
           /\ e.kind \in RefundKinds => e.of \in RefundIds /\ refund[e.of].status # "none"
  BY SettlementAssumption
  DEF SentForCause, AllEventIds, PaymentKinds, SuccessKinds, RefundKinds

\* What the handler reads of an event is an event of the ledger.
LEMMA PayloadIsEvent ==
    ASSUME SentForCause, TypeOK, RefundsOfCredits, NEW e \in sent
    PROVE  Payload(e) \in Events
<1>1. CASE e.kind \in RefundKinds
  <2>1. e.of \in RefundIds /\ refund[e.of].tx \in TxIds
    BY <1>1, EventKinds DEF RefundsOfCredits
  <2> QED
    BY <1>1, <2>1 DEF Payload, Events, RefundEvents
<1>2. CASE e.kind \notin RefundKinds
  <2>1. e.of \in TxIds
    BY <1>2, EventKinds DEF RefundKinds
  <2> QED
    BY <1>2, <2>1 DEF Payload, Events, PaymentEvents
<1> QED
  BY <1>1, <1>2

\* A payment the provider took is of a transaction that is there.
LEMMA PaidIsThere ==
    ASSUME StatusInv, NEW t \in TxIds, tx[t].channel = "provider"
    PROVE  tx[t].status # "none"
  BY LedgerAssumption DEF StatusInv, LedgerInv, RowsBelong, NoTx

\* Settling a success credits its payment, or finds it credited, or puts it in front
\* of staff.
LEMMA SuccessSettles ==
    ASSUME StatusInv, RefundsOfCredits, RefundedCounts, SentForCause, NEW e \in sent,
           e.kind \in SuccessKinds, NEW res \in Results, SettleProviderEvent(Payload(e), res)
    PROVE  /\ TxGrows /\ RefundedCounts' /\ refund' = refund
           /\ \A t \in TxIds \ {e.of} : tx'[t] = tx[t]
           /\ \/ res \in {"settled", "noop"} /\ Credited(tx', e.of)
              \/ res = "manual_review" /\ UNCHANGED ledgerVars /\ Postponed(e)
<1> DEFINE p == Payload(e)
           c == tx[e.of].charge
<1>1. /\ TypeOK /\ e.of \in TxIds /\ tx[e.of].channel = "provider"
      /\ p.tx = e.of /\ p.kind = "payment" /\ p.outcome = "succeeded" /\ p.differs = "nothing"
  BY EventKinds DEF StatusInv, LedgerInv, Payload, SuccessKinds, RefundKinds, PaymentKinds
<1>2. tx[e.of].status # "none"
  BY <1>1, PaidIsThere
<1>3. SettleRefused(p, res) \/ SettleCredit(p, res)
  BY <1>1 DEF SettleProviderEvent, SettleMismatch, SettleIgnored, SettleRefunded,
              SettleRefundFailed, SettleNotPaid, Mismatch
<1>4. /\ c \in Charges /\ tx[e.of].amount \in Nat /\ charge[c].due \in Nat
      /\ NetPaid(tx, c) \in Nat /\ Refunded(tx, c) \in Nat
  BY <1>1, <1>2, BalanceFits, SMTT(30) DEF StatusInv, LedgerInv, RowsBelong, TypeOK, TxRows
<1>5. CASE SettleRefused(p, res)
  <2>1. UNCHANGED ledgerVars /\ res = Refusal(e.of) /\ res # "none"
    BY <1>1, <1>5 DEF SettleRefused
  <2>2. TxGrows /\ RefundedCounts'
    BY <1>1, <2>1, UncreditedGrows DEF RefundedCounts, ledgerVars
  <2>3. ASSUME Credited(tx, e.of), tx[e.of].status # "succeeded"
        PROVE  Refunded(tx, c) > 0
    <3>1. tx[e.of].refunded \in Nat \ {0}
      BY <1>1, <2>3 DEF RefundedCounts, Credited, PaidStatus, TypeOK, TxRows
    <3>2. RefundedColumn(tx, c) \in [TxIds -> Nat] /\ Refunded(tx, c) \in Nat
      BY <1>1, BalanceType DEF TypeOK
    <3>3. RefundedColumn(tx, c)[e.of] = tx[e.of].refunded
      BY <1>1, <2>3 DEF RefundedColumn, PaidInto
    <3>4. RefundedColumn(tx, c)[e.of] <= Refunded(tx, c)
      BY <1>1, <3>2, TxIdsFinite, RowAtMostTotal DEF Refunded
    <3> QED
      BY <3>1, <3>2, <3>3, <3>4
  <2>4. CASE res = "noop"
    <3>1. tx[e.of].status \notin {"pending", "failed", "cancelled"}
      BY <2>1, <2>4 DEF Refusal
    <3>2. Credited(tx, e.of)
      BY <1>1, <1>2, <3>1 DEF Credited, PaidStatus, TypeOK, TxRows, TxStatus
    <3> QED
      BY <2>1, <2>2, <2>4, <3>2 DEF ledgerVars
  <2>5. CASE res = "manual_review"
    <3>1. /\ tx[e.of].status # "succeeded"
          /\ \/ charge[c].status \in {"cancelled", "waived"}
             \/ tx[e.of].amount > OutstandingMinor(charge[c].due, NetPaid(tx, c))
      BY <2>1, <2>5 DEF Refusal, Outstanding
    <3>2. charge[c].status = "waived" => charge[c].due = 0
      BY <1>4, BalanceFits DEF StatusFits
    <3>3. tx[e.of].amount > 0
      BY <1>1, <1>2 DEF StatusInv, AmountsArePositive
    <3>4. \/ charge[c].status = "cancelled"
          \/ tx[e.of].amount + NetPaid(tx, c) > charge[c].due
      BY <1>4, <3>1, <3>2, <3>3 DEF OutstandingMinor
    <3>5. Postponed(e)
      BY <2>3, <3>1, <3>4 DEF Postponed
    <3> QED
      BY <2>1, <2>2, <2>5, <3>5, SMTT(30) DEF ledgerVars
  <2> QED
    BY <2>1, <2>4, <2>5 DEF Refusal
<1>6. CASE SettleCredit(p, res)
  <2>1. /\ tx[e.of].status \in {"pending", "failed", "cancelled"}
        /\ tx' = [tx EXCEPT ![e.of].status = "succeeded"] /\ refund' = refund /\ res = "settled"
    BY <1>1, <1>6 DEF SettleCredit, Refusal
  <2>2. /\ tx'[e.of] = [tx[e.of] EXCEPT !.status = "succeeded"]
        /\ \A t \in TxIds \ {e.of} : tx'[t] = tx[t]
    BY <1>1, <2>1 DEF TypeOK
  <2>3. /\ tx'[e.of].status = "succeeded" /\ tx'[e.of].charge = tx[e.of].charge
        /\ tx'[e.of].amount = tx[e.of].amount /\ tx'[e.of].channel = tx[e.of].channel
        /\ \A t \in TxIds : tx[t].refunded \in Nat
    BY <1>1, <2>2 DEF TypeOK, TxRows
  <2>4. TxGrows
    BY <1>1, <2>1, <2>2, <2>3 DEF TxGrows, Credited, PaidStatus
  <2>5. Credited(tx', e.of) /\ RefundedCounts'
    BY <2>2, <2>3 DEF Credited, PaidStatus, RefundedCounts
  <2> QED
    BY <2>1, <2>2, <2>4, <2>5
<1> QED
  BY <1>3, <1>5, <1>6

\* Settling a failed payment takes it from pending, and nothing else.
LEMMA FailureSettles ==
    ASSUME StatusInv, RefundedCounts, SentForCause, NEW e \in sent,
           e.kind = "session_failed", NEW res \in Results, SettleProviderEvent(Payload(e), res)
    PROVE  /\ TxGrows /\ RefundedCounts' /\ refund' = refund
           /\ \A t \in TxIds : Credited(tx', t) <=> Credited(tx, t)
           /\ res \in {"settled", "noop"} /\ tx'[e.of].status # "pending"
<1> DEFINE p == Payload(e)
<1>1. /\ TypeOK /\ e.of \in TxIds
      /\ p.tx = e.of /\ p.kind = "payment" /\ p.outcome = "failed" /\ p.differs = "nothing"
  BY EventKinds DEF StatusInv, LedgerInv, Payload, SuccessKinds, RefundKinds, PaymentKinds
<1>2. SettleNotPaid(p, res)
  BY <1>1 DEF SettleProviderEvent, SettleMismatch, SettleIgnored, SettleRefunded,
              SettleRefundFailed, SettleRefused, SettleCredit, Mismatch
<1>3. /\ refund' = refund /\ res \in {"settled", "noop"}
      /\ \/ tx[e.of].status = "pending" /\ tx' = [tx EXCEPT ![e.of].status = "failed"]
         \/ tx[e.of].status # "pending" /\ tx' = tx
  BY <1>1, <1>2 DEF SettleNotPaid, Unsettled
<1>4. \A t \in TxIds : tx'[t] = tx[t] \/
        /\ tx[t].status = "pending" /\ tx'[t].status \in {"failed", "cancelled"}
        /\ tx'[t].charge = tx[t].charge /\ tx'[t].amount = tx[t].amount
        /\ tx'[t].channel = tx[t].channel
  BY <1>1, <1>3 DEF TypeOK, TxRows
<1>5. TxGrows
  BY <1>1, <1>4, UncreditedGrows
<1>6. RefundedCounts' /\ \A t \in TxIds : Credited(tx', t) <=> Credited(tx, t)
  BY <1>4 DEF RefundedCounts, Credited, PaidStatus
<1>7. tx'[e.of].status # "pending"
  BY <1>1, <1>3 DEF TypeOK, TxRows
<1> QED
  BY <1>3, <1>5, <1>6, <1>7

\* The refund that an event means is that of the event, and none other.
LEMMA MeantRefund ==
    ASSUME SentForCause, TypeOK, NEW e \in sent, e.kind \in RefundKinds
    PROVE  PendingRefunds(Payload(e)) = IF refund[e.of].status = "pending" THEN {e.of} ELSE {}
<1>1. e.of \in RefundIds /\ None # e.of
  BY LedgerAssumption, EventKinds DEF RefundIds
<1>2. Payload(e).refundId = e.of /\ Payload(e).tx = refund[e.of].tx
  BY DEF Payload
<1> QED
  BY <1>1, <1>2 DEF PendingRefunds

\* Settling a completed refund books it, unless it never fits.
LEMMA RefundSettles ==
    ASSUME StatusInv, RefundsOfCredits, RefundedCounts, SentForCause, LedgerFollowsProvider,
           NEW e \in sent, e.kind = "refund_succeeded",
           NEW res \in Results, SettleProviderEvent(Payload(e), res)
    PROVE  /\ TxGrows /\ RefundedCounts'
           /\ \A t \in TxIds : Credited(tx', t) => Credited(tx, t)
           /\ \/ res = "settled" /\ UNCHANGED refund /\ refund[e.of].status = "succeeded"
              \/ /\ res = "settled" /\ refund[e.of].status = "pending" /\ ~NeverFits(e)
                 /\ refund' = [refund EXCEPT ![e.of].status = "succeeded"]
              \/ res = "error" /\ UNCHANGED ledgerVars /\ NeverFits(e)
<1> DEFINE p == Payload(e)
           t == refund[e.of].tx
<1>1. /\ TypeOK /\ e.of \in RefundIds /\ refund[e.of].status # "none"
      /\ p.tx = t /\ p.kind = "refund" /\ p.outcome = "refunded" /\ p.differs = "nothing"
  BY EventKinds DEF StatusInv, LedgerInv, Payload, SuccessKinds, RefundKinds, PaymentKinds
<1>2. t \in TxIds /\ Credited(tx, t)
  BY <1>1 DEF RefundsOfCredits
<1>3. SettleRefunded(p, res)
  BY <1>1 DEF SettleProviderEvent, SettleMismatch, SettleIgnored, SettleNotPaid,
              SettleRefundFailed, SettleRefused, SettleCredit, Mismatch
<1>4. PendingRefunds(p) = IF refund[e.of].status = "pending" THEN {e.of} ELSE {}
  BY <1>1, MeantRefund DEF RefundKinds
<1>5. CASE refund[e.of].status # "pending"
  <2>1. refund[e.of].status = "succeeded"
    <3>1. e = EventOf("refund_succeeded", e.of)
      BY EventNamed DEF SentForCause
    <3> QED
      BY <1>1, <1>5, <3>1 DEF LedgerFollowsProvider
  <2>2. res = "settled" /\ UNCHANGED ledgerVars
    BY <1>1, <1>3, <1>4, <1>5 DEF SettleRefunded
  <2>3. TxGrows /\ RefundedCounts'
    BY <1>1, <2>2, UncreditedGrows DEF RefundedCounts, ledgerVars
  <2> QED
    BY <2>1, <2>2, <2>3 DEF ledgerVars, Credited
<1>6. CASE refund[e.of].status = "pending"
  <2>1. \/ /\ ApplySucceededRefund(t, refund[e.of].amount)
           /\ refund' = [refund EXCEPT ![e.of].status = "succeeded"]
           /\ res = "settled"
        \/ /\ ~CanApplyRefund(t, refund[e.of].amount)
           /\ res = "error"
           /\ UNCHANGED ledgerVars
    BY <1>1, <1>2, <1>3, <1>4, <1>6 DEF SettleRefunded
  <2>2. refund[e.of].amount \in Nat \ {0}
    BY <1>1, SMTT(30) DEF StatusInv, AmountsArePositive, TypeOK, RefundRows
  <2>3. CASE res = "settled"
    BY <1>1, <1>2, <1>6, <2>1, <2>2, <2>3, RefundedGrows DEF NeverFits, ApplySucceededRefund
  <2>4. CASE res = "error"
    <3>1. UNCHANGED ledgerVars /\ NeverFits(e)
      BY <1>6, <2>1, <2>4 DEF NeverFits
    <3>2. TxGrows /\ RefundedCounts'
      BY <1>1, <3>1, UncreditedGrows DEF RefundedCounts, ledgerVars
    <3> QED
      BY <2>4, <3>1, <3>2 DEF ledgerVars, Credited
  <2> QED
    BY <2>1, <2>3, <2>4
<1> QED
  BY <1>5, <1>6

\* Settling a failed refund fails it if it is pending.
LEMMA RefundFailureSettles ==
    ASSUME StatusInv, RefundedCounts, SentForCause, NEW e \in sent, e.kind = "refund_failed",
           NEW res \in Results, SettleProviderEvent(Payload(e), res)
    PROVE  /\ tx' = tx /\ TxGrows /\ RefundedCounts' /\ res = "settled"
           /\ \/ refund' = refund
              \/ /\ refund[e.of].status = "pending"
                 /\ refund' = [refund EXCEPT ![e.of].status = "failed"]
<1> DEFINE p == Payload(e)
<1>1. /\ TypeOK /\ e.of \in RefundIds /\ p.kind = "refund" /\ p.outcome = "failed"
      /\ p.differs = "nothing"
  BY EventKinds DEF StatusInv, LedgerInv, Payload, SuccessKinds, RefundKinds, PaymentKinds
<1>2. SettleRefundFailed(p, res)
  BY <1>1 DEF SettleProviderEvent, SettleMismatch, SettleIgnored, SettleNotPaid,
              SettleRefunded, SettleRefused, SettleCredit, Mismatch
<1>3. PendingRefunds(p) = IF refund[e.of].status = "pending" THEN {e.of} ELSE {}
  BY <1>1, MeantRefund DEF RefundKinds
<1>4. tx' = tx /\ TxGrows /\ RefundedCounts' /\ res = "settled"
  BY <1>1, <1>2, UncreditedGrows DEF SettleRefundFailed, RefundedCounts
<1>5. refund \in [RefundIds -> RefundRows]
  BY <1>1 DEF TypeOK
<1>6. refund' = [r \in RefundIds |-> IF r \in PendingRefunds(p)
                                     THEN [refund[r] EXCEPT !.status = "failed"] ELSE refund[r]]
  BY <1>2 DEF SettleRefundFailed
<1>7. CASE refund[e.of].status = "pending"
  BY <1>1, <1>3, <1>4, <1>5, <1>6, <1>7
<1>8. CASE refund[e.of].status # "pending"
  BY <1>1, <1>3, <1>4, <1>5, <1>6, <1>8
<1> QED
  BY <1>7, <1>8

\* Whatever a delivery settles: it credits and refunds only what its event reports,
\* and its result says what was done.
LEMMA EventGrows ==
    ASSUME StatusInv, RefundsOfCredits, RefundedCounts, SentForCause, LedgerFollowsProvider,
           NEW e \in sent, NEW res \in Results, SettleProviderEvent(Payload(e), res)
    PROVE  /\ TxGrows /\ RefundsOfCredits' /\ RefundedCounts'
           /\ \A t \in TxIds : Credited(tx', t) /\ ~Credited(tx, t) =>
                t = e.of /\ e.kind \in SuccessKinds
           /\ \A r \in RefundIds : refund'[r] # refund[r] =>
                /\ r = e.of /\ refund[r].status = "pending"
                /\ refund'[r].tx = refund[r].tx /\ refund'[r].amount = refund[r].amount
                /\ \/ /\ e.kind = "refund_succeeded" /\ ~NeverFits(e)
                      /\ refund'[r].status = "succeeded"
                   \/ e.kind = "refund_failed" /\ refund'[r].status = "failed"
           /\ res # "ignored"
           /\ res \in {"settled", "noop"} => Booked(e)'
           /\ res = "manual_review" => UNCHANGED ledgerVars /\ Postponed(e)
           /\ res = "error" => UNCHANGED ledgerVars /\ NeverFits(e)
<1>1. TypeOK
  BY DEF StatusInv, LedgerInv
<1>2. CASE e.kind \in SuccessKinds
  <2>1. /\ TxGrows /\ RefundedCounts' /\ refund' = refund
        /\ \A t \in TxIds \ {e.of} : tx'[t] = tx[t]
        /\ \/ res \in {"settled", "noop"} /\ Credited(tx', e.of)
           \/ res = "manual_review" /\ UNCHANGED ledgerVars /\ Postponed(e)
    BY <1>2, SuccessSettles
  <2>2. RefundsOfCredits'
    BY <2>1 DEF RefundsOfCredits, TxGrows
  <2> QED
    BY <1>2, <2>1, <2>2 DEF Booked, SuccessKinds, Credited
<1>3. CASE e.kind = "session_failed"
  <2>1. /\ TxGrows /\ RefundedCounts' /\ refund' = refund
        /\ \A t \in TxIds : Credited(tx', t) <=> Credited(tx, t)
        /\ res \in {"settled", "noop"} /\ tx'[e.of].status # "pending"
    BY <1>3, FailureSettles
  <2>2. RefundsOfCredits'
    BY <2>1 DEF RefundsOfCredits, TxGrows
  <2> QED
    BY <1>3, <2>1, <2>2 DEF Booked, SuccessKinds
<1>4. CASE e.kind = "refund_succeeded"
  <2>1. /\ TxGrows /\ RefundedCounts'
        /\ \A t \in TxIds : Credited(tx', t) => Credited(tx, t)
        /\ \/ res = "settled" /\ UNCHANGED refund /\ refund[e.of].status = "succeeded"
           \/ /\ res = "settled" /\ refund[e.of].status = "pending" /\ ~NeverFits(e)
              /\ refund' = [refund EXCEPT ![e.of].status = "succeeded"]
           \/ res = "error" /\ UNCHANGED ledgerVars /\ NeverFits(e)
    BY <1>4, RefundSettles
  <2>2. e.of \in RefundIds /\ refund \in [RefundIds -> RefundRows]
    BY <1>1, <1>4, EventKinds DEF TypeOK, RefundKinds
  <2>3. /\ \A r \in RefundIds \ {e.of} : refund'[r] = refund[r]
        /\ refund'[e.of].tx = refund[e.of].tx /\ refund'[e.of].amount = refund[e.of].amount
        /\ refund'[e.of] = refund[e.of] \/
             /\ refund[e.of].status = "pending" /\ ~NeverFits(e)
             /\ refund'[e.of].status = "succeeded"
        /\ res = "settled" => refund'[e.of].status = "succeeded"
    BY <2>1, <2>2 DEF RefundRows, ledgerVars
  <2>4. RefundsOfCredits'
    BY <2>1, <2>3 DEF RefundsOfCredits, TxGrows
  <2> QED
    BY <1>4, <2>1, <2>3, <2>4 DEF Booked, SuccessKinds
<1>5. CASE e.kind = "refund_failed"
  <2>1. /\ tx' = tx /\ TxGrows /\ RefundedCounts' /\ res = "settled"
        /\ \/ refund' = refund
           \/ /\ refund[e.of].status = "pending"
              /\ refund' = [refund EXCEPT ![e.of].status = "failed"]
    BY <1>5, RefundFailureSettles
  <2>2. e.of \in RefundIds /\ refund \in [RefundIds -> RefundRows]
    BY <1>1, <1>5, EventKinds DEF TypeOK, RefundKinds
  <2>3. /\ \A r \in RefundIds \ {e.of} : refund'[r] = refund[r]
        /\ refund'[e.of].tx = refund[e.of].tx /\ refund'[e.of].amount = refund[e.of].amount
        /\ refund'[e.of] = refund[e.of] \/
             (refund[e.of].status = "pending" /\ refund'[e.of].status = "failed")
    BY <2>1, <2>2 DEF RefundRows
  <2>4. RefundsOfCredits'
    BY <2>1, <2>3 DEF RefundsOfCredits, Credited
  <2> QED
    BY <1>5, <2>1, <2>3, <2>4 DEF Booked, SuccessKinds, Credited
<1> QED
  BY <1>1, <1>2, <1>3, <1>4, <1>5, EventKinds

-----------------------------------------------------------------------------
(* What a step of the ledger leaves true of the events.                     *)

\* A payment that was put in front of staff stays there until money of its charge
\* is refunded.
LEMMA PostponedStays ==
    ASSUME StatusInv, TypeOK', LedgerNext, TxGrows, NEW e, e.of \in TxIds,
           tx[e.of].status # "none", Postponed(e)
    PROVE  Postponed(e)'
<1> DEFINE c == tx[e.of].charge
<1>1. /\ LedgerInv /\ TypeOK /\ c \in Charges /\ charge[c].status # "none"
      /\ tx'[e.of].charge = c /\ tx'[e.of].amount = tx[e.of].amount
      /\ tx[e.of].amount \in Nat /\ tx[e.of].amount > 0
  BY DEF StatusInv, LedgerInv, RowsBelong, TxGrows, AmountsArePositive, TypeOK, TxRows
<1>2. /\ charge[c].due \in Nat /\ NetPaid(tx, c) \in Nat /\ Refunded(tx, c) \in Nat
      /\ charge'[c].due \in Nat /\ NetPaid(tx', c) \in Nat /\ Refunded(tx', c) \in Nat
  BY <1>1, BalanceType DEF TypeOK, ChargeRows
<1>3. ASSUME Refunded(tx', c) = Refunded(tx, c), NetPaid(tx', c) >= NetPaid(tx, c),
             ~Credited(tx, e.of) => ~Credited(tx', e.of), charge'[c].due <= charge[c].due,
             charge[c].status = "cancelled" => charge'[c].status = "cancelled"
      PROVE  Postponed(e)'
  BY <1>1, <1>2, <1>3 DEF Postponed
<1>4. ASSUME NEW d \in Charges,
             \/ \E amount \in Amounts, issued \in BOOLEAN : CreateCharge(d, amount, issued)
             \/ IssueCharge(d)
             \/ \E amount \in Amounts : ApplyChargeAdjustment(d, amount)
      PROVE  Postponed(e)'
  <2>1. /\ tx' = tx
        /\ charge[c].status = "cancelled" => charge'[c] = charge[c]
    BY <1>1, <1>4, ChargeAlone
  <2>2. charge'[c].due <= charge[c].due
    <3>1. ASSUME NEW amount \in Amounts, NEW issued \in BOOLEAN,
                 CreateCharge(d, amount, issued)
          PROVE  charge'[c] = charge[c]
      BY <1>1, <3>1 DEF CreateCharge, TypeOK
    <3>2. ASSUME IssueCharge(d)
          PROVE  charge'[c].due = charge[c].due
      BY <1>1, <3>2 DEF IssueCharge, TypeOK, ChargeRows
    <3>3. ASSUME NEW amount \in Amounts, ApplyChargeAdjustment(d, amount)
          PROVE  charge'[c].due = charge[c].due \/ charge'[c].due = charge[c].due - amount
      BY <1>1, <3>3 DEF ApplyChargeAdjustment, TypeOK, ChargeRows
    <3> QED
      BY <1>2, <1>4, <3>1, <3>2, <3>3 DEF Amounts
  <2> QED
    BY <1>2, <1>3, <2>1, <2>2 DEF Credited
<1>5. ASSUME MoneyRests, charge'[c].due = charge[c].due,
             charge[c].status = "cancelled" => charge'[c].status = "cancelled"
      PROVE  Postponed(e)'
  BY <1>1, <1>2, <1>3, <1>5, RestBalance DEF MoneyRests
<1>6. ASSUME NEW d \in Charges, CancelCharge(d)
      PROVE  Postponed(e)'
  <2>1. MoneyRests
    BY <1>6, CancelRests
  <2>2. /\ charge'[c].due = charge[c].due
        /\ charge[c].status = "cancelled" => charge'[c].status = "cancelled"
    BY <1>1, <1>6 DEF CancelCharge, TypeOK, ChargeRows
  <2> QED
    BY <1>5, <2>1, <2>2
<1>7. ASSUME NothingHappens
      PROVE  Postponed(e)'
  BY <1>5, <1>7 DEF NothingHappens
<1>8. ASSUME NEW d \in Charges, NEW t \in TxIds, MoneyIn(d, t)
      PROVE  Postponed(e)'
  <2>1. /\ charge'[c].due = charge[c].due
        /\ c # d => charge'[c] = charge[c]
    BY <1>1, <1>8, RefreshedRow DEF MoneyIn
  <2>2. /\ Refunded(tx', c) = Refunded(tx, c) /\ NetPaid(tx', c) >= NetPaid(tx, c)
    BY <1>1, <1>2, <1>8, InBalance
  <2>3. c = d => charge[c].status # "cancelled"
    BY <1>8 DEF MoneyIn
  <2>4. t = e.of => /\ d = c /\ tx[e.of].amount + NetPaid(tx, c) <= charge[c].due
    BY <1>1, <1>2, <1>8, InBalance DEF MoneyIn
  <2>5. CASE t = e.of
    <3>1. Refunded(tx, c) > 0
      BY <1>1, <1>2, <2>3, <2>4, <2>5 DEF Postponed
    <3> QED
      BY <1>1, <2>2, <3>1 DEF Postponed
  <2>6. CASE t # e.of
    <3>1. ~Credited(tx, e.of) => ~Credited(tx', e.of)
      BY <1>8, <2>6 DEF MoneyIn, Credited
    <3> QED
      BY <1>2, <1>3, <2>1, <2>2, <2>3, <3>1
  <2> QED
    BY <2>5, <2>6
<1>9. ASSUME NEW d \in Charges, NEW t \in TxIds, NEW r \in RefundIds, MoneyOut(d, t, r)
      PROVE  Postponed(e)'
  <2>1. /\ Refunded(tx', d) > 0 /\ charge' = Refreshed(d, tx') /\ tx'[t].charge = d
        /\ Credited(tx, t)
        /\ \A u \in TxIds \ {t} : tx'[u] = tx[u]
        /\ c # d => NetPaid(tx', c) = NetPaid(tx, c) /\ Refunded(tx', c) = Refunded(tx, c)
    BY <1>1, <1>9, OutBalance DEF MoneyOut
  <2>2. CASE c = d
    BY <1>1, <2>1, <2>2 DEF Postponed
  <2>3. CASE c # d
    <3>1. charge'[c] = charge[c] /\ t # e.of
      BY <1>1, <2>1, <2>3, RefreshedRow
    <3>2. ~Credited(tx, e.of) => ~Credited(tx', e.of)
      BY <2>1, <3>1 DEF Credited
    <3> QED
      BY <1>2, <1>3, <2>1, <2>3, <3>1, <3>2
  <2> QED
    BY <2>2, <2>3
<1> QED
  BY <1>4, <1>6, <1>7, <1>8, <1>9, StepKinds

\* What a step of the ledger may do to what the provider knows: credit what the
\* provider took, and decide a refund as the provider did.
FollowsProvider ==
    /\ TxGrows
    /\ \A t \in TxIds : Credited(tx', t) /\ tx'[t].channel = "provider" =>
         Credited(tx, t) \/ t \in paidAt
    /\ \A r \in RefundIds : refund[r].status # "none" =>
         \/ refund'[r] = refund[r]
         \/ /\ refund[r].status = "pending"
            /\ refund'[r].tx = refund[r].tx /\ refund'[r].amount = refund[r].amount
            /\ \/ /\ EventOf("refund_succeeded", r) \in sent
                  /\ ~NeverFits(EventOf("refund_succeeded", r))
                  /\ refund'[r].status = "succeeded"
               \/ EventOf("refund_failed", r) \in sent /\ refund'[r].status = "failed"

\* Then what was true of an event stays true.
LEMMA EventsStand ==
    ASSUME SettlementInv, TypeOK', LedgerNext, FollowsProvider, UNCHANGED providerVars
    PROVE  /\ SentForCause' /\ LedgerFollowsProvider'
           /\ \A e \in sent : /\ Booked(e) => Booked(e)'
                              /\ Postponed(e) => Postponed(e)'
                              /\ NeverFits(e) => NeverFits(e)'
<1>1. /\ StatusInv /\ LedgerInv /\ TypeOK /\ SentForCause /\ RefundsOfCredits
      /\ UNCHANGED <<paidAt, refundedAt, sent>>
  BY DEF SettlementInv, StatusInv, LedgerInv, providerVars
<1>2. \A t \in TxIds : tx[t].channel = "provider" =>
        /\ tx[t].status # "none" /\ tx'[t].channel = "provider" /\ tx'[t].status # "none"
        /\ tx[t].status # "pending" => tx'[t].status # "pending"
  BY <1>1, PaidIsThere DEF FollowsProvider, TxGrows
<1>3. \A r \in RefundIds : refund[r].status # "none" => refund'[r].status # "none"
  BY DEF FollowsProvider
<1>4. SentForCause'
  <2> SUFFICES ASSUME NEW e \in sent
               PROVE  /\ e \in EventIds
                      /\ e.kind \in PaymentKinds => tx'[e.of].channel = "provider"
                      /\ e.kind \in SuccessKinds => e.of \in paidAt
                      /\ e.kind \in RefundKinds => refund'[e.of].status # "none"
                      /\ e.kind = "refund_succeeded" => EventOf("refund_failed", e.of) \notin sent
    BY <1>1 DEF SentForCause
  <2>1. /\ e.kind \in PaymentKinds => e.of \in TxIds /\ tx[e.of].channel = "provider"
        /\ e.kind \in RefundKinds => e.of \in RefundIds /\ refund[e.of].status # "none"
    BY <1>1, EventKinds
  <2> QED
    BY <1>1, <1>2, <1>3, <2>1 DEF SentForCause
<1>5. LedgerFollowsProvider'
  <2>1. ASSUME NEW t \in TxIds, Credited(tx', t), tx'[t].channel = "provider"
        PROVE  t \in paidAt
    <3>1. Credited(tx, t) => tx[t].channel = "provider"
      BY <2>1 DEF FollowsProvider, TxGrows, Credited, PaidStatus
    <3> QED
      BY <2>1, <3>1 DEF FollowsProvider, SettlementInv, LedgerFollowsProvider
  <2>2. ASSUME NEW r \in RefundIds, EventOf("refund_succeeded", r) \in sent,
               refund'[r].status # "pending"
        PROVE  refund'[r].status = "succeeded"
    <3>1. EventOf("refund_failed", r) \notin sent /\ refund[r].status # "none"
      BY <1>1, <2>2 DEF SentForCause, EventOf, RefundKinds
    <3>2. refund[r].status # "pending" => refund[r].status = "succeeded"
      BY <2>2 DEF SettlementInv, LedgerFollowsProvider
    <3> QED
      BY <2>2, <3>1, <3>2 DEF FollowsProvider
  <2> QED
    BY <1>1, <2>1, <2>2 DEF LedgerFollowsProvider
<1>6. ASSUME NEW e \in sent
      PROVE  /\ Booked(e) => Booked(e)'
             /\ Postponed(e) => Postponed(e)'
             /\ NeverFits(e) => NeverFits(e)'
  <2>1. /\ e.kind \in PaymentKinds => e.of \in TxIds /\ tx[e.of].channel = "provider"
        /\ e.kind \in RefundKinds => e.of \in RefundIds /\ refund[e.of].status # "none"
        /\ e.kind \in SuccessKinds => e.kind \in PaymentKinds
        /\ e \in EventIds
    BY <1>1, EventKinds DEF PaymentKinds
  <2>2. Booked(e) => Booked(e)'
    BY <1>2, <2>1 DEF Booked, FollowsProvider, TxGrows, PaymentKinds, SuccessKinds, RefundKinds
  <2>3. Postponed(e) => Postponed(e)'
    BY <1>1, <1>2, <2>1, PostponedStays DEF Postponed, FollowsProvider
  <2>4. ASSUME NeverFits(e)
        PROVE  NeverFits(e)'
    <3>1. /\ e.of \in RefundIds /\ e = EventOf("refund_succeeded", e.of)
          /\ EventOf("refund_failed", e.of) \notin sent
      BY <1>1, <2>1, <2>4, EventNamed DEF NeverFits, RefundKinds, SentForCause
    <3>2. refund'[e.of] = refund[e.of]
      BY <2>1, <2>4, <3>1 DEF FollowsProvider, RefundKinds, NeverFits
    <3>3. refund[e.of].tx \in TxIds /\ Credited(tx, refund[e.of].tx)
      BY <1>1, <2>4, <3>1 DEF RefundsOfCredits, NeverFits
    <3>4. /\ tx'[refund[e.of].tx].amount = tx[refund[e.of].tx].amount
          /\ tx'[refund[e.of].tx].refunded >= tx[refund[e.of].tx].refunded
      BY <3>3 DEF FollowsProvider, TxGrows, Credited, PaidStatus
    <3>5. /\ refund[e.of].amount \in Nat /\ tx[refund[e.of].tx].refunded \in Nat
          /\ tx'[refund[e.of].tx].refunded \in Nat /\ tx[refund[e.of].tx].amount \in Nat
      BY <1>1, <3>1, <3>3 DEF TypeOK, TxRows, RefundRows
    <3> QED
      BY <2>4, <3>2, <3>4, <3>5 DEF NeverFits, CanApplyRefund
  <2> QED
    BY <2>2, <2>3, <2>4
<1> QED
  BY <1>4, <1>5, <1>6

-----------------------------------------------------------------------------
(* The inductive step.                                                      *)

\* Every step is one of the ledger, or leaves it alone.
LEMMA LedgerStep ==
    ASSUME SettlementInv, [SettlementNext]_settlementVars
    PROVE  [LedgerNext]_ledgerVars
<1>1. ASSUME NEW w \in Workers, SettleEvent(w)
      PROVE  LedgerNext
  <2>1. worker[w].event \in sent /\ SentForCause /\ TypeOK /\ RefundsOfCredits
    BY <1>1 DEF SettleEvent, SettlementInv, WorkersTellTheTruth, StatusInv, LedgerInv
  <2>2. Payload(worker[w].event) \in Events
    BY <2>1, PayloadIsEvent
  <2> QED
    BY <1>1, <2>2 DEF SettleEvent, LedgerNext
<1>2. ASSUME School
      PROVE  LedgerNext
  BY <1>2 DEF School, LedgerNext
<1> QED
  BY <1>1, <1>2
  DEF SettlementNext, Pay, Decline, DecideRefund, Deliver, CloseEvent, Faults, Time, settlementVars

\* The deliveries keep their types.
LEMMA ClaimsStep ==
    ASSUME ClaimsTypeOK, [SettlementNext]_settlementVars
    PROVE  ClaimsTypeOK'
<1> USE DEF ClaimsTypeOK
<1>1. ASSUME UNCHANGED claimVars
      PROVE  ClaimsTypeOK'
  BY <1>1 DEF claimVars
<1>2. ASSUME NEW w \in Workers, NEW e \in EventIds, Claim(w, e) \/ AnswerReplay(w, e)
      PROVE  ClaimsTypeOK'
  BY <1>2 DEF Claim, AnswerReplay, RowStatus
<1>3. ASSUME NEW w \in Workers, worker[w].pc # "idle"
      PROVE  /\ worker[w].event \in EventIds
             /\ worker[w].pc \in {"claimed", "settled", "finished"}
             /\ worker[w].pc = "settled" => worker[w].result \in SettleResults
             /\ worker[w].pc = "claimed" => worker[w] = Claimed(worker[w].event)
  BY <1>3 DEF Idle, Claimed, Settled, Finished
<1>4. ASSUME NEW w \in Workers, SettleEvent(w)
      PROVE  ClaimsTypeOK'
  <2>1. worker[w].event \in EventIds /\ Results \subseteq SettleResults
    BY <1>3, <1>4 DEF SettleEvent, Results, SettleResults
  <2> QED
    BY <1>4, <2>1 DEF SettleEvent, Settle
<1>5. ASSUME NEW w \in Workers, CloseEvent(w)
      PROVE  ClaimsTypeOK'
  <2>1. worker[w].event \in EventIds
    BY <1>3, <1>5 DEF CloseEvent, HandlerStep, Finish, Answer
  <2>2. \A res : FinishStatus(res) \in RowStatus
    BY DEF FinishStatus, RowStatus, Terminal
  <2> QED
    BY <1>5, <2>1, <2>2 DEF CloseEvent, HandlerStep, Finish, Answer
<1>6. ASSUME Faults
      PROVE  ClaimsTypeOK'
  <2>1. ASSUME NEW w \in Workers, Crash(w)
        PROVE  ClaimsTypeOK'
    BY <2>1, ClaimsAssumption DEF Crash
  <2>2. ASSUME NEW w \in Workers, FinishFails(w)
        PROVE  ClaimsTypeOK'
    <3>1. worker[w].event \in EventIds
      BY <1>3, <2>2 DEF FinishFails
    <3> QED
      BY <2>2, <3>1, ClaimsAssumption DEF FinishFails, StatementFails, RowStatus
  <2>3. ASSUME NEW w \in Workers, NEW e \in EventIds, SettleFails(w, e)
        PROVE  ClaimsTypeOK'
    BY <2>3, ClaimsAssumption DEF SettleFails, StatementFails, SettleResults
  <2> QED
    BY <1>6, <2>1, <2>2, <2>3 DEF Faults, FaultStep
<1>7. ASSUME Time
      PROVE  ClaimsTypeOK'
  BY <1>7 DEF Time, Age
<1> QED
  BY <1>1, <1>2, <1>4, <1>5, <1>6, <1>7
  DEF SettlementNext, Pay, Decline, DecideRefund, School, Deliver, settlementVars

\* The school and the settlements follow the provider.
LEMMA BooksFollow ==
    ASSUME SettlementInv, School \/ \E w \in Workers : SettleEvent(w)
    PROVE  LedgerNext /\ FollowsProvider /\ RefundsOfCredits' /\ RefundedCounts'
<1>1. /\ StatusInv /\ RefundsOfCredits /\ RefundedCounts /\ SentForCause
      /\ LedgerFollowsProvider /\ TypeOK
  BY DEF SettlementInv, StatusInv, LedgerInv
<1>2. CASE School
  <2>1. SchoolStep
    BY <1>2 DEF School
  <2>2. /\ TxGrows /\ RefundsOfCredits' /\ RefundedCounts'
        /\ \A t \in TxIds : Credited(tx', t) /\ tx'[t].channel = "provider" => Credited(tx, t)
        /\ \A r \in RefundIds : refund[r].status # "none" => refund'[r] = refund[r]
    BY <1>1, <2>1, SchoolGrows
  <2> QED
    BY <2>1, <2>2 DEF LedgerNext, FollowsProvider
<1>3. ASSUME NEW w \in Workers, SettleEvent(w)
      PROVE  LedgerNext /\ FollowsProvider /\ RefundsOfCredits' /\ RefundedCounts'
  <2> DEFINE e == worker[w].event
  <2>1. e \in sent /\ e \in EventIds
    BY <1>1, <1>3 DEF SettleEvent, SettlementInv, WorkersTellTheTruth, SentForCause
  <2>2. PICK res \in Results : SettleProviderEvent(Payload(e), res)
    BY <1>3 DEF SettleEvent
  <2>3. LedgerNext
    BY <1>1, <2>1, <2>2, PayloadIsEvent DEF LedgerNext
  <2> HIDE DEF e
  <2>4. /\ TxGrows /\ RefundsOfCredits' /\ RefundedCounts'
        /\ \A t \in TxIds : Credited(tx', t) /\ ~Credited(tx, t) =>
             t = e.of /\ e.kind \in SuccessKinds
        /\ \A r \in RefundIds : refund'[r] # refund[r] =>
             /\ r = e.of /\ refund[r].status = "pending"
             /\ refund'[r].tx = refund[r].tx /\ refund'[r].amount = refund[r].amount
             /\ \/ /\ e.kind = "refund_succeeded" /\ ~NeverFits(e)
                   /\ refund'[r].status = "succeeded"
                \/ e.kind = "refund_failed" /\ refund'[r].status = "failed"
    BY <1>1, <2>1, <2>2, EventGrows
  <2>5. /\ e = EventOf(e.kind, e.of)
        /\ e.kind \in SuccessKinds => e.of \in paidAt
    BY <1>1, <2>1, EventNamed DEF SentForCause
  <2>6. ASSUME NEW r \in RefundIds, refund'[r] # refund[r]
        PROVE  /\ refund[r].status = "pending"
               /\ refund'[r].tx = refund[r].tx /\ refund'[r].amount = refund[r].amount
               /\ \/ /\ EventOf("refund_succeeded", r) \in sent
                     /\ ~NeverFits(EventOf("refund_succeeded", r))
                     /\ refund'[r].status = "succeeded"
                  \/ EventOf("refund_failed", r) \in sent /\ refund'[r].status = "failed"
    <3>1. r = e.of
      BY <2>4, <2>6
    <3>2. e.kind = "refund_succeeded" => e = EventOf("refund_succeeded", r)
      BY <2>5, <3>1
    <3>3. e.kind = "refund_failed" => e = EventOf("refund_failed", r)
      BY <2>5, <3>1
    <3> QED
      BY <2>1, <2>4, <2>6, <3>2, <3>3
  <2>7. FollowsProvider
    BY <2>4, <2>5, <2>6 DEF FollowsProvider
  <2> QED
    BY <2>3, <2>4, <2>7
<1> QED
  BY <1>2, <1>3

\* What a step leaves true of the events, of those already sent and of those it sends.
EventsKept ==
    /\ RefundsOfCredits' /\ RefundedCounts' /\ SentForCause' /\ LedgerFollowsProvider'
    /\ sent \subseteq sent'
    /\ \A e \in sent : /\ Booked(e) => Booked(e)'
                       /\ Postponed(e) => Postponed(e)'
                       /\ NeverFits(e) => NeverFits(e)'

\* Every step keeps what is true of the events.
LEMMA EventsStep ==
    ASSUME SettlementInv, TypeOK', [SettlementNext]_settlementVars
    PROVE  EventsKept
<1>1. /\ StatusInv /\ RefundsOfCredits /\ RefundedCounts /\ SentForCause
      /\ LedgerFollowsProvider /\ TypeOK
  BY DEF SettlementInv, StatusInv, LedgerInv
<1>2. ASSUME School \/ \E w \in Workers : SettleEvent(w)
      PROVE  EventsKept
  <2>1. LedgerNext /\ FollowsProvider /\ RefundsOfCredits' /\ RefundedCounts'
    BY <1>2, BooksFollow
  <2>2. UNCHANGED providerVars
    BY <1>2 DEF School, SettleEvent
  <2>3. /\ SentForCause' /\ LedgerFollowsProvider'
        /\ \A e \in sent : /\ Booked(e) => Booked(e)'
                           /\ Postponed(e) => Postponed(e)'
                           /\ NeverFits(e) => NeverFits(e)'
    BY <2>1, <2>2, EventsStand
  <2> QED
    BY <2>1, <2>2, <2>3 DEF EventsKept, providerVars
<1>3. ASSUME UNCHANGED ledgerVars, paidAt \subseteq paidAt', sent \subseteq sent',
             SentForCause', LedgerFollowsProvider'
      PROVE  EventsKept
  BY <1>1, <1>3 DEF EventsKept, ledgerVars, RefundsOfCredits, RefundedCounts, Credited,
                    Booked, Postponed, NeverFits, CanApplyRefund
<1>4. ASSUME UNCHANGED ledgerVars, UNCHANGED providerVars
      PROVE  EventsKept
  <2>1. SentForCause' /\ LedgerFollowsProvider'
    BY <1>1, <1>4 DEF SentForCause, LedgerFollowsProvider, ledgerVars, providerVars, Credited
  <2> QED
    BY <1>3, <1>4, <2>1 DEF providerVars
<1>5. ASSUME NEW t \in TxIds, Pay(t)
      PROVE  EventsKept
  <2>1. /\ UNCHANGED ledgerVars /\ paidAt' = paidAt \cup {t} /\ tx[t].channel = "provider"
        /\ sent' = sent \cup {e \in EventIds : e.of = t /\ e.kind \in SuccessKinds}
    BY <1>5 DEF Pay
  <2>2. \A e \in sent' \ sent : e \in EventIds /\ e.of = t /\ e.kind \in SuccessKinds
    BY <2>1
  <2>3. \A r : EventOf("refund_failed", r) \in sent' => EventOf("refund_failed", r) \in sent
    BY <2>2 DEF EventOf, SuccessKinds
  <2>4. \A r : EventOf("refund_succeeded", r) \in sent' => EventOf("refund_succeeded", r) \in sent
    BY <2>2 DEF EventOf, SuccessKinds
  <2>5. SentForCause'
    BY <1>1, <2>1, <2>2, <2>3
    DEF SentForCause, ledgerVars, PaymentKinds, SuccessKinds, RefundKinds
  <2>6. LedgerFollowsProvider'
    BY <1>1, <2>1, <2>4 DEF LedgerFollowsProvider, ledgerVars, Credited
  <2> QED
    BY <1>3, <2>1, <2>5, <2>6
<1>6. ASSUME NEW t \in TxIds, Decline(t)
      PROVE  EventsKept
  <2>1. /\ UNCHANGED ledgerVars /\ paidAt' = paidAt /\ tx[t].channel = "provider"
        /\ sent' = sent \cup {EventOf("session_failed", t)}
        /\ EventOf("session_failed", t) \in EventIds
    BY <1>6 DEF Decline
  <2>2. \A r : /\ EventOf("refund_failed", r) \in sent' => EventOf("refund_failed", r) \in sent
               /\ EventOf("refund_succeeded", r) \in sent' => EventOf("refund_succeeded", r) \in sent
    BY <2>1 DEF EventOf
  <2>3. SentForCause'
    <3>1. \A e \in sent' \ sent : /\ e \in EventIds /\ e.of = t /\ e.kind = "session_failed"
      BY <2>1 DEF EventOf
    <3> QED
      BY <1>1, <2>1, <2>2, <3>1
      DEF SentForCause, ledgerVars, PaymentKinds, SuccessKinds, RefundKinds
  <2>4. LedgerFollowsProvider'
    BY <1>1, <2>1, <2>2 DEF LedgerFollowsProvider, ledgerVars, Credited
  <2> QED
    BY <1>3, <2>1, <2>3, <2>4
<1>7. ASSUME NEW r \in RefundIds, DecideRefund(r)
      PROVE  EventsKept
  <2>1. /\ UNCHANGED ledgerVars /\ paidAt' = paidAt /\ refund[r].status = "pending"
        /\ EventOf("refund_succeeded", r) \in EventIds \ sent
        /\ EventOf("refund_failed", r) \in EventIds \ sent
        /\ \/ sent' = sent \cup {EventOf("refund_succeeded", r)}
           \/ sent' = sent \cup {EventOf("refund_failed", r)}
    BY <1>7 DEF DecideRefund, RefundKinds
  <2>2. ASSUME NEW e \in sent'
        PROVE  /\ e \in EventIds
               /\ e.kind \in PaymentKinds => tx[e.of].channel = "provider"
               /\ e.kind \in SuccessKinds => e.of \in paidAt
               /\ e.kind \in RefundKinds => refund[e.of].status # "none"
    <3>1. e \notin sent =>
            e \in EventIds /\ e.of = r /\ e.kind \in {"refund_succeeded", "refund_failed"}
      BY <2>1, <2>2 DEF EventOf
    <3> QED
      BY <1>1, <2>1, <3>1 DEF SentForCause, PaymentKinds, SuccessKinds, RefundKinds
  <2>3. ASSUME NEW e \in sent', e.kind = "refund_succeeded"
        PROVE  EventOf("refund_failed", e.of) \notin sent'
    <3>1. e = EventOf("refund_succeeded", e.of)
      BY <2>2, <2>3, EventNamed
    <3>2. e.of # r => e \in sent
      BY <2>1, <3>1 DEF EventOf
    <3>3. e.of # r => EventOf("refund_failed", e.of) \notin sent'
      BY <1>1, <2>1, <2>3, <3>2 DEF SentForCause, EventOf
    <3>4. e.of = r => EventOf("refund_failed", e.of) \notin sent'
      BY <2>1, <3>1 DEF EventOf
    <3> QED
      BY <3>3, <3>4
  <2>4. SentForCause'
    BY <2>1, <2>2, <2>3 DEF SentForCause, ledgerVars
  <2>5. LedgerFollowsProvider'
    BY <1>1, <2>1 DEF LedgerFollowsProvider, ledgerVars, Credited, EventOf
  <2> QED
    BY <1>3, <2>1, <2>4, <2>5
<1> QED
  BY <1>2, <1>4, <1>5, <1>6, <1>7
  DEF SettlementNext, Deliver, CloseEvent, Faults, Time, settlementVars, providerVars

\* A delivery that was working goes on, ends, or is the one that takes this step.
LEMMA WorkersStep ==
    ASSUME SettlementInv, TypeOK', [SettlementNext]_settlementVars
    PROVE  WorkersTellTheTruth' /\ RowsTellTheTruth'
<1> DEFINE Goal == WorkersTellTheTruth' /\ RowsTellTheTruth'
           TrueOf(w) ==
             /\ worker[w].pc # "idle" => worker[w].event \in sent /\ row[worker[w].event] # "none"
             /\ worker[w].pc = "settled" =>
                  /\ worker[w].result # "ignored"
                  /\ worker[w].result \in {"settled", "noop"} => Booked(worker[w].event)
                  /\ worker[w].result = "manual_review" => Postponed(worker[w].event)
                  /\ worker[w].result = "error" /\ failures = 0 => NeverFits(worker[w].event)
<1>1. /\ StatusInv /\ RefundsOfCredits /\ RefundedCounts /\ SentForCause /\ TypeOK
      /\ LedgerFollowsProvider /\ ClaimsTypeOK /\ ClaimsTypeOK'
      /\ WorkersTellTheTruth /\ RowsTellTheTruth
  BY ClaimsStep DEF SettlementInv, StatusInv, LedgerInv
<1>2. EventsKept
  BY EventsStep
<1>3. \A w \in Workers : worker[w].pc # "idle" =>
        /\ worker[w].event \in sent /\ worker[w].event \in EventIds
        /\ row[worker[w].event] # "none"
  BY <1>1 DEF WorkersTellTheTruth, SentForCause
\* A worker that stands still keeps the truth.
<1>4. ASSUME NEW w \in Workers, worker'[w] = worker[w] \/ worker'[w] = Idle,
             \A e \in EventIds : row[e] # "none" => row'[e] # "none",
             failures' = 0 => failures = 0
      PROVE  TrueOf(w)'
  <2>1. CASE worker'[w] = Idle
    BY <2>1 DEF Idle
  <2>2. CASE worker'[w] = worker[w]
    BY <1>1, <1>2, <1>3, <1>4, <2>2 DEF WorkersTellTheTruth, EventsKept
  <2> QED
    BY <1>4, <2>1, <2>2
\* The rows that stand still keep it too.
<1>5. ASSUME \A e \in EventIds : \/ row'[e] = row[e]
                                 \/ e \in sent /\ row'[e] \in {"processing", "failed"}
                                 \/ e \in sent /\ row'[e] = "processed" /\ Booked(e)
                                 \/ e \in sent /\ row'[e] = "manual_review",
             \A e \in acked' \ acked : row'[e] # "none"
      PROVE  /\ RowsTellTheTruth'
             /\ \A e \in EventIds : row[e] # "none" => row'[e] # "none"
  <2>1. ASSUME NEW e \in EventIds
        PROVE  /\ row'[e] # "ignored"
               /\ row'[e] # "none" => e \in sent'
               /\ row'[e] = "processed" => Booked(e)'
               /\ row[e] # "none" => row'[e] # "none"
    <3>1. /\ row[e] # "ignored" /\ (row[e] # "none" => e \in sent)
          /\ row[e] = "processed" => Booked(e)
      BY <1>1 DEF RowsTellTheTruth
    <3>2. sent \subseteq sent' /\ (e \in sent /\ Booked(e) => Booked(e)')
      BY <1>2 DEF EventsKept
    <3> QED
      BY <1>5, <3>1, <3>2
  <2>2. \A e \in acked' : row'[e] # "none"
    BY <1>1, <1>5, <2>1 DEF RowsTellTheTruth, ClaimsTypeOK
  <2> QED
    BY <2>1, <2>2 DEF RowsTellTheTruth
<1>6. ASSUME \A w \in Workers : TrueOf(w)'
      PROVE  WorkersTellTheTruth'
  BY <1>6 DEF WorkersTellTheTruth
<1> HIDE DEF TrueOf
<1>7. ASSUME UNCHANGED claimVars
      PROVE  Goal
  BY <1>4, <1>5, <1>6, <1>7 DEF claimVars
<1>8. ASSUME NEW w \in Workers, NEW e \in EventIds, Deliver(w, e)
      PROVE  Goal
  <2>1. e \in sent /\ UNCHANGED sent /\ worker[w] = Idle
    BY <1>8 DEF Deliver, providerVars, Claim, AnswerReplay
  <2>2. CASE Claim(w, e)
    <3>1. /\ worker'[w] = Claimed(e) /\ \A v \in Workers \ {w} : worker'[v] = worker[v]
          /\ row'[e] = "processing" /\ \A d \in EventIds \ {e} : row'[d] = row[d]
          /\ failures' = failures /\ acked' = acked
      BY <1>1, <2>2 DEF Claim, ClaimsTypeOK
    <3>2. RowsTellTheTruth' /\ \A d \in EventIds : row[d] # "none" => row'[d] # "none"
      BY <1>5, <2>1, <3>1
    <3>3. TrueOf(w)'
      BY <2>1, <3>1 DEF TrueOf, Claimed
    <3> QED
      BY <1>4, <1>6, <3>1, <3>2, <3>3
  <2>3. CASE AnswerReplay(w, e)
    BY <1>4, <1>5, <1>6, <2>3 DEF AnswerReplay, Terminal
  <2> QED
    BY <1>8, <2>2, <2>3 DEF Deliver
<1>9. ASSUME NEW w \in Workers, SettleEvent(w)
      PROVE  Goal
  <2>1. PICK e \in sent : /\ e = worker[w].event /\ e \in EventIds
                          /\ row[e] # "none" /\ UNCHANGED sent
    BY <1>3, <1>9 DEF SettleEvent, providerVars
  <2>2. PICK res \in Results : SettleProviderEvent(Payload(e), res) /\ Settle(w, e, res)
    BY <1>9, <2>1 DEF SettleEvent
  <2>3. /\ worker'[w] = Settled(e, res) /\ \A v \in Workers \ {w} : worker'[v] = worker[v]
        /\ UNCHANGED <<row, acked, failures>>
    BY <1>1, <2>2 DEF Settle, ClaimsTypeOK
  <2>4. /\ res # "ignored"
        /\ res \in {"settled", "noop"} => Booked(e)'
        /\ res = "manual_review" => Postponed(e)
        /\ res = "error" => NeverFits(e)
    BY <1>1, <2>1, <2>2, EventGrows
  <2>5. TrueOf(w)'
    BY <1>2, <2>1, <2>3, <2>4 DEF TrueOf, Settled, EventsKept
  <2> QED
    BY <1>4, <1>5, <1>6, <2>3, <2>5
<1>10. ASSUME NEW w \in Workers, CloseEvent(w)
       PROVE  Goal
  <2> DEFINE e == worker[w].event
  <2>1. CASE Finish(w)
    <3>1. /\ e \in sent /\ e \in EventIds /\ worker[w].pc = "settled"
          /\ row' = [row EXCEPT ![e] = FinishStatus(worker[w].result)]
          /\ worker' = [worker EXCEPT ![w] = IF worker[w].result = "error" THEN Idle ELSE Finished(e)]
          /\ failures' = failures /\ acked' = acked /\ sent' = sent
      BY <1>3, <1>10, <2>1 DEF Finish, CloseEvent, providerVars
    <3>2. /\ worker[w].result # "ignored"
          /\ worker[w].result \in {"settled", "noop"} => Booked(e)
      BY <1>1, <3>1 DEF WorkersTellTheTruth
    <3>3. worker[w].result \in SettleResults
      BY <1>1, <3>1 DEF ClaimsTypeOK, Idle, Claimed, Settled, Finished
    <3> HIDE DEF e
    <3>4. row'[e] = FinishStatus(worker[w].result) /\ \A d \in EventIds \ {e} : row'[d] = row[d]
      BY <1>1, <3>1 DEF ClaimsTypeOK
    <3>5. \/ row'[e] = "manual_review" \/ row'[e] = "failed"
          \/ row'[e] = "processed" /\ Booked(e)
      BY <3>2, <3>3, <3>4 DEF FinishStatus, SettleResults
    <3>6. RowsTellTheTruth' /\ \A d \in EventIds : row[d] # "none" => row'[d] # "none"
      BY <1>5, <3>1, <3>4, <3>5
    <3>7. /\ worker'[w] = Idle \/ worker'[w] = Finished(e)
          /\ \A v \in Workers \ {w} : worker'[v] = worker[v]
      BY <1>1, <3>1 DEF ClaimsTypeOK
    <3>8. worker'[w] = Finished(e) => TrueOf(w)'
      BY <3>1, <3>5 DEF TrueOf, Finished
    <3> QED
      BY <1>4, <1>6, <3>1, <3>6, <3>7, <3>8
  <2>2. CASE Answer(w)
    <3>1. /\ UNCHANGED <<row, failures>> /\ acked' = acked \cup {e}
          /\ \A v \in Workers : worker'[v] = worker[v] \/ worker'[v] = Idle
          /\ row[e] # "none"
      BY <1>1, <1>3, <2>2 DEF Answer, ClaimsTypeOK
    <3> QED
      BY <1>4, <1>5, <1>6, <3>1
  <2> QED
    BY <1>10, <2>1, <2>2 DEF CloseEvent, HandlerStep
<1>11. ASSUME Faults
       PROVE  Goal
  <2>1. ASSUME NEW w \in Workers, Crash(w)
        PROVE  Goal
    <3>1. /\ UNCHANGED <<row, acked, failures>>
          /\ \A v \in Workers : worker'[v] = worker[v] \/ worker'[v] = Idle
      BY <1>1, <2>1 DEF Crash, ClaimsTypeOK
    <3> QED
      BY <1>4, <1>5, <1>6, <3>1
  <2>2. ASSUME NEW w \in Workers, FinishFails(w)
        PROVE  Goal
    <3>1. /\ \A v \in Workers : worker'[v] = worker[v] \/ worker'[v] = Idle
          /\ failures' = failures + 1 /\ failures \in Nat /\ UNCHANGED acked
          /\ worker[w].event \in sent
          /\ \A d \in EventIds : row'[d] = row[d] \/ (d = worker[w].event /\ row'[d] = "failed")
      BY <1>1, <1>3, <2>2, ClaimsAssumption DEF FinishFails, StatementFails, ClaimsTypeOK
    <3>2. RowsTellTheTruth' /\ \A d \in EventIds : row[d] # "none" => row'[d] # "none"
      BY <1>5, <3>1
    <3> QED
      BY <1>4, <1>6, <3>1, <3>2
  <2>3. ASSUME NEW w \in Workers, NEW e \in EventIds, SettleFails(w, e)
        PROVE  Goal
    <3>1. /\ worker'[w] = Settled(e, "error") /\ \A v \in Workers \ {w} : worker'[v] = worker[v]
          /\ worker[w] = Claimed(e)
          /\ failures' = failures + 1 /\ failures \in Nat /\ UNCHANGED <<row, acked>>
      BY <1>1, <2>3, ClaimsAssumption DEF SettleFails, StatementFails, ClaimsTypeOK
    <3>2. e \in sent' /\ row'[e] # "none"
      BY <1>2, <1>3, <3>1 DEF Claimed, EventsKept
    <3>3. TrueOf(w)'
      BY <3>1, <3>2 DEF TrueOf, Settled
    <3> QED
      BY <1>4, <1>5, <1>6, <3>1, <3>3
  <2> QED
    BY <1>11, <2>1, <2>2, <2>3 DEF Faults, FaultStep
<1>12. ASSUME Time
       PROVE  Goal
  BY <1>4, <1>5, <1>6, <1>12 DEF Time, Age
<1> QED
  BY <1>7, <1>8, <1>9, <1>10, <1>11, <1>12
  DEF SettlementNext, Pay, Decline, DecideRefund, School, settlementVars

\* No step disturbs the invariant.
LEMMA SettlementStep ==
    SettlementInv /\ [SettlementNext]_settlementVars => SettlementInv'
<1> SUFFICES ASSUME SettlementInv, [SettlementNext]_settlementVars PROVE SettlementInv'
  OBVIOUS
<1>1. StatusInv' /\ TypeOK'
  BY LedgerStep, StatusStep DEF SettlementInv, StatusInv, LedgerInv
<1>2. ClaimsTypeOK'
  BY ClaimsStep DEF SettlementInv
<1>3. EventsKept
  BY <1>1, EventsStep
<1>4. WorkersTellTheTruth' /\ RowsTellTheTruth'
  BY <1>1, WorkersStep
<1> QED
  BY <1>1, <1>2, <1>3, <1>4 DEF SettlementInv, EventsKept

\* It holds before anything happened.
LEMMA SettlementOpen == SettlementInit => SettlementInv
<1> SUFFICES ASSUME SettlementInit PROVE SettlementInv
  OBVIOUS
<1>1. LedgerInit /\ ClaimsInit /\ sent = {} /\ paidAt = {}
  BY DEF SettlementInit
<1>2. StatusInv
  BY <1>1, StatusesOpen
<1>3. RefundsOfCredits /\ RefundedCounts
  BY <1>1 DEF LedgerInit, RefundsOfCredits, RefundedCounts, NoTx, NoRefund
<1>4. ClaimsTypeOK
  BY <1>1, ClaimsAssumption DEF ClaimsInit, ClaimsTypeOK, RowStatus
<1>5. SentForCause
  BY <1>1 DEF SentForCause
<1>6. LedgerFollowsProvider
  BY <1>1 DEF LedgerInit, LedgerFollowsProvider, Credited, PaidStatus, NoTx
<1>7. WorkersTellTheTruth /\ RowsTellTheTruth
  BY <1>1 DEF ClaimsInit, WorkersTellTheTruth, RowsTellTheTruth, Idle
<1> QED
  BY <1>2, <1>3, <1>4, <1>5, <1>6, <1>7 DEF SettlementInv

\* The invariant holds in every state the system reaches.
LEMMA SettlementHolds == SettlementSpec => []SettlementInv
  BY SettlementOpen, SettlementStep, PTL DEF SettlementSpec

-----------------------------------------------------------------------------
(* Results.                                                                 *)

\* Deliveries that are repeated, reordered, interrupted or taken over do to the
\* books only what ChargeLedger allows: all that is proved of it holds here too.
THEOREM SettlementKeepsLedger == SettlementSpec => LedgerSpec
<1>1. SettlementInit => LedgerInit
  BY DEF SettlementInit
<1>2. SettlementInv /\ [SettlementNext]_settlementVars => [LedgerNext]_ledgerVars
  BY LedgerStep
<1> QED
  BY <1>1, <1>2, SettlementHolds, PTL DEF SettlementSpec, LedgerSpec

\* The webhook invents no money: what is credited online was paid at the provider,
\* and what it completed of refunds is the only thing booked of them.
THEOREM LedgerAlwaysFollows == SettlementSpec => []LedgerFollowsProvider
<1>1. SettlementInv => LedgerFollowsProvider
  BY DEF SettlementInv
<1> QED
  BY <1>1, SettlementHolds, PTL

\* No row and no answer of a delivery claims more than the ledger shows, whichever
\* deliveries crash, fail or are taken over.
THEOREM ClaimsAlwaysTell == SettlementSpec => []ClaimsTellTheTruth
<1>1. SettlementInv => ClaimsTellTheTruth
  <2> SUFFICES ASSUME SettlementInv PROVE ClaimsTellTheTruth
    OBVIOUS
  <2>1. ClaimsTypeOK /\ RowsTellTheTruth
    BY DEF SettlementInv
  <2>2. ProcessedMeansBooked
    BY <2>1 DEF ProcessedMeansBooked, RowsTellTheTruth, Booked
  <2>3. AnsweredMeansDecided
    <3> SUFFICES ASSUME NEW e \in acked, e.kind \in SuccessKinds
                 PROVE  Credited(tx, e.of) \/ row[e] \in {"manual_review", "failed", "processing"}
      BY DEF AnsweredMeansDecided
    <3>1. e \in EventIds /\ row[e] \in RowStatus
      BY <2>1 DEF ClaimsTypeOK
    <3>2. row[e] \notin {"none", "ignored"} /\ (row[e] = "processed" => Credited(tx, e.of))
      BY <2>1, <3>1 DEF RowsTellTheTruth, Booked
    <3> QED
      BY <3>1, <3>2 DEF RowStatus, Terminal
  <2> QED
    BY <2>1, <2>2, <2>3 DEF ClaimsTellTheTruth
<1> QED
  BY <1>1, SettlementHolds, PTL

\* As long as no statement fails, what was processed stays so, unless a success is
\* settled again after money of its charge was refunded.
THEOREM ProcessedAlwaysStays == SettlementSpec => ProcessedStays
<1> DEFINE Kept == \A e \in EventIds : row[e] = "processed" /\ failures' = 0 =>
                     \/ row'[e] = "processed"
                     \/ /\ row'[e] = "manual_review"
                        /\ e.kind \in SuccessKinds
                        /\ Refunded(tx, tx[e.of].charge) > 0
<1>1. ASSUME SettlementInv, [SettlementNext]_settlementVars
      PROVE  Kept
  <2>1. ClaimsTypeOK /\ WorkersTellTheTruth /\ RowsTellTheTruth /\ SentForCause
    BY <1>1 DEF SettlementInv
  <2>2. ASSUME NEW e \in EventIds, row[e] = "processed", failures' = 0, row'[e] # row[e]
        PROVE  /\ row'[e] = "manual_review"
               /\ e.kind \in SuccessKinds
               /\ Refunded(tx, tx[e.of].charge) > 0
    <3>1. PICK w \in Workers : Finish(w) /\ failures' = failures
      <4>1. ~Faults
        BY <2>1, <2>2, ClaimsAssumption
        DEF Faults, FaultStep, Crash, FinishFails, SettleFails, StatementFails, ClaimsTypeOK
      <4>2. ASSUME NEW w \in Workers, NEW d \in EventIds, Deliver(w, d)
            PROVE  FALSE
        BY <2>1, <2>2, <4>2
        DEF Deliver, Claim, AnswerReplay, Claimable, ClaimsTypeOK
      <4> QED
        BY <1>1, <2>2, <4>1, <4>2
        DEF SettlementNext, Pay, Decline, DecideRefund, School, SettleEvent, Settle, CloseEvent,
            HandlerStep, Finish, Answer, Time, Age, settlementVars, claimVars
    <3>2. /\ e = worker[w].event /\ worker[w].pc = "settled"
          /\ row'[e] = FinishStatus(worker[w].result)
      BY <2>1, <2>2, <3>1 DEF Finish, ClaimsTypeOK
    <3>3. /\ worker[w].result # "ignored"
          /\ worker[w].result = "manual_review" => Postponed(e)
          /\ worker[w].result = "error" => NeverFits(e)
      BY <2>1, <2>2, <3>1, <3>2 DEF WorkersTellTheTruth
    <3>4. Booked(e)
      BY <2>1, <2>2 DEF RowsTellTheTruth
    <3>5. worker[w].result # "error"
      BY <3>3, <3>4 DEF Booked, NeverFits
    <3>6. worker[w].result = "manual_review"
      BY <2>2, <3>2, <3>3, <3>5 DEF FinishStatus
    <3> QED
      BY <3>2, <3>3, <3>4, <3>6 DEF Postponed, Booked, FinishStatus
  <2> QED
    BY <2>2
<1>2. SettlementInv /\ [SettlementNext]_settlementVars => [Kept]_settlementVars
  BY <1>1
<1> QED
  BY <1>2, SettlementHolds, PTL DEF SettlementSpec, ProcessedStays
=============================================================================
