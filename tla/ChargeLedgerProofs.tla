------------------------- MODULE ChargeLedgerProofs -------------------------
(***************************************************************************)
(* Theorems about ChargeLedger, for every number of charges, transactions  *)
(* and refunds and every amount: the rows keep their types, no transaction *)
(* is refunded beyond its amount and no charge is credited beyond what is  *)
(* due on it; a payment is booked once, the stored status of a charge tells *)
(* its money, what is booked is never rewritten, and the ledger implements *)
(* the account of each charge.                                             *)
(***************************************************************************)
EXTENDS ChargeLedger, TotalsTheorems

-----------------------------------------------------------------------------
(* Balances.                                                                *)

\* The table of transactions is finite, so that its columns have sums.
LEMMA TxIdsFinite == IsFiniteSet(TxIds)
  BY LedgerAssumption, FS_Interval DEF TxIds

\* The columns a balance is summed from, and the balance, are of amounts.
LEMMA BalanceType ==
    ASSUME NEW txs \in [TxIds -> TxRows], NEW c
    PROVE  /\ PaidColumn(txs, c) \in [TxIds -> Nat]
           /\ RefundedColumn(txs, c) \in [TxIds -> Nat]
           /\ GrossPaid(txs, c) \in Nat
           /\ Refunded(txs, c) \in Nat
           /\ NetPaid(txs, c) \in Nat
<1>1. \A t \in TxIds : txs[t].amount \in Nat /\ txs[t].refunded \in Nat
  BY DEF TxRows
<1>2. PaidColumn(txs, c) \in [TxIds -> Nat]
  BY <1>1 DEF PaidColumn
<1>3. RefundedColumn(txs, c) \in [TxIds -> Nat]
  BY <1>1 DEF RefundedColumn
<1>4. GrossPaid(txs, c) \in Nat
  BY <1>2, TxIdsFinite, TotalType DEF GrossPaid
<1>5. Refunded(txs, c) \in Nat
  BY <1>3, TxIdsFinite, TotalType DEF Refunded
<1> QED
  BY <1>2, <1>3, <1>4, <1>5 DEF NetPaid

\* Where no transaction is refunded beyond its amount, net is gross less
\* refunded: the floor of chargeBalance is never needed.
LEMMA NetIsDifference ==
    ASSUME NEW txs \in [TxIds -> TxRows], NEW c,
           \A t \in TxIds : txs[t].refunded <= txs[t].amount
    PROVE  NetPaid(txs, c) = GrossPaid(txs, c) - Refunded(txs, c)
<1>1. \A t \in TxIds : RefundedColumn(txs, c)[t] <= PaidColumn(txs, c)[t]
  BY DEF RefundedColumn, PaidColumn, TxRows
<1>2. Refunded(txs, c) <= GrossPaid(txs, c)
  BY <1>1, BalanceType, TxIdsFinite, TotalMonotone DEF Refunded, GrossPaid
<1> QED
  BY <1>2, BalanceType DEF NetPaid

\* Two tables that agree on a charge's rows agree on its balance.
LEMMA SameBalance ==
    ASSUME NEW txs \in [TxIds -> TxRows], NEW new \in [TxIds -> TxRows], NEW c,
           \A t \in TxIds : PaidInto(new, c, t) <=> PaidInto(txs, c, t),
           \A t \in TxIds : PaidInto(txs, c, t) =>
               new[t].amount = txs[t].amount /\ new[t].refunded = txs[t].refunded
    PROVE  NetPaid(new, c) = NetPaid(txs, c) /\ Refunded(new, c) = Refunded(txs, c)
<1>1. PaidColumn(new, c) = PaidColumn(txs, c)
  BY DEF PaidColumn
<1>2. RefundedColumn(new, c) = RefundedColumn(txs, c)
  BY DEF RefundedColumn
<1> QED
  BY <1>1, <1>2 DEF NetPaid, GrossPaid, Refunded

\* One row changes: the balance changes by that row.
LEMMA BalanceChange ==
    ASSUME NEW txs \in [TxIds -> TxRows], NEW new \in [TxIds -> TxRows],
           NEW c, NEW t \in TxIds, \A u \in TxIds \ {t} : new[u] = txs[u],
           \A u \in TxIds : txs[u].refunded <= txs[u].amount,
           \A u \in TxIds : new[u].refunded <= new[u].amount
    PROVE  NetPaid(new, c) = NetPaid(txs, c)
               - (PaidColumn(txs, c)[t] - RefundedColumn(txs, c)[t])
               + (PaidColumn(new, c)[t] - RefundedColumn(new, c)[t])
<1>1. \A u \in TxIds \ {t} : PaidColumn(new, c)[u] = PaidColumn(txs, c)[u]
  BY DEF PaidColumn, PaidInto, Credited
<1>2. \A u \in TxIds \ {t} : RefundedColumn(new, c)[u] = RefundedColumn(txs, c)[u]
  BY DEF RefundedColumn, PaidInto, Credited
<1>3. GrossPaid(new, c) = GrossPaid(txs, c) - PaidColumn(txs, c)[t] + PaidColumn(new, c)[t]
  BY <1>1, BalanceType, TxIdsFinite, TotalChange DEF GrossPaid
<1>4. Refunded(new, c) = Refunded(txs, c) - RefundedColumn(txs, c)[t] + RefundedColumn(new, c)[t]
  BY <1>2, BalanceType, TxIdsFinite, TotalChange DEF Refunded
<1>5. /\ NetPaid(new, c) = GrossPaid(new, c) - Refunded(new, c)
      /\ NetPaid(txs, c) = GrossPaid(txs, c) - Refunded(txs, c)
  BY NetIsDifference
<1>6. /\ GrossPaid(txs, c) \in Nat /\ Refunded(txs, c) \in Nat
      /\ PaidColumn(txs, c)[t] \in Nat /\ RefundedColumn(txs, c)[t] \in Nat
      /\ PaidColumn(new, c)[t] \in Nat /\ RefundedColumn(new, c)[t] \in Nat
  BY BalanceType
<1> QED
  BY <1>3, <1>4, <1>5, <1>6

\* A row that becomes credited brings its whole amount.
LEMMA CreditBalance ==
    ASSUME NEW txs \in [TxIds -> TxRows], NEW new \in [TxIds -> TxRows],
           NEW c, NEW t \in TxIds, \A u \in TxIds \ {t} : new[u] = txs[u],
           \A u \in TxIds : txs[u].refunded <= txs[u].amount,
           ~Credited(txs, t), Credited(new, t), new[t].refunded = 0
    PROVE  NetPaid(new, c) = NetPaid(txs, c) + IF new[t].charge = c THEN new[t].amount ELSE 0
<1>1. new[t].amount \in Nat
  BY DEF TxRows
<1>2. \A u \in TxIds : new[u].refunded <= new[u].amount
  BY <1>1
<1>3. NetPaid(new, c) = NetPaid(txs, c)
          - (PaidColumn(txs, c)[t] - RefundedColumn(txs, c)[t])
          + (PaidColumn(new, c)[t] - RefundedColumn(new, c)[t])
  BY <1>2, BalanceChange
<1>4. PaidColumn(txs, c)[t] = 0 /\ RefundedColumn(txs, c)[t] = 0
  BY DEF PaidColumn, RefundedColumn, PaidInto
<1>5. /\ PaidColumn(new, c)[t] = IF new[t].charge = c THEN new[t].amount ELSE 0
      /\ RefundedColumn(new, c)[t] = 0
  BY DEF PaidColumn, RefundedColumn, PaidInto
<1>6. NetPaid(txs, c) \in Nat
  BY BalanceType
<1> QED
  BY <1>1, <1>3, <1>4, <1>5, <1>6

\* A credited row that is refunded takes what is refunded now.
LEMMA RefundBalance ==
    ASSUME NEW txs \in [TxIds -> TxRows], NEW new \in [TxIds -> TxRows],
           NEW c, NEW t \in TxIds, \A u \in TxIds \ {t} : new[u] = txs[u],
           \A u \in TxIds : txs[u].refunded <= txs[u].amount,
           NEW amount \in Nat, txs[t].refunded + amount <= txs[t].amount,
           Credited(txs, t), Credited(new, t),
           new[t].charge = txs[t].charge, new[t].amount = txs[t].amount,
           new[t].refunded = txs[t].refunded + amount
    PROVE  NetPaid(new, c) = NetPaid(txs, c) - IF txs[t].charge = c THEN amount ELSE 0
<1>1. txs[t].amount \in Nat /\ txs[t].refunded \in Nat
  BY DEF TxRows
<1>2. \A u \in TxIds : new[u].refunded <= new[u].amount
  BY <1>1
<1>3. NetPaid(new, c) = NetPaid(txs, c)
          - (PaidColumn(txs, c)[t] - RefundedColumn(txs, c)[t])
          + (PaidColumn(new, c)[t] - RefundedColumn(new, c)[t])
  BY <1>2, BalanceChange
<1>4. CASE txs[t].charge = c
  <2>1. /\ PaidColumn(txs, c)[t] = txs[t].amount
        /\ RefundedColumn(txs, c)[t] = txs[t].refunded
        /\ PaidColumn(new, c)[t] = txs[t].amount
        /\ RefundedColumn(new, c)[t] = txs[t].refunded + amount
    BY <1>4 DEF PaidColumn, RefundedColumn, PaidInto
  <2> QED
    BY <1>1, <1>3, <1>4, <2>1, BalanceType
<1>5. CASE txs[t].charge # c
  <2>1. /\ PaidColumn(txs, c)[t] = 0
        /\ RefundedColumn(txs, c)[t] = 0
        /\ PaidColumn(new, c)[t] = 0
        /\ RefundedColumn(new, c)[t] = 0
    BY <1>5 DEF PaidColumn, RefundedColumn, PaidInto
  <2> QED
    BY <1>3, <1>5, <2>1, BalanceType
<1> QED
  BY <1>4, <1>5

-----------------------------------------------------------------------------
(* Types.                                                                   *)

\* A refreshed table of charges has the same amounts due and no row less.
LEMMA RefreshedRows ==
    ASSUME TypeOK, NEW c, NEW txs
    PROVE  /\ Refreshed(c, txs) \in [Charges -> ChargeRows]
           /\ \A d \in Charges :
                /\ Refreshed(c, txs)[d].due = charge[d].due
                /\ Refreshed(c, txs)[d].status = "none" => charge[d].status = "none"
                /\ charge[d].status = "none" /\ d # c => Refreshed(c, txs)[d] = charge[d]
<1>1. \A s \in ChargeStatus : \A due, net, back :
        /\ DeriveChargeStatus(s, due, net, back) \in ChargeStatus
        /\ DeriveChargeStatus(s, due, net, back) # "none"
  BY DEF DeriveChargeStatus, ChargeStatus
<1>2. charge \in [Charges -> ChargeRows] /\ \A d \in Charges : charge[d].status \in ChargeStatus
  BY DEF TypeOK, ChargeRows
<1> DEFINE s == DeriveChargeStatus(charge[c].status, charge[c].due,
                                   NetPaid(txs, c), Refunded(txs, c))
<1>3. Refreshed(c, txs) = [charge EXCEPT ![c].status = s]
  BY DEF Refreshed
<1>4. c \in Charges => s \in ChargeStatus \ {"none"}
  BY <1>1, <1>2
<1> HIDE DEF s
<1> QED
  BY <1>2, <1>3, <1>4, ZenonT(40) DEF ChargeRows

\* The row of a new transaction.
LEMMA TxRowType ==
    ASSUME NEW c \in Charges, NEW amount \in Nat, NEW key \in Keys \cup {None},
           NEW channel \in {"provider", "offline"}, NEW status \in TxStatus
    PROVE  TxRow(c, amount, key, channel, status) \in TxRows
  BY DEF TxRow, TxRows

\* A refund that succeeds writes rows of the right types.
LEMMA RefundStepType ==
    ASSUME TypeOK, NEW t \in TxIds, NEW amount \in Nat, ApplySucceededRefund(t, amount)
    PROVE  tx' \in [TxIds -> TxRows] /\ charge' \in [Charges -> ChargeRows]
<1>1. tx[t].refunded + amount \in Nat
  BY DEF TypeOK, TxRows
<1>2. tx' \in [TxIds -> TxRows]
  BY <1>1 DEF TypeOK, TxRows, TxStatus, ApplySucceededRefund
<1> QED
  BY <1>2, RefreshedRows DEF ApplySucceededRefund

\* Every operation and every provider event keeps the types of the rows.
LEMMA TypeStep == TypeOK /\ [LedgerNext]_ledgerVars => TypeOK'
<1> SUFFICES ASSUME TypeOK, [LedgerNext]_ledgerVars PROVE TypeOK'
  OBVIOUS
<1> USE DEF TypeOK
<1>1. ASSUME NEW c \in Charges, NEW amount \in Amounts, NEW issued \in BOOLEAN,
             CreateCharge(c, amount, issued)
      PROVE  TypeOK'
  BY <1>1 DEF CreateCharge, ChargeRows, ChargeStatus, Amounts
<1>2. ASSUME NEW c \in Charges, IssueCharge(c)
      PROVE  TypeOK'
  BY <1>2 DEF IssueCharge, ChargeRows, ChargeStatus
<1>3. ASSUME NEW c \in Charges, CancelCharge(c)
      PROVE  TypeOK'
  <2>1. charge' \in [Charges -> ChargeRows]
    BY <1>3 DEF CancelCharge, ChargeRows, ChargeStatus
  <2>2. tx' \in [TxIds -> TxRows]
    BY <1>3 DEF CancelCharge, PendingCancelled, TxRows, TxStatus
  <2>3. session' \in [TxIds -> SessionStatus]
    BY <1>3 DEF CancelCharge, OpenSessionsCancelled, SessionStatus
  <2> QED
    BY <1>3, <2>1, <2>2, <2>3 DEF CancelCharge
<1>4. ASSUME NEW c \in Charges, NEW amount \in Amounts, ApplyChargeAdjustment(c, amount)
      PROVE  TypeOK'
  <2>1. charge[c].due - amount \in Nat
    BY <1>4 DEF ApplyChargeAdjustment, ChargeRows, Amounts
  <2>2. PICK s \in ChargeStatus :
            charge' = [charge EXCEPT ![c].due = charge[c].due - amount, ![c].status = s]
    BY <1>4 DEF ApplyChargeAdjustment, DeriveChargeStatus, ChargeStatus, ChargeRows
  <2>3. charge' \in [Charges -> ChargeRows]
    BY <2>1, <2>2 DEF ChargeRows
  <2> QED
    BY <1>4, <2>3 DEF ApplyChargeAdjustment
<1>5. ASSUME NEW c \in Charges, NEW amount \in Amounts, NEW key \in Keys \cup {None},
             RecordOfflinePayment(c, amount, key)
      PROVE  TypeOK'
  <2>1. PICK t \in TxIds :
          /\ tx' = [tx EXCEPT ![t] = TxRow(c, amount, key, "offline", "succeeded")]
          /\ charge' = Refreshed(c, tx')
          /\ receipts' = receipts \cup {t}
    BY <1>5 DEF RecordOfflinePayment, CreateReceipt
  <2>2. tx' \in [TxIds -> TxRows]
    BY <2>1, TxRowType DEF TxStatus, Amounts
  <2>3. charge' \in [Charges -> ChargeRows]
    BY <2>1, RefreshedRows
  <2> QED
    BY <1>5, <2>1, <2>2, <2>3 DEF RecordOfflinePayment
<1>6. ASSUME NEW c \in Charges, NEW amount \in Amounts, NEW key \in Keys \cup {None},
             CreateCheckoutSession(c, amount, key)
      PROVE  TypeOK'
  <2>1. PICK t \in TxIds :
          /\ tx' = [tx EXCEPT ![t] = TxRow(c, amount, key, "provider", "pending")]
          /\ session' = [session EXCEPT ![t] = "open"]
    BY <1>6 DEF CreateCheckoutSession
  <2>2. tx' \in [TxIds -> TxRows]
    BY <2>1, TxRowType DEF TxStatus, Amounts
  <2>3. session' \in [TxIds -> SessionStatus]
    BY <2>1 DEF SessionStatus
  <2> QED
    BY <1>6, <2>2, <2>3 DEF CreateCheckoutSession
<1>7. ASSUME NEW t \in TxIds, NEW amount \in Amounts, NEW key \in Keys \cup {None},
             NEW answer \in RefundStatus, RequestRefund(t, amount, key, answer)
      PROVE  TypeOK'
  <2>1. refund' \in [RefundIds -> RefundRows]
    BY <1>7 DEF RequestRefund, RefundRows, Amounts
  <2>2. CASE answer = "succeeded"
    <3>1. ApplySucceededRefund(t, amount)
      BY <1>7, <2>2 DEF RequestRefund
    <3>2. tx' \in [TxIds -> TxRows] /\ charge' \in [Charges -> ChargeRows]
      BY <3>1, RefundStepType DEF Amounts
    <3> QED
      BY <1>7, <2>1, <3>2 DEF RequestRefund
  <2>3. CASE answer # "succeeded"
    BY <1>7, <2>1, <2>3 DEF RequestRefund
  <2> QED
    BY <2>2, <2>3
<1>8. ASSUME NEW e \in Events, NEW res \in Results, SettleProviderEvent(e, res)
      PROVE  TypeOK'
  <2>1. e.tx \in TxIds /\ (e.kind = "payment" => e.outcome \in {"succeeded", "failed", "cancelled", "ignored"})
    BY DEF Events, PaymentEvents, RefundEvents
  <2>2. CASE SettleMismatch(e, res)
    BY <2>1, <2>2 DEF SettleMismatch, TxRows, TxStatus
  <2>3. CASE SettleIgnored(e, res) \/ SettleRefused(e, res)
    BY <2>3 DEF SettleIgnored, SettleRefused, ledgerVars
  <2>4. CASE SettleRefunded(e, res)
    <3>1. CASE UNCHANGED ledgerVars
      BY <3>1 DEF ledgerVars
    <3>2. CASE ~UNCHANGED ledgerVars
      <4>1. PICK r \in RefundIds :
              /\ ApplySucceededRefund(e.tx, refund[r].amount)
              /\ refund' = [refund EXCEPT ![r].status = "succeeded"]
              /\ UNCHANGED <<session, receipts>>
        BY <2>4, <3>2 DEF SettleRefunded, PendingRefunds
      <4>2. refund[r].amount \in Nat
        BY DEF RefundRows
      <4>3. tx' \in [TxIds -> TxRows] /\ charge' \in [Charges -> ChargeRows]
        BY <2>1, <4>1, <4>2, RefundStepType
      <4> QED
        BY <4>1, <4>3 DEF RefundRows, RefundStatus
    <3> QED
      BY <3>1, <3>2
  <2>5. CASE SettleRefundFailed(e, res)
    <3>1. refund' \in [RefundIds -> RefundRows]
      BY <2>5 DEF SettleRefundFailed, RefundRows, RefundStatus
    <3> QED
      BY <2>5, <3>1 DEF SettleRefundFailed
  <2>6. CASE SettleNotPaid(e, res)
    <3>1. CASE UNCHANGED <<tx, session>>
      BY <2>6, <3>1 DEF SettleNotPaid
    <3>2. CASE /\ tx' = [tx EXCEPT ![e.tx].status = e.outcome]
               /\ session' = [session EXCEPT ![e.tx] = e.outcome]
      BY <2>1, <2>6, <3>2, SMTT(30) DEF SettleNotPaid, TxRows, TxStatus, SessionStatus
    <3> QED
      BY <2>6, <3>1, <3>2 DEF SettleNotPaid
  <2>7. CASE SettleCredit(e, res)
    <3>1. charge' \in [Charges -> ChargeRows]
      BY <2>7, RefreshedRows DEF SettleCredit
    <3> QED
      BY <2>1, <2>7, <3>1, ZenonT(40)
      DEF SettleCredit, CreateReceipt, TxRows, TxStatus, SessionStatus
  <2> QED
    BY <1>8, <2>2, <2>3, <2>4, <2>5, <2>6, <2>7 DEF SettleProviderEvent
<1>9. CASE UNCHANGED ledgerVars
  BY <1>9 DEF ledgerVars
<1> QED
  BY <1>1, <1>2, <1>3, <1>4, <1>5, <1>6, <1>7, <1>8, <1>9 DEF LedgerNext, SchoolStep

\* Every row any sequence of operations writes is of its table's type: no
\* status outside the database's constraints, no negative amount.
THEOREM TypeCorrect == LedgerSpec => []TypeOK
<1>1. LedgerInit => TypeOK
  BY DEF LedgerInit, TypeOK, NoCharge, NoTx, NoRefund, ChargeRows, TxRows, RefundRows,
         ChargeStatus, TxStatus, SessionStatus, RefundStatus
<1> QED
  BY <1>1, TypeStep, PTL DEF LedgerSpec

-----------------------------------------------------------------------------
(* The sum of a transaction's succeeded refunds.                            *)

\* It depends on the succeeded refunds alone.
LEMMA SameRefunds ==
    ASSUME NEW t,
           \A r \in RefundIds : refund'[r].status = "succeeded" <=> refund[r].status = "succeeded",
           \A r \in RefundIds : refund[r].status = "succeeded" =>
               refund'[r].tx = refund[r].tx /\ refund'[r].amount = refund[r].amount
    PROVE  SucceededRefunds(t)' = SucceededRefunds(t)
<1>1. [r \in RefundIds |->
         IF refund'[r].tx = t /\ refund'[r].status = "succeeded" THEN refund'[r].amount ELSE 0]
      = [r \in RefundIds |->
           IF refund[r].tx = t /\ refund[r].status = "succeeded" THEN refund[r].amount ELSE 0]
  OBVIOUS
<1> QED
  BY <1>1 DEF SucceededRefunds

\* A refund that succeeds adds its amount.
LEMMA OneMoreRefund ==
    ASSUME TypeOK, TypeOK', NEW t, NEW r \in RefundIds,
           \A q \in RefundIds \ {r} : refund'[q] = refund[q],
           refund[r].status # "succeeded", refund'[r].status = "succeeded"
    PROVE  SucceededRefunds(t)' = SucceededRefunds(t)
               + IF refund'[r].tx = t THEN refund'[r].amount ELSE 0
<1> DEFINE f == [q \in RefundIds |->
                   IF refund[q].tx = t /\ refund[q].status = "succeeded"
                   THEN refund[q].amount ELSE 0]
           g == [q \in RefundIds |->
                   IF refund'[q].tx = t /\ refund'[q].status = "succeeded"
                   THEN refund'[q].amount ELSE 0]
<1>1. IsFiniteSet(RefundIds)
  BY LedgerAssumption, FS_Interval DEF RefundIds
<1>2. f \in [RefundIds -> Nat] /\ g \in [RefundIds -> Nat]
  BY DEF TypeOK, RefundRows
<1>3. \A q \in RefundIds \ {r} : g[q] = f[q]
  OBVIOUS
<1>4. f[r] = 0 /\ g[r] = IF refund'[r].tx = t THEN refund'[r].amount ELSE 0
  OBVIOUS
<1>5. SucceededRefunds(t) = Total(f) /\ SucceededRefunds(t)' = Total(g)
  BY DEF SucceededRefunds
<1> HIDE DEF f, g
<1>6. Total(g) = Total(f) - f[r] + g[r]
  BY <1>1, <1>2, <1>3, TotalChange
<1>7. Total(f) \in Nat /\ g[r] \in Nat
  BY <1>1, <1>2, TotalType
<1> QED
  BY <1>4, <1>5, <1>6, <1>7

-----------------------------------------------------------------------------
(* The ways an operation disturbs the books.                                *)

\* No credited transaction changes and no refund succeeds.
LEMMA NoMoneyMoves ==
    ASSUME LedgerInv, TypeOK', RowsBelong',
           \A t \in TxIds : Credited(tx, t) => tx'[t] = tx[t],
           \A t \in TxIds : ~Credited(tx, t) => ~Credited(tx', t) /\ tx'[t].refunded = 0,
           \A r \in RefundIds : refund'[r].status = "succeeded" <=> refund[r].status = "succeeded",
           \A r \in RefundIds : refund[r].status = "succeeded" =>
               refund'[r].tx = refund[r].tx /\ refund'[r].amount = refund[r].amount,
           \A c \in Charges : NetPaid(tx, c) <= charge'[c].due
    PROVE  LedgerInv'
<1>1. /\ tx \in [TxIds -> TxRows]
      /\ tx' \in [TxIds -> TxRows]
      /\ \A t \in TxIds : tx'[t].amount \in Nat
  BY DEF LedgerInv, TypeOK, TxRows
<1>2. NoOverCredit'
  <2> SUFFICES ASSUME NEW c \in Charges PROVE NetPaid(tx', c) <= charge'[c].due
    BY DEF NoOverCredit
  <2>1. \A t \in TxIds : PaidInto(tx', c, t) <=> PaidInto(tx, c, t)
    BY DEF PaidInto, Credited
  <2>2. \A t \in TxIds : PaidInto(tx, c, t) => tx'[t] = tx[t]
    BY DEF PaidInto
  <2>3. NetPaid(tx', c) = NetPaid(tx, c)
    BY <1>1, <2>1, <2>2, SameBalance
  <2> QED
    BY <2>3
<1>3. \A t \in TxIds : tx[t].refunded = tx'[t].refunded
  BY DEF LedgerInv, RefundedSaysSo, Credited, PaidStatus
<1>4. RefundsReconcile'
  <2> SUFFICES ASSUME NEW t \in TxIds
               PROVE  tx'[t].refunded = SucceededRefunds(t)' /\ tx'[t].refunded <= tx'[t].amount
    BY DEF RefundsReconcile
  <2>1. SucceededRefunds(t)' = SucceededRefunds(t)
    BY SameRefunds
  <2>2. tx'[t].refunded <= tx'[t].amount
    BY <1>1 DEF LedgerInv, RefundsReconcile
  <2> QED
    BY <1>3, <2>1, <2>2 DEF LedgerInv, RefundsReconcile
<1>5. RefundedSaysSo'
  BY DEF LedgerInv, RefundedSaysSo, Credited, PaidStatus
<1> QED
  BY <1>2, <1>4, <1>5 DEF LedgerInv

\* One transaction is credited with no more than is outstanding on its charge.
LEMMA MoneyComesIn ==
    ASSUME LedgerInv, TypeOK', NEW c \in Charges, NEW t \in TxIds, NEW row \in TxRows,
           charge[c].status # "none", ~Credited(tx, t),
           row.status = "succeeded", row.charge = c, row.refunded = 0,
           row.amount <= OutstandingMinor(charge[c].due, NetPaid(tx, c)),
           tx'[t] = row, \A u \in TxIds \ {t} : tx'[u] = tx[u],
           charge' = Refreshed(c, tx'), refund' = refund
    PROVE  LedgerInv'
<1>1. /\ tx \in [TxIds -> TxRows]
      /\ tx' \in [TxIds -> TxRows]
      /\ \A u \in TxIds : tx[u].refunded <= tx[u].amount
      /\ row.amount \in Nat
  BY DEF LedgerInv, TypeOK, RefundsReconcile, TxRows
<1>2. Credited(tx', t) /\ tx'[t].refunded = 0
  BY DEF Credited, PaidStatus
<1>3. \A d \in Charges :
        /\ charge'[d].due = charge[d].due
        /\ charge'[d].status = "none" => charge[d].status = "none"
        /\ charge[d].status = "none" /\ d # c => charge'[d] = charge[d]
  BY RefreshedRows DEF LedgerInv
<1>4. RowsBelong'
  BY <1>1, <1>3 DEF LedgerInv, RowsBelong
<1>5. NoOverCredit'
  <2> SUFFICES ASSUME NEW d \in Charges PROVE NetPaid(tx', d) <= charge'[d].due
    BY DEF NoOverCredit
  <2>1. NetPaid(tx', d) = NetPaid(tx, d) + IF tx'[t].charge = d THEN tx'[t].amount ELSE 0
    BY <1>1, <1>2, CreditBalance
  <2>2. NetPaid(tx, d) \in Nat /\ NetPaid(tx, d) <= charge[d].due /\ charge[d].due \in Nat
    BY <1>1, BalanceType DEF LedgerInv, NoOverCredit, TypeOK, ChargeRows
  <2>3. CASE d = c
    <3>1. NetPaid(tx', c) = NetPaid(tx, c) + row.amount
      BY <1>1, <2>1, <2>3
    <3> QED
      BY <1>1, <1>3, <2>2, <2>3, <3>1 DEF OutstandingMinor
  <2>4. CASE d # c
    BY <1>1, <1>3, <2>1, <2>2, <2>4
  <2> QED
    BY <2>3, <2>4
<1>6. tx[t].refunded = 0
  BY DEF LedgerInv, RefundedSaysSo, Credited, PaidStatus
<1>7. RefundsReconcile'
  <2> SUFFICES ASSUME NEW u \in TxIds
               PROVE  tx'[u].refunded = SucceededRefunds(u)' /\ tx'[u].refunded <= tx'[u].amount
    BY DEF RefundsReconcile
  <2>1. SucceededRefunds(u)' = SucceededRefunds(u)
    BY SameRefunds
  <2> QED
    BY <1>1, <1>6, <2>1 DEF LedgerInv, RefundsReconcile
<1>8. RefundedSaysSo'
  BY <1>1 DEF LedgerInv, RefundedSaysSo
<1> QED
  BY <1>4, <1>5, <1>7, <1>8 DEF LedgerInv

\* One refund succeeds and is booked on its transaction.
LEMMA MoneyGoesBack ==
    ASSUME LedgerInv, TypeOK', NEW t \in TxIds, NEW amount \in Nat, NEW r \in RefundIds,
           Credited(tx, t), ApplySucceededRefund(t, amount),
           \A q \in RefundIds \ {r} : refund'[q] = refund[q],
           refund[r].status # "succeeded", refund'[r].status = "succeeded",
           refund'[r].tx = t, refund'[r].amount = amount
    PROVE  LedgerInv'
<1>1. /\ tx \in [TxIds -> TxRows]
      /\ tx' \in [TxIds -> TxRows]
      /\ \A u \in TxIds : tx[u].refunded <= tx[u].amount
      /\ tx[t].refunded \in Nat /\ tx[t].amount \in Nat
  BY DEF LedgerInv, TypeOK, RefundsReconcile, TxRows
<1>2. /\ \A u \in TxIds \ {t} : tx'[u] = tx[u]
      /\ tx'[t].charge = tx[t].charge
      /\ tx'[t].amount = tx[t].amount
      /\ tx'[t].refunded = tx[t].refunded + amount
      /\ tx'[t].status \in {"refunded", "partially_refunded"}
      /\ tx[t].refunded + amount <= tx[t].amount
  BY <1>1 DEF ApplySucceededRefund, CanApplyRefund, TxRows
<1>3. Credited(tx', t)
  BY <1>2 DEF Credited, PaidStatus
<1>4. tx[t].charge \in Charges /\ charge[tx[t].charge].status # "none"
  BY DEF LedgerInv, RowsBelong, Credited, PaidStatus
<1>5. \A d \in Charges :
        /\ charge'[d].due = charge[d].due
        /\ charge'[d].status = "none" => charge[d].status = "none"
        /\ charge[d].status = "none" /\ d # tx[t].charge => charge'[d] = charge[d]
  BY RefreshedRows DEF LedgerInv, ApplySucceededRefund
<1>6. RowsBelong'
  BY <1>2, <1>4, <1>5 DEF LedgerInv, RowsBelong
<1>7. NoOverCredit'
  <2> SUFFICES ASSUME NEW d \in Charges PROVE NetPaid(tx', d) <= charge'[d].due
    BY DEF NoOverCredit
  <2>1. NetPaid(tx', d) = NetPaid(tx, d) - IF tx[t].charge = d THEN amount ELSE 0
    BY <1>1, <1>2, <1>3, RefundBalance
  <2>2. NetPaid(tx, d) \in Nat /\ NetPaid(tx, d) <= charge[d].due /\ charge[d].due \in Nat
    BY <1>1, BalanceType DEF LedgerInv, NoOverCredit, TypeOK, ChargeRows
  <2> QED
    BY <1>5, <2>1, <2>2
<1>8. RefundsReconcile'
  <2> SUFFICES ASSUME NEW u \in TxIds
               PROVE  tx'[u].refunded = SucceededRefunds(u)' /\ tx'[u].refunded <= tx'[u].amount
    BY DEF RefundsReconcile
  <2>1. SucceededRefunds(u)' = SucceededRefunds(u) + IF t = u THEN amount ELSE 0
    BY OneMoreRefund DEF LedgerInv
  <2>2. tx[u].refunded = SucceededRefunds(u) /\ tx[u].refunded \in Nat
    BY <1>1 DEF LedgerInv, RefundsReconcile, TxRows
  <2> QED
    BY <1>1, <1>2, <2>1, <2>2
<1>9. RefundedSaysSo'
  BY <1>2 DEF LedgerInv, RefundedSaysSo
<1> QED
  BY <1>6, <1>7, <1>8, <1>9 DEF LedgerInv

-----------------------------------------------------------------------------
(* Every operation keeps the books.                                         *)

\* What an operation that leaves transactions and refunds alone must respect.
LEMMA ChargeOnly ==
    ASSUME LedgerInv, TypeOK', NEW c \in Charges, UNCHANGED <<tx, refund>>,
           charge'[c].status # "none", NetPaid(tx, c) <= charge'[c].due,
           \A d \in Charges \ {c} : charge'[d] = charge[d]
    PROVE  LedgerInv'
<1>1. RowsBelong'
  BY DEF LedgerInv, RowsBelong
<1>2. \A d \in Charges : NetPaid(tx, d) <= charge'[d].due
  BY DEF LedgerInv, NoOverCredit
<1>3. \A t \in TxIds : ~Credited(tx, t) => ~Credited(tx', t) /\ tx'[t].refunded = 0
  BY DEF LedgerInv, RefundedSaysSo, Credited, PaidStatus
<1> QED
  BY <1>1, <1>2, <1>3, NoMoneyMoves

\* What an operation that leaves charges and succeeded refunds alone must
\* respect: it changes one uncredited transaction and does not credit it.
LEMMA TransactionOnly ==
    ASSUME LedgerInv, TypeOK', UNCHANGED charge, NEW t \in TxIds, ~Credited(tx, t),
           tx'[t].status \in {"pending", "failed", "cancelled"}, tx'[t].refunded = 0,
           tx'[t].charge \in Charges, charge[tx'[t].charge].status # "none",
           \A u \in TxIds \ {t} : tx'[u] = tx[u], UNCHANGED refund
    PROVE  LedgerInv'
<1>1. RowsBelong'
  BY DEF LedgerInv, RowsBelong
<1>2. \A d \in Charges : NetPaid(tx, d) <= charge'[d].due
  BY DEF LedgerInv, NoOverCredit
<1>3. \A u \in TxIds : ~Credited(tx, u) => ~Credited(tx', u) /\ tx'[u].refunded = 0
  BY DEF LedgerInv, RefundedSaysSo, Credited, PaidStatus
<1>4. \A u \in TxIds : Credited(tx, u) => tx'[u] = tx[u]
  OBVIOUS
<1> QED
  BY <1>1, <1>2, <1>3, <1>4, NoMoneyMoves

\* A transaction in waiting, or a failed one, changes its status.
LEMMA UnpaidChange ==
    ASSUME LedgerInv, TypeOK', UNCHANGED <<charge, refund>>, NEW t \in TxIds,
           NEW s \in {"pending", "failed", "cancelled"},
           tx[t].status = "pending", tx' = [tx EXCEPT ![t].status = s]
    PROVE  LedgerInv'
<1>1. /\ tx'[t].status = s
      /\ tx'[t].charge = tx[t].charge
      /\ tx'[t].refunded = tx[t].refunded
      /\ \A u \in TxIds \ {t} : tx'[u] = tx[u]
  BY DEF LedgerInv, TypeOK, TxRows
<1>2. tx[t].refunded = 0 /\ tx[t].charge \in Charges /\ charge[tx[t].charge].status # "none"
  BY DEF LedgerInv, RefundedSaysSo, RowsBelong
<1>3. ~Credited(tx, t)
  BY DEF Credited, PaidStatus
<1> QED
  BY <1>1, <1>2, <1>3, TransactionOnly

\* No operation of the school or a parent breaks the books.
LEMMA SchoolKeepsBooks == ASSUME LedgerInv, TypeOK', SchoolStep PROVE LedgerInv'
<1>1. ASSUME NEW c \in Charges, NEW amount \in Amounts, NEW issued \in BOOLEAN,
             CreateCharge(c, amount, issued)
      PROVE  LedgerInv'
  <2>1. /\ charge'[c].status # "none"
        /\ charge'[c].due = amount
        /\ \A d \in Charges \ {c} : charge'[d] = charge[d]
    BY <1>1 DEF LedgerInv, TypeOK, CreateCharge
  <2>2. NetPaid(tx, c) <= 0
    BY <1>1 DEF CreateCharge, LedgerInv, RowsBelong, NoOverCredit, NoCharge
  <2>3. NetPaid(tx, c) <= charge'[c].due
    BY <2>1, <2>2, BalanceType DEF LedgerInv, TypeOK, Amounts
  <2> QED
    BY <1>1, <2>1, <2>3, ChargeOnly DEF CreateCharge
<1>2. ASSUME NEW c \in Charges, IssueCharge(c)
      PROVE  LedgerInv'
  <2>1. /\ charge'[c].status # "none"
        /\ charge'[c].due = charge[c].due
        /\ \A d \in Charges \ {c} : charge'[d] = charge[d]
    BY <1>2 DEF LedgerInv, TypeOK, IssueCharge, ChargeRows
  <2>2. NetPaid(tx, c) <= charge'[c].due
    BY <2>1 DEF LedgerInv, NoOverCredit
  <2> QED
    BY <1>2, <2>1, <2>2, ChargeOnly DEF IssueCharge
<1>3. ASSUME NEW c \in Charges, CancelCharge(c)
      PROVE  LedgerInv'
  <2>1. \A d \in Charges : /\ charge'[d].due = charge[d].due
                           /\ charge'[d].status # "none" \/ charge'[d] = charge[d]
                           /\ charge'[d].status = "none" => charge[d].status = "none"
    BY <1>3 DEF LedgerInv, TypeOK, CancelCharge, ChargeRows
  <2>2. \A t \in TxIds : /\ tx[t].status = "pending" \/ tx'[t] = tx[t]
                         /\ tx[t].status = "pending" => tx'[t].status \in {"pending", "cancelled"}
                         /\ tx'[t].charge = tx[t].charge
                         /\ tx'[t].refunded = tx[t].refunded
    BY <1>3 DEF LedgerInv, TypeOK, CancelCharge, PendingCancelled, TxRows
  <2>3. RowsBelong'
    BY <2>1, <2>2 DEF LedgerInv, RowsBelong
  <2>4. \A t \in TxIds : Credited(tx, t) => tx'[t] = tx[t]
    BY <2>2 DEF Credited, PaidStatus
  <2>5. \A t \in TxIds : ~Credited(tx, t) => ~Credited(tx', t) /\ tx'[t].refunded = 0
    BY <2>2 DEF LedgerInv, RefundedSaysSo, Credited, PaidStatus
  <2>6. \A d \in Charges : NetPaid(tx, d) <= charge'[d].due
    BY <2>1 DEF LedgerInv, NoOverCredit
  <2>7. refund' = refund
    BY <1>3 DEF CancelCharge
  <2> QED
    BY <2>3, <2>4, <2>5, <2>6, <2>7, NoMoneyMoves
<1>4. ASSUME NEW c \in Charges, NEW amount \in Amounts, ApplyChargeAdjustment(c, amount)
      PROVE  LedgerInv'
  <2> DEFINE s == IF charge[c].due - amount = 0 /\ NetPaid(tx, c) = 0 THEN "waived"
                  ELSE DeriveChargeStatus(charge[c].status, charge[c].due - amount,
                                          NetPaid(tx, c), Refunded(tx, c))
  <2>1. charge' = [charge EXCEPT ![c].due = charge[c].due - amount, ![c].status = s]
    BY <1>4 DEF ApplyChargeAdjustment
  <2>2. s # "none"
    BY <1>4 DEF ApplyChargeAdjustment, DeriveChargeStatus
  <2> HIDE DEF s
  <2>3. /\ charge'[c].status # "none"
        /\ charge'[c].due = charge[c].due - amount
        /\ \A d \in Charges \ {c} : charge'[d] = charge[d]
    BY <2>1, <2>2 DEF LedgerInv, TypeOK, ChargeRows
  <2>4. NetPaid(tx, c) <= charge'[c].due
    BY <1>4, <2>3, BalanceType DEF ApplyChargeAdjustment, LedgerInv, TypeOK, ChargeRows, Amounts
  <2> QED
    BY <1>4, <2>3, <2>4, ChargeOnly DEF ApplyChargeAdjustment
<1>5. ASSUME NEW c \in Charges, NEW amount \in Amounts, NEW key \in Keys \cup {None},
             RecordOfflinePayment(c, amount, key)
      PROVE  LedgerInv'
  <2> DEFINE row == TxRow(c, amount, key, "offline", "succeeded")
  <2>1. PICK t \in TxIds : /\ tx[t].status = "none"
                           /\ tx' = [tx EXCEPT ![t] = row]
                           /\ charge' = Refreshed(c, tx')
    BY <1>5 DEF RecordOfflinePayment, FreshTx
  <2>2. row \in TxRows
    BY TxRowType DEF Amounts, TxStatus
  <2>3. /\ row.status = "succeeded" /\ row.charge = c
        /\ row.refunded = 0 /\ row.amount = amount
    BY DEF TxRow
  <2> HIDE DEF row
  <2>4. tx'[t] = row /\ \A u \in TxIds \ {t} : tx'[u] = tx[u]
    BY <2>1 DEF LedgerInv, TypeOK
  <2>5. /\ charge[c].status # "none"
        /\ amount <= OutstandingMinor(charge[c].due, NetPaid(tx, c))
        /\ refund' = refund
    BY <1>5 DEF RecordOfflinePayment, ChargeIsPayable, Outstanding
  <2>6. ~Credited(tx, t)
    BY <2>1 DEF Credited, PaidStatus
  <2>7. charge' = Refreshed(c, tx')
    BY <2>1
  <2> QED
    BY <2>2, <2>3, <2>4, <2>5, <2>6, <2>7, MoneyComesIn
<1>6. ASSUME NEW c \in Charges, NEW amount \in Amounts, NEW key \in Keys \cup {None},
             CreateCheckoutSession(c, amount, key)
      PROVE  LedgerInv'
  <2>1. PICK t \in TxIds :
          /\ tx[t].status = "none"
          /\ tx' = [tx EXCEPT ![t] = TxRow(c, amount, key, "provider", "pending")]
    BY <1>6 DEF CreateCheckoutSession, FreshTx
  <2>2. /\ tx'[t].status = "pending" /\ tx'[t].refunded = 0 /\ tx'[t].charge = c
        /\ \A u \in TxIds \ {t} : tx'[u] = tx[u]
    BY <2>1 DEF LedgerInv, TypeOK, TxRow
  <2>3. charge[c].status # "none" /\ UNCHANGED <<charge, refund>>
    BY <1>6 DEF CreateCheckoutSession, ChargeIsPayable
  <2>4. ~Credited(tx, t)
    BY <2>1 DEF Credited, PaidStatus
  <2> QED
    BY <2>2, <2>3, <2>4, TransactionOnly
<1>7. ASSUME NEW t \in TxIds, NEW amount \in Amounts, NEW key \in Keys \cup {None},
             NEW answer \in RefundStatus, RequestRefund(t, amount, key, answer)
      PROVE  LedgerInv'
  <2>1. PICK r \in RefundIds :
          /\ refund[r].status = "none"
          /\ refund' = [refund EXCEPT ![r] =
                          [status |-> answer, tx |-> t, amount |-> amount, key |-> key]]
    BY <1>7 DEF RequestRefund, FreshRefund
  <2>2. /\ refund'[r].status = answer /\ refund'[r].tx = t /\ refund'[r].amount = amount
        /\ \A q \in RefundIds \ {r} : refund'[q] = refund[q]
    BY <2>1 DEF LedgerInv, TypeOK
  <2>3. CASE answer = "succeeded"
    <3>1. ApplySucceededRefund(t, amount) /\ Credited(tx, t)
      BY <1>7, <2>3 DEF RequestRefund, Credited, PaidStatus
    <3>2. refund[r].status # "succeeded" /\ refund'[r].status = "succeeded" /\ amount \in Nat
      BY <2>1, <2>2, <2>3 DEF Amounts
    <3> QED
      BY <2>2, <3>1, <3>2, MoneyGoesBack
  <2>4. CASE answer # "succeeded"
    <3>1. UNCHANGED <<charge, tx>>
      BY <1>7, <2>4 DEF RequestRefund
    <3>2. \A q \in RefundIds : refund'[q].status = "succeeded" <=> refund[q].status = "succeeded"
      BY <2>1, <2>2, <2>4
    <3>3. \A q \in RefundIds : refund[q].status = "succeeded" =>
            refund'[q].tx = refund[q].tx /\ refund'[q].amount = refund[q].amount
      BY <2>1, <2>2
    <3>4. RowsBelong' /\ \A d \in Charges : NetPaid(tx, d) <= charge'[d].due
      BY <3>1 DEF LedgerInv, RowsBelong, NoOverCredit
    <3>5. \A u \in TxIds : ~Credited(tx, u) => ~Credited(tx', u) /\ tx'[u].refunded = 0
      BY <3>1 DEF LedgerInv, RefundedSaysSo, Credited, PaidStatus
    <3>6. \A u \in TxIds : Credited(tx, u) => tx'[u] = tx[u]
      BY <3>1
    <3> QED
      BY <3>2, <3>3, <3>4, <3>5, <3>6, NoMoneyMoves
  <2> QED
    BY <2>3, <2>4
<1> QED
  BY <1>1, <1>2, <1>3, <1>4, <1>5, <1>6, <1>7 DEF SchoolStep

\* No event of the provider breaks the books, whatever it says and whenever
\* it comes.
LEMMA ProviderKeepsBooks ==
    ASSUME LedgerInv, TypeOK', NEW e \in Events, NEW res \in Results,
           SettleProviderEvent(e, res)
    PROVE  LedgerInv'
<1>1. e.tx \in TxIds /\ (e.kind = "payment" => e.outcome \in {"succeeded", "failed", "cancelled", "ignored"})
  BY DEF Events, PaymentEvents, RefundEvents
<1>2. CASE UNCHANGED ledgerVars
  BY <1>2 DEF ledgerVars, LedgerInv, TypeOK, RowsBelong, RefundedSaysSo, RefundsReconcile,
              NoOverCredit, SucceededRefunds
<1>3. CASE SettleMismatch(e, res) /\ tx' # tx
  <2>1. /\ tx[e.tx].status = "pending"
        /\ tx' = [tx EXCEPT ![e.tx].status = "failed"]
        /\ UNCHANGED <<charge, refund>>
    BY <1>3 DEF SettleMismatch
  <2> QED
    BY <1>1, <2>1, UnpaidChange
<1>4. CASE SettleRefunded(e, res) /\ ~UNCHANGED ledgerVars
  <2>1. PICK r \in PendingRefunds(e) :
          /\ Credited(tx, e.tx)
          /\ ApplySucceededRefund(e.tx, refund[r].amount)
          /\ refund' = [refund EXCEPT ![r].status = "succeeded"]
    BY <1>4 DEF SettleRefunded
  <2>2. r \in RefundIds /\ refund[r].tx = e.tx /\ refund[r].status = "pending"
    BY DEF PendingRefunds
  <2>3. /\ refund'[r].status = "succeeded" /\ refund'[r].tx = e.tx
        /\ refund'[r].amount = refund[r].amount /\ refund[r].amount \in Nat
        /\ \A q \in RefundIds \ {r} : refund'[q] = refund[q]
    BY <2>1, <2>2 DEF LedgerInv, TypeOK, RefundRows
  <2>4. refund[r].status # "succeeded"
    BY <2>2
  <2> QED
    BY <1>1, <2>1, <2>2, <2>3, <2>4, MoneyGoesBack
<1>5. CASE SettleRefundFailed(e, res)
  <2>1. \A r \in RefundIds :
          /\ refund'[r].status = "succeeded" <=> refund[r].status = "succeeded"
          /\ refund[r].status = "succeeded" => refund'[r] = refund[r]
    BY <1>5 DEF SettleRefundFailed, PendingRefunds, LedgerInv, TypeOK, RefundRows
  <2>2. UNCHANGED <<charge, tx>>
    BY <1>5 DEF SettleRefundFailed
  <2>3. RowsBelong' /\ \A d \in Charges : NetPaid(tx, d) <= charge'[d].due
    BY <2>2 DEF LedgerInv, RowsBelong, NoOverCredit
  <2>4. \A u \in TxIds : ~Credited(tx, u) => ~Credited(tx', u) /\ tx'[u].refunded = 0
    BY <2>2 DEF LedgerInv, RefundedSaysSo, Credited, PaidStatus
  <2>5. \A u \in TxIds : Credited(tx, u) => tx'[u] = tx[u]
    BY <2>2
  <2> QED
    BY <2>1, <2>3, <2>4, <2>5, NoMoneyMoves
<1>6. CASE SettleNotPaid(e, res) /\ tx' # tx
  <2>1. /\ tx[e.tx].status = "pending"
        /\ tx' = [tx EXCEPT ![e.tx].status = e.outcome]
        /\ e.outcome \in {"failed", "cancelled"}
        /\ UNCHANGED <<charge, refund>>
    BY <1>6 DEF SettleNotPaid, Unsettled
  <2> QED
    BY <1>1, <2>1, UnpaidChange
<1>7. CASE SettleNotPaid(e, res) /\ tx' = tx
  <2>1. UNCHANGED <<charge, tx, refund>>
    BY <1>7 DEF SettleNotPaid
  <2> QED
    BY <2>1 DEF LedgerInv, TypeOK, RowsBelong, RefundedSaysSo, RefundsReconcile,
                NoOverCredit, SucceededRefunds
<1>8. CASE SettleMismatch(e, res) /\ tx' = tx
  <2>1. UNCHANGED <<charge, tx, refund>>
    BY <1>8 DEF SettleMismatch
  <2> QED
    BY <2>1 DEF LedgerInv, TypeOK, RowsBelong, RefundedSaysSo, RefundsReconcile,
                NoOverCredit, SucceededRefunds
<1>9. CASE SettleCredit(e, res)
  <2> DEFINE c == tx[e.tx].charge
             row == [tx[e.tx] EXCEPT !.status = "succeeded"]
  <2>1. /\ tx[e.tx].status \in {"pending", "failed", "cancelled"}
        /\ ~(tx[e.tx].amount > Outstanding(c))
    BY <1>9 DEF SettleCredit, Refusal
  <2>2. /\ c \in Charges /\ charge[c].status # "none" /\ tx[e.tx].refunded = 0
        /\ tx[e.tx] \in TxRows
    BY <1>1, <2>1 DEF LedgerInv, RowsBelong, RefundedSaysSo, TypeOK
  <2>3. /\ row \in TxRows /\ row.status = "succeeded" /\ row.charge = c
        /\ row.refunded = 0 /\ row.amount = tx[e.tx].amount
    BY <2>2 DEF TxRows, TxStatus
  <2>4. /\ tx' = [tx EXCEPT ![e.tx].status = "succeeded"]
        /\ charge' = Refreshed(c, tx')
        /\ refund' = refund
    BY <1>9 DEF SettleCredit
  <2>5. tx'[e.tx] = row /\ \A u \in TxIds \ {e.tx} : tx'[u] = tx[u]
    BY <1>1, <2>4 DEF LedgerInv, TypeOK
  <2>6. ~Credited(tx, e.tx)
    BY <2>1 DEF Credited, PaidStatus
  <2>7. charge' = Refreshed(c, tx') /\ refund' = refund
    BY <2>4
  <2>8. ~(tx[e.tx].amount > OutstandingMinor(charge[c].due, NetPaid(tx, c)))
    BY <2>1 DEF Outstanding
  <2>9. OutstandingMinor(charge[c].due, NetPaid(tx, c)) \in Nat /\ tx[e.tx].amount \in Nat
    BY <2>2, BalanceType DEF OutstandingMinor, LedgerInv, TypeOK, ChargeRows, TxRows
  <2> HIDE DEF c, row
  <2>10. row.amount <= OutstandingMinor(charge[c].due, NetPaid(tx, c))
    BY <2>3, <2>8, <2>9
  <2> QED
    BY <1>1, <2>2, <2>3, <2>5, <2>6, <2>7, <2>10, MoneyComesIn
<1> QED
  BY <1>2, <1>3, <1>4, <1>5, <1>6, <1>7, <1>8, <1>9
  DEF SettleProviderEvent, SettleIgnored, SettleRefused

\* No step breaks the books.
LEMMA BooksStep == LedgerInv /\ [LedgerNext]_ledgerVars => LedgerInv'
<1> SUFFICES ASSUME LedgerInv, [LedgerNext]_ledgerVars PROVE LedgerInv'
  OBVIOUS
<1>1. TypeOK'
  BY TypeStep DEF LedgerInv
<1>2. CASE UNCHANGED ledgerVars
  BY <1>2 DEF ledgerVars, LedgerInv, TypeOK, RowsBelong, RefundedSaysSo, RefundsReconcile,
              NoOverCredit, SucceededRefunds
<1> QED
  BY <1>1, <1>2, SchoolKeepsBooks, ProviderKeepsBooks DEF LedgerNext

\* The empty ledger has its books in order.
LEMMA BooksOpen == LedgerInit => LedgerInv
<1> SUFFICES ASSUME LedgerInit PROVE LedgerInv
  OBVIOUS
<1>1. TypeOK
  BY DEF LedgerInit, TypeOK, NoCharge, NoTx, NoRefund, ChargeRows, TxRows, RefundRows,
         ChargeStatus, TxStatus, SessionStatus, RefundStatus
<1>2. RowsBelong /\ RefundedSaysSo
  BY DEF LedgerInit, RowsBelong, RefundedSaysSo, NoCharge, NoTx
<1>3. RefundsReconcile
  <2>1. \A t \in TxIds : tx[t].refunded = 0 /\ tx[t].amount = 0
    BY DEF LedgerInit, NoTx
  <2>2. \A t \in TxIds : SucceededRefunds(t) = 0
    <3> SUFFICES ASSUME NEW t \in TxIds PROVE SucceededRefunds(t) = 0
      OBVIOUS
    <3> DEFINE f == [r \in RefundIds |->
                       IF refund[r].tx = t /\ refund[r].status = "succeeded"
                       THEN refund[r].amount ELSE 0]
    <3>1. f \in [RefundIds -> Nat] /\ \A r \in RefundIds : f[r] = 0
      BY DEF LedgerInit, NoRefund
    <3>2. SucceededRefunds(t) = Total(f)
      BY DEF SucceededRefunds
    <3> HIDE DEF f
    <3> QED
      BY <3>1, <3>2, TotalOfZeros
  <2> QED
    BY <2>1, <2>2 DEF RefundsReconcile
<1>4. NoOverCredit
  <2> SUFFICES ASSUME NEW c \in Charges PROVE NetPaid(tx, c) <= charge[c].due
    BY DEF NoOverCredit
  <2>1. PaidColumn(tx, c) \in [TxIds -> Nat] /\ \A t \in TxIds : PaidColumn(tx, c)[t] = 0
    BY DEF LedgerInit, PaidColumn, PaidInto, Credited, PaidStatus, NoTx
  <2>2. GrossPaid(tx, c) = 0
    BY <2>1, TotalOfZeros DEF GrossPaid
  <2>3. NetPaid(tx, c) = 0
    BY <1>1, <2>2, BalanceType DEF NetPaid, TypeOK
  <2> QED
    BY <2>3 DEF LedgerInit, NoCharge
<1> QED
  BY <1>1, <1>2, <1>3, <1>4 DEF LedgerInv

\* The books hold in every state the ledger reaches.
THEOREM BooksHold == LedgerSpec => []LedgerInv
  BY BooksOpen, BooksStep, PTL DEF LedgerSpec

\* No charge is ever credited with more than is due on it, however many
\* checkouts of it are open and in whatever order they are paid.
THEOREM NeverOverCredited == LedgerSpec => []NoOverCredit
<1>1. LedgerInv => NoOverCredit
  BY DEF LedgerInv
<1> QED
  BY <1>1, BooksHold, PTL

\* What is recorded as refunded of a transaction is always the sum of its
\* succeeded refunds and never more than was paid.
THEOREM RefundsAlwaysReconcile == LedgerSpec => []RefundsReconcile
<1>1. LedgerInv => RefundsReconcile
  BY DEF LedgerInv
<1> QED
  BY <1>1, BooksHold, PTL

-----------------------------------------------------------------------------
(* A payment is booked once.                                                *)

\* The types with what BookedExactlyOnce says: inductive as it stands.
BookedInv == TypeOK /\ BookedExactlyOnce

\* A step that leaves the keys of all rows alone, and credits, receipts and
\* completed sessions where they are.
LEMMA NothingBooked ==
    ASSUME BookedInv, TypeOK', receipts' = receipts,
           \A t \in TxIds : Credited(tx', t) <=> Credited(tx, t),
           \A t \in TxIds : tx'[t].channel = tx[t].channel \/ ~Credited(tx, t),
           \A t \in TxIds : session'[t] = "completed" <=> session[t] = "completed",
           KeysNameOneRow'
    PROVE  BookedInv'
<1>1. ReceiptsAreExact'
  BY DEF BookedInv, BookedExactlyOnce, ReceiptsAreExact, Credited
<1> QED
  BY <1>1 DEF BookedInv, BookedExactlyOnce

\* One transaction is credited, with its receipt and the end of its session.
LEMMA OneBooked ==
    ASSUME BookedInv, TypeOK', NEW t \in TxIds, receipts' = receipts \cup {t},
           Credited(tx', t), \A u \in TxIds \ {t} : tx'[u] = tx[u],
           \A u \in TxIds \ {t} : session'[u] = session[u],
           session'[t] = "completed" <=> tx'[t].channel = "provider",
           KeysNameOneRow'
    PROVE  BookedInv'
<1>1. ReceiptsAreExact'
  BY DEF BookedInv, BookedExactlyOnce, ReceiptsAreExact, Credited
<1> QED
  BY <1>1 DEF BookedInv, BookedExactlyOnce

\* A row that is inserted with a key looked up before is the only one with it.
LEMMA NewTxKey ==
    ASSUME BookedInv, NEW t \in TxIds, NEW key, TxKeyFree(key), refund' = refund,
           tx'[t].key = key, \A u \in TxIds \ {t} : tx'[u] = tx[u]
    PROVE  KeysNameOneRow'
  BY DEF BookedInv, BookedExactlyOnce, KeysNameOneRow, TxKeyFree

\* The same of a refund.
LEMMA NewRefundKey ==
    ASSUME BookedInv, NEW r \in RefundIds, NEW key, RefundKeyFree(key),
           \A u \in TxIds : tx'[u].key = tx[u].key,
           refund'[r].key = key, \A q \in RefundIds \ {r} : refund'[q] = refund[q]
    PROVE  KeysNameOneRow'
  BY DEF BookedInv, BookedExactlyOnce, KeysNameOneRow, RefundKeyFree

\* No key changes.
LEMMA SameKeys ==
    ASSUME BookedInv, \A u \in TxIds : tx'[u].key = tx[u].key,
           \A q \in RefundIds : refund'[q].key = refund[q].key
    PROVE  KeysNameOneRow'
  BY DEF BookedInv, BookedExactlyOnce, KeysNameOneRow

\* Every operation and every provider event keeps it.
LEMMA BookedStep == BookedInv /\ [LedgerNext]_ledgerVars => BookedInv'
<1> SUFFICES ASSUME BookedInv, [LedgerNext]_ledgerVars PROVE BookedInv'
  OBVIOUS
<1>1. TypeOK'
  BY TypeStep DEF BookedInv
<1>2. ASSUME UNCHANGED <<tx, session, refund, receipts>>
      PROVE  BookedInv'
  BY <1>1, <1>2 DEF BookedInv, BookedExactlyOnce, ReceiptsAreExact, KeysNameOneRow, Credited
<1>3. ASSUME NEW c \in Charges, CancelCharge(c)
      PROVE  BookedInv'
  <2>1. /\ receipts' = receipts /\ refund' = refund
        /\ \A t \in TxIds : tx'[t].key = tx[t].key /\ tx'[t].channel = tx[t].channel
        /\ \A t \in TxIds : Credited(tx', t) <=> Credited(tx, t)
    BY <1>3 DEF CancelCharge, PendingCancelled, BookedInv, TypeOK, TxRows, Credited, PaidStatus
  <2>2. \A t \in TxIds : session'[t] = "completed" <=> session[t] = "completed"
    BY <1>3 DEF CancelCharge, OpenSessionsCancelled
  <2> QED
    BY <1>1, <2>1, <2>2, SameKeys, NothingBooked
<1>4. ASSUME NEW c \in Charges, NEW amount \in Amounts, NEW key \in Keys \cup {None},
             RecordOfflinePayment(c, amount, key)
      PROVE  BookedInv'
  <2>1. PICK t \in TxIds :
          /\ tx[t].status = "none"
          /\ tx' = [tx EXCEPT ![t] = TxRow(c, amount, key, "offline", "succeeded")]
          /\ receipts' = receipts \cup {t}
    BY <1>4 DEF RecordOfflinePayment, FreshTx, CreateReceipt
  <2>2. /\ tx'[t].key = key /\ tx'[t].channel = "offline" /\ Credited(tx', t)
        /\ \A u \in TxIds \ {t} : tx'[u] = tx[u]
    BY <2>1 DEF BookedInv, TypeOK, TxRow, Credited, PaidStatus
  <2>3. session'[t] # "completed"
    BY <1>4, <2>1 DEF RecordOfflinePayment, BookedInv, BookedExactlyOnce, ReceiptsAreExact,
                      Credited, PaidStatus
  <2>4. TxKeyFree(key) /\ session' = session /\ refund' = refund
    BY <1>4 DEF RecordOfflinePayment
  <2>5. KeysNameOneRow'
    BY <2>2, <2>4, NewTxKey
  <2> QED
    BY <1>1, <2>1, <2>2, <2>3, <2>4, <2>5, OneBooked
<1>5. ASSUME NEW c \in Charges, NEW amount \in Amounts, NEW key \in Keys \cup {None},
             CreateCheckoutSession(c, amount, key)
      PROVE  BookedInv'
  <2>1. PICK t \in TxIds :
          /\ tx[t].status = "none"
          /\ tx' = [tx EXCEPT ![t] = TxRow(c, amount, key, "provider", "pending")]
          /\ session' = [session EXCEPT ![t] = "open"]
    BY <1>5 DEF CreateCheckoutSession, FreshTx
  <2>2. /\ tx'[t].key = key /\ ~Credited(tx, t) /\ ~Credited(tx', t)
        /\ \A u \in TxIds \ {t} : tx'[u] = tx[u]
    BY <2>1 DEF BookedInv, TypeOK, TxRow, Credited, PaidStatus
  <2>3. \A u \in TxIds : session'[u] = "completed" <=> session[u] = "completed"
    BY <2>1, <2>2 DEF BookedInv, TypeOK, BookedExactlyOnce, ReceiptsAreExact
  <2>4. TxKeyFree(key) /\ refund' = refund /\ receipts' = receipts
    BY <1>5 DEF CreateCheckoutSession
  <2>5. KeysNameOneRow'
    BY <2>2, <2>4, NewTxKey
  <2>6. \A u \in TxIds : Credited(tx', u) <=> Credited(tx, u)
    BY <2>2 DEF Credited
  <2> QED
    BY <1>1, <2>2, <2>3, <2>4, <2>5, <2>6, NothingBooked
<1>6. ASSUME NEW t \in TxIds, NEW amount \in Nat, Credited(tx, t), ApplySucceededRefund(t, amount)
      PROVE  \A u \in TxIds : /\ Credited(tx', u) <=> Credited(tx, u)
                              /\ tx'[u].key = tx[u].key /\ tx'[u].channel = tx[u].channel
  BY <1>6 DEF ApplySucceededRefund, BookedInv, TypeOK, TxRows, Credited, PaidStatus
<1>7. ASSUME NEW t \in TxIds, NEW amount \in Amounts, NEW key \in Keys \cup {None},
             NEW answer \in RefundStatus, RequestRefund(t, amount, key, answer)
      PROVE  BookedInv'
  <2>1. PICK r \in RefundIds :
          refund' = [refund EXCEPT ![r] =
                       [status |-> answer, tx |-> t, amount |-> amount, key |-> key]]
    BY <1>7 DEF RequestRefund
  <2>2. /\ refund'[r].key = key
        /\ \A q \in RefundIds \ {r} : refund'[q] = refund[q]
    BY <2>1 DEF BookedInv, TypeOK
  <2>3. Credited(tx, t) /\ RefundKeyFree(key) /\ UNCHANGED <<session, receipts>>
    BY <1>7 DEF RequestRefund, Credited, PaidStatus
  <2>4. tx' = tx \/ ApplySucceededRefund(t, amount)
    BY <1>7 DEF RequestRefund
  <2>5. \A u \in TxIds : /\ Credited(tx', u) <=> Credited(tx, u)
                         /\ tx'[u].key = tx[u].key /\ tx'[u].channel = tx[u].channel
    BY <1>6, <2>3, <2>4 DEF Amounts
  <2>6. KeysNameOneRow'
    BY <2>2, <2>3, <2>5, NewRefundKey
  <2> QED
    BY <1>1, <2>3, <2>5, <2>6, NothingBooked
<1>8. ASSUME NEW e \in Events, NEW res \in Results, SettleProviderEvent(e, res)
      PROVE  BookedInv'
  <2>1. e.tx \in TxIds /\ tx[e.tx].channel = "provider"
    BY <1>8 DEF SettleProviderEvent, Events, PaymentEvents, RefundEvents
  <2>2. ASSUME NEW s \in {"failed", "cancelled"}, tx[e.tx].status = "pending",
               tx' = [tx EXCEPT ![e.tx].status = s], receipts' = receipts, refund' = refund,
               \A u \in TxIds : session'[u] = session[u] \/ (u = e.tx /\ session'[u] = s)
        PROVE  BookedInv'
    <3>1. \A u \in TxIds : /\ Credited(tx', u) <=> Credited(tx, u)
                           /\ tx'[u].key = tx[u].key /\ tx'[u].channel = tx[u].channel
      BY <2>1, <2>2 DEF BookedInv, TypeOK, TxRows, Credited, PaidStatus
    <3>2. session[e.tx] # "completed"
      BY <2>1, <2>2 DEF BookedInv, BookedExactlyOnce, ReceiptsAreExact, Credited, PaidStatus
    <3>3. \A u \in TxIds : session'[u] = "completed" <=> session[u] = "completed"
      BY <2>2, <3>2
    <3>4. KeysNameOneRow'
      BY <2>2, <3>1, SameKeys
    <3> QED
      BY <1>1, <2>2, <3>1, <3>3, <3>4, NothingBooked
  <2>3. CASE SettleMismatch(e, res)
    <3>1. CASE tx[e.tx].status = "pending"
      BY <2>2, <2>3, <3>1 DEF SettleMismatch
    <3>2. CASE tx[e.tx].status # "pending"
      BY <1>2, <2>3, <3>2 DEF SettleMismatch
    <3> QED
      BY <3>1, <3>2
  <2>4. CASE SettleIgnored(e, res) \/ SettleRefused(e, res)
    BY <1>2, <2>4 DEF SettleIgnored, SettleRefused, ledgerVars
  <2>5. CASE SettleRefunded(e, res)
    <3>1. CASE UNCHANGED ledgerVars
      BY <1>2, <3>1 DEF ledgerVars
    <3>2. CASE ~UNCHANGED ledgerVars
      <4>1. PICK r \in RefundIds :
              /\ Credited(tx, e.tx)
              /\ ApplySucceededRefund(e.tx, refund[r].amount)
              /\ refund' = [refund EXCEPT ![r].status = "succeeded"]
              /\ UNCHANGED <<session, receipts>>
        BY <2>5, <3>2 DEF SettleRefunded, PendingRefunds
      <4>2. refund[r].amount \in Nat /\ \A q \in RefundIds : refund'[q].key = refund[q].key
        BY <4>1 DEF BookedInv, TypeOK, RefundRows
      <4>3. \A u \in TxIds : /\ Credited(tx', u) <=> Credited(tx, u)
                             /\ tx'[u].key = tx[u].key /\ tx'[u].channel = tx[u].channel
        BY <1>6, <2>1, <4>1, <4>2
      <4> QED
        BY <1>1, <4>1, <4>2, <4>3, SameKeys, NothingBooked
    <3> QED
      BY <3>1, <3>2
  <2>6. CASE SettleRefundFailed(e, res)
    <3>1. \A q \in RefundIds : refund'[q].key = refund[q].key
      BY <2>6 DEF SettleRefundFailed, BookedInv, TypeOK, RefundRows
    <3>2. UNCHANGED <<tx, session, receipts>>
      BY <2>6 DEF SettleRefundFailed
    <3> QED
      BY <1>1, <3>1, <3>2, SameKeys, NothingBooked
  <2>7. CASE SettleNotPaid(e, res)
    <3>1. CASE tx[e.tx].status = "pending"
      <4>1. /\ e.outcome \in {"failed", "cancelled"}
            /\ tx' = [tx EXCEPT ![e.tx].status = e.outcome]
            /\ session' = [session EXCEPT ![e.tx] = e.outcome]
            /\ UNCHANGED <<refund, receipts>>
        BY <2>7, <3>1 DEF SettleNotPaid, Unsettled
      <4>2. \A u \in TxIds : session'[u] = session[u] \/ (u = e.tx /\ session'[u] = e.outcome)
        BY <2>1, <4>1 DEF BookedInv, TypeOK
      <4> QED
        BY <2>2, <3>1, <4>1, <4>2
    <3>2. CASE tx[e.tx].status # "pending"
      BY <1>2, <2>7, <3>2 DEF SettleNotPaid, Unsettled
    <3> QED
      BY <3>1, <3>2
  <2>8. CASE SettleCredit(e, res)
    <3>1. /\ receipts' = receipts \cup {e.tx} /\ refund' = refund
          /\ tx' = [tx EXCEPT ![e.tx].status = "succeeded"]
          /\ session' = [session EXCEPT ![e.tx] = "completed"]
      BY <2>8 DEF SettleCredit, CreateReceipt
    <3>2. /\ Credited(tx', e.tx) /\ tx'[e.tx].channel = "provider"
          /\ session'[e.tx] = "completed"
          /\ \A u \in TxIds \ {e.tx} : tx'[u] = tx[u] /\ session'[u] = session[u]
          /\ \A u \in TxIds : tx'[u].key = tx[u].key
      BY <2>1, <3>1 DEF BookedInv, TypeOK, TxRows, Credited, PaidStatus
    <3>3. KeysNameOneRow'
      BY <3>1, <3>2, SameKeys
    <3> QED
      BY <1>1, <2>1, <3>1, <3>2, <3>3, OneBooked
  <2> QED
    BY <1>8, <2>3, <2>4, <2>5, <2>6, <2>7, <2>8 DEF SettleProviderEvent
<1>9. CASE UNCHANGED ledgerVars
  BY <1>2, <1>9 DEF ledgerVars
<1> QED
  BY <1>2, <1>3, <1>4, <1>5, <1>7, <1>8, <1>9
  DEF LedgerNext, SchoolStep, CreateCharge, IssueCharge, ApplyChargeAdjustment

\* However a payment comes in, late, twice or with a request repeated, it is
\* booked once: one receipt for each credited transaction, a session is
\* completed when its payment was credited, one row for each idempotency key.
THEOREM BookedOnce == LedgerSpec => []BookedExactlyOnce
<1>1. LedgerInit => BookedInv
  <2> SUFFICES ASSUME LedgerInit PROVE BookedInv
    OBVIOUS
  <2>1. TypeOK
    BY DEF LedgerInit, TypeOK, NoCharge, NoTx, NoRefund, ChargeRows, TxRows, RefundRows,
           ChargeStatus, TxStatus, SessionStatus, RefundStatus
  <2>2. ReceiptsAreExact
    BY DEF LedgerInit, ReceiptsAreExact, Credited, PaidStatus, NoTx
  <2>3. KeysNameOneRow
    BY DEF LedgerInit, KeysNameOneRow, NoTx, NoRefund
  <2> QED
    BY <2>1, <2>2, <2>3 DEF BookedInv, BookedExactlyOnce
<1>2. BookedInv => BookedExactlyOnce
  BY DEF BookedInv
<1> QED
  BY <1>1, <1>2, BookedStep, PTL DEF LedgerSpec

-----------------------------------------------------------------------------
(* What a step does to the money.                                           *)

\* Nothing is charged, paid or refunded by nothing.
AmountsArePositive ==
    /\ \A c \in Charges : charge[c].status = "draft" => charge[c].due > 0
    /\ \A t \in TxIds : tx[t].status # "none" => tx[t].amount > 0
    /\ \A r \in RefundIds : refund[r].status # "none" => refund[r].amount > 0

\* The inductive invariant behind StatusesAgree: a status tells the money because
\* the books hold, and because each amount counts.
StatusInv == LedgerInv /\ AmountsArePositive /\ StatusesAgree

\* No transaction becomes credited, no credited one changes, and none is opened
\* again, nor made for a charge that cannot be paid.
MoneyRests ==
    /\ \A t \in TxIds : Credited(tx, t) => tx'[t] = tx[t]
    /\ \A t \in TxIds : ~Credited(tx, t) => ~Credited(tx', t)
    /\ \A t \in TxIds :
         \/ /\ tx'[t].charge = tx[t].charge
            /\ tx'[t].status = "pending" => tx[t].status = "pending"
            /\ session'[t] = "open" => session[t] = "open"
         \/ /\ tx'[t].charge \in Charges
            /\ charge[tx'[t].charge].status \in {"issued", "partially_paid"}

\* Nor does a charge change, nor a refund succeed.
NothingHappens ==
    /\ MoneyRests
    /\ UNCHANGED charge
    /\ \A r \in RefundIds : refund'[r].status = "succeeded" => refund[r].status = "succeeded"

\* Transaction t is credited to charge c.
MoneyIn(c, t) ==
    /\ charge[c].status \in {"issued", "partially_paid", "paid", "refunded"}
    /\ ~Credited(tx, t) /\ Credited(tx', t)
    /\ tx'[t].charge = c /\ tx'[t].refunded = 0 /\ tx'[t].amount > 0
    /\ tx'[t].amount <= OutstandingMinor(charge[c].due, NetPaid(tx, c))
    /\ \A u \in TxIds \ {t} : tx'[u] = tx[u] /\ session'[u] = session[u]
    /\ charge' = Refreshed(c, tx')
    /\ UNCHANGED refund

\* Refund r of transaction t succeeds, of charge c.
MoneyOut(c, t, r) ==
    /\ Credited(tx, t) /\ tx[t].charge = c
    /\ refund[r].status # "succeeded" /\ refund'[r].status = "succeeded"
    /\ refund'[r].tx = t /\ refund'[r].amount \in Nat \ {0}
    /\ \A q \in RefundIds \ {r} : refund'[q] = refund[q]
    /\ ApplySucceededRefund(t, refund'[r].amount)
    /\ UNCHANGED session

\* Every step is one of seven kinds.
LEMMA StepKinds ==
    ASSUME StatusInv, LedgerNext
    PROVE  \/ \E c \in Charges, amount \in Amounts, issued \in BOOLEAN :
                CreateCharge(c, amount, issued)
           \/ \E c \in Charges : IssueCharge(c)
           \/ \E c \in Charges : CancelCharge(c)
           \/ \E c \in Charges, amount \in Amounts : ApplyChargeAdjustment(c, amount)
           \/ NothingHappens
           \/ \E c \in Charges, t \in TxIds : MoneyIn(c, t)
           \/ \E c \in Charges, t \in TxIds, r \in RefundIds : MoneyOut(c, t, r)
<1> USE DEF StatusInv, LedgerInv
<1>1. ASSUME NEW c \in Charges, NEW amount \in Amounts, NEW key \in Keys \cup {None},
             RecordOfflinePayment(c, amount, key)
      PROVE  \E t \in TxIds : MoneyIn(c, t)
  <2>1. PICK t \in TxIds :
          /\ tx[t].status = "none"
          /\ tx' = [tx EXCEPT ![t] = TxRow(c, amount, key, "offline", "succeeded")]
          /\ charge' = Refreshed(c, tx')
    BY <1>1 DEF RecordOfflinePayment, FreshTx
  <2>2. /\ tx'[t].status = "succeeded" /\ tx'[t].charge = c
        /\ tx'[t].refunded = 0 /\ tx'[t].amount = amount
        /\ \A u \in TxIds \ {t} : tx'[u] = tx[u]
    BY <2>1 DEF TypeOK, TxRow
  <2>3. /\ charge[c].status \in {"issued", "partially_paid"}
        /\ amount <= OutstandingMinor(charge[c].due, NetPaid(tx, c))
        /\ UNCHANGED <<session, refund>>
    BY <1>1 DEF RecordOfflinePayment, ChargeIsPayable, Outstanding
  <2>4. ~Credited(tx, t) /\ Credited(tx', t) /\ amount > 0
    BY <2>1, <2>2 DEF Credited, PaidStatus, Amounts
  <2>5. MoneyIn(c, t)
    BY <2>1, <2>2, <2>3, <2>4 DEF MoneyIn
  <2> QED
    BY <2>5
<1>2. ASSUME NEW c \in Charges, NEW amount \in Amounts, NEW key \in Keys \cup {None},
             CreateCheckoutSession(c, amount, key)
      PROVE  NothingHappens
  <2>1. PICK t \in TxIds :
          /\ tx[t].status = "none"
          /\ tx' = [tx EXCEPT ![t] = TxRow(c, amount, key, "provider", "pending")]
          /\ session' = [session EXCEPT ![t] = "open"]
    BY <1>2 DEF CreateCheckoutSession, FreshTx
  <2>2. /\ tx'[t].status = "pending" /\ tx'[t].charge = c
        /\ \A u \in TxIds \ {t} : tx'[u] = tx[u] /\ session'[u] = session[u]
    BY <2>1 DEF TypeOK, TxRow
  <2>3. charge[c].status \in {"issued", "partially_paid"} /\ UNCHANGED <<charge, refund>>
    BY <1>2 DEF CreateCheckoutSession, ChargeIsPayable
  <2>4. \A u \in TxIds : /\ Credited(tx, u) => tx'[u] = tx[u]
                         /\ ~Credited(tx, u) => ~Credited(tx', u)
    BY <2>1, <2>2 DEF Credited, PaidStatus
  <2> QED
    BY <2>2, <2>3, <2>4 DEF NothingHappens, MoneyRests
<1>3. ASSUME NEW t \in TxIds, NEW amount \in Amounts, NEW key \in Keys \cup {None},
             NEW answer \in RefundStatus, RequestRefund(t, amount, key, answer)
      PROVE  \/ NothingHappens
             \/ \E c \in Charges, r \in RefundIds : MoneyOut(c, t, r)
  <2>1. PICK r \in RefundIds :
          /\ refund[r].status = "none"
          /\ refund' = [refund EXCEPT ![r] =
                          [status |-> answer, tx |-> t, amount |-> amount, key |-> key]]
    BY <1>3 DEF RequestRefund, FreshRefund
  <2>2. /\ refund'[r].status = answer /\ refund'[r].tx = t /\ refund'[r].amount = amount
        /\ \A q \in RefundIds \ {r} : refund'[q] = refund[q]
    BY <2>1 DEF TypeOK
  <2>3. CASE answer = "succeeded"
    <3>1. /\ ApplySucceededRefund(t, amount) /\ Credited(tx, t)
          /\ amount \in Nat \ {0} /\ UNCHANGED session
      BY <1>3, <2>3 DEF RequestRefund, Credited, PaidStatus, Amounts
    <3>2. tx[t].charge \in Charges
      BY <3>1 DEF RowsBelong, Credited, PaidStatus
    <3>3. MoneyOut(tx[t].charge, t, r)
      BY <2>1, <2>2, <2>3, <3>1 DEF MoneyOut
    <3> QED
      BY <3>2, <3>3
  <2>4. CASE answer # "succeeded"
    BY <1>3, <2>2, <2>4 DEF RequestRefund, NothingHappens, MoneyRests, Credited
  <2> QED
    BY <2>3, <2>4
<1>4. ASSUME NEW e \in Events, NEW res \in Results, SettleProviderEvent(e, res)
      PROVE  \/ NothingHappens
             \/ \E c \in Charges, t \in TxIds : MoneyIn(c, t)
             \/ \E c \in Charges, t \in TxIds, r \in RefundIds : MoneyOut(c, t, r)
  <2>1. e.tx \in TxIds
    BY DEF Events, PaymentEvents, RefundEvents
  <2>2. ASSUME NEW s \in {"failed", "cancelled"}, tx[e.tx].status = "pending",
               tx' = [tx EXCEPT ![e.tx].status = s], UNCHANGED <<charge, refund>>,
               \A u \in TxIds : session'[u] = "open" => session[u] = "open"
        PROVE  NothingHappens
    <3>1. /\ tx'[e.tx].status = s /\ tx'[e.tx].charge = tx[e.tx].charge
          /\ \A u \in TxIds \ {e.tx} : tx'[u] = tx[u]
      BY <2>1, <2>2 DEF TypeOK, TxRows
    <3>2. ~Credited(tx, e.tx) /\ ~Credited(tx', e.tx)
      BY <2>2, <3>1 DEF Credited, PaidStatus
    <3> QED
      BY <2>2, <3>1, <3>2 DEF NothingHappens, MoneyRests, Credited
  <2>3. ASSUME UNCHANGED <<charge, tx, session>>,
               \A r \in RefundIds : refund'[r].status = "succeeded" => refund[r].status = "succeeded"
        PROVE  NothingHappens
    BY <2>3 DEF NothingHappens, MoneyRests, Credited
  <2>4. CASE SettleMismatch(e, res)
    <3>1. CASE tx[e.tx].status = "pending"
      BY <2>2, <2>4, <3>1 DEF SettleMismatch
    <3>2. CASE tx[e.tx].status # "pending"
      BY <2>3, <2>4, <3>2 DEF SettleMismatch
    <3> QED
      BY <3>1, <3>2
  <2>5. CASE SettleIgnored(e, res) \/ SettleRefused(e, res)
    BY <2>3, <2>5 DEF SettleIgnored, SettleRefused, ledgerVars
  <2>6. CASE SettleRefunded(e, res)
    <3>1. CASE UNCHANGED ledgerVars
      BY <2>3, <3>1 DEF ledgerVars
    <3>2. CASE ~UNCHANGED ledgerVars
      <4>1. PICK r \in PendingRefunds(e) :
              /\ Credited(tx, e.tx)
              /\ ApplySucceededRefund(e.tx, refund[r].amount)
              /\ refund' = [refund EXCEPT ![r].status = "succeeded"]
              /\ UNCHANGED session
        BY <2>6, <3>2 DEF SettleRefunded
      <4>2. r \in RefundIds /\ refund[r].tx = e.tx /\ refund[r].status = "pending"
        BY DEF PendingRefunds
      <4>3. /\ refund'[r].status = "succeeded" /\ refund'[r].tx = e.tx
            /\ refund'[r].amount = refund[r].amount /\ refund[r].amount \in Nat \ {0}
            /\ \A q \in RefundIds \ {r} : refund'[q] = refund[q]
        BY <4>1, <4>2 DEF TypeOK, RefundRows, AmountsArePositive
      <4>4. tx[e.tx].charge \in Charges
        BY <2>1, <4>1 DEF RowsBelong, Credited, PaidStatus
      <4>5. refund[r].status # "succeeded"
        BY <4>2
      <4>6. MoneyOut(tx[e.tx].charge, e.tx, r)
        BY <4>1, <4>3, <4>5 DEF MoneyOut
      <4> QED
        BY <2>1, <4>2, <4>4, <4>6
    <3> QED
      BY <3>1, <3>2
  <2>7. CASE SettleRefundFailed(e, res)
    <3>1. \A r \in RefundIds : refund'[r].status = "succeeded" => refund[r].status = "succeeded"
      BY <2>7 DEF SettleRefundFailed, TypeOK, RefundRows
    <3> QED
      BY <2>3, <2>7, <3>1 DEF SettleRefundFailed
  <2>8. CASE SettleNotPaid(e, res)
    <3>1. CASE tx[e.tx].status = "pending"
      <4>1. /\ e.outcome \in {"failed", "cancelled"}
            /\ tx' = [tx EXCEPT ![e.tx].status = e.outcome]
            /\ session' = [session EXCEPT ![e.tx] = e.outcome]
            /\ UNCHANGED <<charge, refund>>
        BY <2>8, <3>1 DEF SettleNotPaid, Unsettled
      <4>2. \A u \in TxIds : session'[u] = "open" => session[u] = "open"
        BY <4>1 DEF TypeOK
      <4> QED
        BY <2>2, <3>1, <4>1, <4>2
    <3>2. CASE tx[e.tx].status # "pending"
      BY <2>3, <2>8, <3>2 DEF SettleNotPaid, Unsettled
    <3> QED
      BY <3>1, <3>2
  <2>9. CASE SettleCredit(e, res)
    <3> DEFINE c == tx[e.tx].charge
    <3>1. /\ tx[e.tx].status \in {"pending", "failed", "cancelled"}
          /\ charge[c].status \notin {"cancelled", "waived"}
          /\ ~(tx[e.tx].amount > OutstandingMinor(charge[c].due, NetPaid(tx, c)))
      BY <2>9 DEF SettleCredit, Refusal, Outstanding
    <3>2. /\ tx' = [tx EXCEPT ![e.tx].status = "succeeded"]
          /\ session' = [session EXCEPT ![e.tx] = "completed"]
          /\ charge' = Refreshed(c, tx') /\ UNCHANGED refund
      BY <2>9 DEF SettleCredit
    <3>3. /\ c \in Charges /\ charge[c].status # "none" /\ tx[e.tx].refunded = 0
          /\ tx[e.tx].amount \in Nat \ {0}
      BY <2>1, <3>1 DEF RowsBelong, RefundedSaysSo, TypeOK, AmountsArePositive, TxRows
    <3>4. charge[c].status \in {"issued", "partially_paid", "paid", "refunded"}
      <4>1. charge[c].status # "draft"
        BY <2>1, <3>3 DEF StatusesAgree, StatusTellsTheMoney, StatusFits
      <4>2. charge[c].status \in ChargeStatus
        BY <3>3 DEF TypeOK, ChargeRows
      <4> QED
        BY <3>1, <3>3, <4>1, <4>2 DEF ChargeStatus
    <3>5. tx[e.tx].amount <= OutstandingMinor(charge[c].due, NetPaid(tx, c))
      <4>1. OutstandingMinor(charge[c].due, NetPaid(tx, c)) \in Nat
        BY <3>3, BalanceType DEF OutstandingMinor, TypeOK, ChargeRows
      <4> QED
        BY <3>1, <3>3, <4>1
    <3>6. /\ tx'[e.tx].status = "succeeded" /\ tx'[e.tx].charge = c
          /\ tx'[e.tx].refunded = 0 /\ tx'[e.tx].amount = tx[e.tx].amount
          /\ \A u \in TxIds \ {e.tx} : tx'[u] = tx[u] /\ session'[u] = session[u]
      BY <2>1, <3>2, <3>3 DEF TypeOK, TxRows
    <3>7. ~Credited(tx, e.tx) /\ Credited(tx', e.tx)
      BY <3>1, <3>6 DEF Credited, PaidStatus
    <3> HIDE DEF c
    <3>8. MoneyIn(c, e.tx)
      BY <3>2, <3>3, <3>4, <3>5, <3>6, <3>7 DEF MoneyIn
    <3> QED
      BY <2>1, <3>3, <3>8
  <2> QED
    BY <1>4, <2>4, <2>5, <2>6, <2>7, <2>8, <2>9 DEF SettleProviderEvent
<1> QED
  BY <1>1, <1>2, <1>3, <1>4 DEF LedgerNext, SchoolStep

\* The balance of every charge stays when money rests.
LEMMA RestBalance ==
    ASSUME TypeOK, TypeOK', MoneyRests, NEW c
    PROVE  NetPaid(tx', c) = NetPaid(tx, c) /\ Refunded(tx', c) = Refunded(tx, c)
<1>1. tx \in [TxIds -> TxRows] /\ tx' \in [TxIds -> TxRows]
  BY DEF TypeOK
<1>2. /\ \A u \in TxIds : PaidInto(tx', c, u) <=> PaidInto(tx, c, u)
      /\ \A u \in TxIds : PaidInto(tx, c, u) =>
           tx'[u].amount = tx[u].amount /\ tx'[u].refunded = tx[u].refunded
  BY DEF MoneyRests, PaidInto, Credited
<1> QED
  BY <1>1, <1>2, SameBalance

\* A refreshed charge has a new status and keeps its amounts.
LEMMA RefreshedRow ==
    ASSUME TypeOK, NEW c \in Charges, NEW txs
    PROVE  /\ Refreshed(c, txs)[c].status =
                DeriveChargeStatus(charge[c].status, charge[c].due, NetPaid(txs, c),
                                   Refunded(txs, c))
           /\ Refreshed(c, txs)[c].due = charge[c].due
           /\ \A d \in Charges \ {c} : Refreshed(c, txs)[d] = charge[d]
<1> DEFINE s == DeriveChargeStatus(charge[c].status, charge[c].due, NetPaid(txs, c),
                                   Refunded(txs, c))
<1>1. Refreshed(c, txs) = [charge EXCEPT ![c].status = s]
  BY DEF Refreshed
<1> HIDE DEF s
<1>2. charge \in [Charges -> ChargeRows]
  BY DEF TypeOK
<1>3. /\ Refreshed(c, txs)[c].status = s
      /\ Refreshed(c, txs)[c].due = charge[c].due
      /\ \A d \in Charges \ {c} : Refreshed(c, txs)[d] = charge[d]
  BY <1>1, <1>2 DEF ChargeRows
<1> QED
  BY <1>3 DEF s

\* A credit raises the balance of its charge by the whole amount, to no more than
\* what is due, and no other balance.
LEMMA InBalance ==
    ASSUME LedgerInv, TypeOK', NEW c \in Charges, NEW t \in TxIds, MoneyIn(c, t)
    PROVE  /\ NetPaid(tx', c) = NetPaid(tx, c) + tx'[t].amount
           /\ tx'[t].amount \in Nat \ {0}
           /\ NetPaid(tx, c) \in Nat
           /\ NetPaid(tx', c) <= charge[c].due
           /\ Refunded(tx', c) \in Nat /\ Refunded(tx', c) = Refunded(tx, c)
           /\ \A d \in Charges \ {c} :
                NetPaid(tx', d) = NetPaid(tx, d) /\ Refunded(tx', d) = Refunded(tx, d)
<1>1. /\ tx \in [TxIds -> TxRows] /\ tx' \in [TxIds -> TxRows]
      /\ \A u \in TxIds : tx[u].refunded <= tx[u].amount
      /\ tx'[t].amount \in Nat \ {0} /\ charge[c].due \in Nat
  BY DEF LedgerInv, TypeOK, RefundsReconcile, TxRows, ChargeRows, MoneyIn
<1>2. NetPaid(tx', c) = NetPaid(tx, c) + tx'[t].amount
  <2>1. /\ \A u \in TxIds \ {t} : tx'[u] = tx[u]
        /\ ~Credited(tx, t) /\ Credited(tx', t) /\ tx'[t].refunded = 0 /\ tx'[t].charge = c
    BY DEF MoneyIn
  <2> QED
    BY <1>1, <2>1, CreditBalance
<1>3. NetPaid(tx, c) \in Nat /\ Refunded(tx', c) \in Nat
  BY <1>1, BalanceType
<1>4. NetPaid(tx', c) <= charge[c].due
  BY <1>1, <1>2, <1>3 DEF MoneyIn, OutstandingMinor
<1>5. ASSUME NEW d \in Charges \ {c}
      PROVE  NetPaid(tx', d) = NetPaid(tx, d) /\ Refunded(tx', d) = Refunded(tx, d)
  <2>1. /\ \A u \in TxIds : PaidInto(tx', d, u) <=> PaidInto(tx, d, u)
        /\ \A u \in TxIds : PaidInto(tx, d, u) => tx'[u] = tx[u]
    BY DEF MoneyIn, PaidInto, Credited
  <2> QED
    BY <1>1, <2>1, SameBalance
<1>6. Refunded(tx', c) = Refunded(tx, c)
  <2>1. \A u \in TxIds : (IF PaidInto(tx', c, u) THEN tx'[u].refunded ELSE 0)
                           = IF PaidInto(tx, c, u) THEN tx[u].refunded ELSE 0
    BY DEF MoneyIn, PaidInto, Credited
  <2>2. RefundedColumn(tx', c) = RefundedColumn(tx, c)
    BY <2>1 DEF RefundedColumn
  <2> QED
    BY <2>2 DEF Refunded
<1> QED
  BY <1>1, <1>2, <1>3, <1>4, <1>5, <1>6

\* A refund lowers the balance of its charge by its amount, and no other.
LEMMA OutBalance ==
    ASSUME LedgerInv, TypeOK', NEW c \in Charges, NEW t \in TxIds, NEW r \in RefundIds,
           MoneyOut(c, t, r)
    PROVE  /\ NetPaid(tx', c) = NetPaid(tx, c) - refund'[r].amount
           /\ NetPaid(tx, c) \in Nat /\ NetPaid(tx', c) \in Nat
           /\ refund'[r].amount \in Nat \ {0}
           /\ Refunded(tx', c) \in Nat \ {0}
           /\ \A d \in Charges \ {c} :
                NetPaid(tx', d) = NetPaid(tx, d) /\ Refunded(tx', d) = Refunded(tx, d)
           /\ \A u \in TxIds \ {t} : tx'[u] = tx[u]
           /\ Credited(tx', t) /\ tx'[t].charge = c /\ tx'[t].amount = tx[t].amount
           /\ tx'[t].refunded = tx[t].refunded + refund'[r].amount
           /\ charge' = Refreshed(c, tx')
<1>1. /\ tx \in [TxIds -> TxRows] /\ tx' \in [TxIds -> TxRows]
      /\ \A u \in TxIds : tx[u].refunded <= tx[u].amount
      /\ tx[t].refunded \in Nat /\ refund'[r].amount \in Nat \ {0}
      /\ Credited(tx, t) /\ tx[t].charge = c
      /\ ApplySucceededRefund(t, refund'[r].amount)
  BY DEF LedgerInv, TypeOK, RefundsReconcile, TxRows, MoneyOut
<1> DEFINE amount == refund'[r].amount
<1>2. /\ \A u \in TxIds \ {t} : tx'[u] = tx[u]
      /\ tx'[t].charge = c /\ tx'[t].amount = tx[t].amount
      /\ tx'[t].refunded = tx[t].refunded + amount
      /\ tx'[t].status \in {"refunded", "partially_refunded"}
      /\ tx[t].refunded + amount <= tx[t].amount
      /\ charge' = Refreshed(c, tx')
  BY <1>1 DEF ApplySucceededRefund, CanApplyRefund, TxRows
<1>3. Credited(tx', t)
  BY <1>2 DEF Credited, PaidStatus
<1>4. NetPaid(tx', c) = NetPaid(tx, c) - amount
  BY <1>1, <1>2, <1>3, RefundBalance
<1>5. NetPaid(tx, c) \in Nat /\ NetPaid(tx', c) \in Nat
  BY <1>1, BalanceType
<1>6. Refunded(tx', c) \in Nat \ {0}
  <2>1. RefundedColumn(tx', c) \in [TxIds -> Nat] /\ Refunded(tx', c) \in Nat
    BY <1>1, BalanceType
  <2>2. RefundedColumn(tx', c)[t] = tx[t].refunded + amount
    BY <1>2, <1>3 DEF RefundedColumn, PaidInto
  <2>3. RefundedColumn(tx', c)[t] <= Refunded(tx', c)
    BY <2>1, TxIdsFinite, RowAtMostTotal DEF Refunded
  <2> QED
    BY <1>1, <2>1, <2>2, <2>3
<1>7. ASSUME NEW d \in Charges \ {c}
      PROVE  NetPaid(tx', d) = NetPaid(tx, d) /\ Refunded(tx', d) = Refunded(tx, d)
  <2>1. /\ \A u \in TxIds : PaidInto(tx', d, u) <=> PaidInto(tx, d, u)
        /\ \A u \in TxIds : PaidInto(tx, d, u) => tx'[u] = tx[u]
    BY <1>1, <1>2 DEF PaidInto, Credited
  <2> QED
    BY <1>1, <2>1, SameBalance
<1> QED
  BY <1>1, <1>2, <1>3, <1>4, <1>5, <1>6, <1>7

-----------------------------------------------------------------------------
(* Statuses.                                                                *)

\* What deriveChargeStatus says of a charge that is neither a draft nor closed,
\* nor waived, on which something is due.
LEMMA DerivedFits ==
    ASSUME NEW s \in {"issued", "partially_paid", "paid", "refunded"}, NEW due \in Nat \ {0},
           NEW net \in Nat, NEW back \in Nat, net <= due
    PROVE  LET d == DeriveChargeStatus(s, due, net, back) IN
           /\ d \in {"issued", "partially_paid", "paid", "refunded"}
           /\ d = "paid" <=> net > 0 /\ net = due
           /\ d = "partially_paid" <=> net > 0 /\ net < due
           /\ d = "refunded" => net = 0 /\ back > 0
           /\ d = "issued" => net = 0 /\ back = 0
  BY DEF DeriveChargeStatus

\* A charge without transactions has no balance.
LEMMA NoBalance ==
    ASSUME TypeOK, NEW c, \A t \in TxIds : tx[t].charge # c
    PROVE  NetPaid(tx, c) = 0 /\ Refunded(tx, c) = 0
<1>1. /\ PaidColumn(tx, c) \in [TxIds -> Nat] /\ RefundedColumn(tx, c) \in [TxIds -> Nat]
      /\ \A t \in TxIds : PaidColumn(tx, c)[t] = 0 /\ RefundedColumn(tx, c)[t] = 0
  BY BalanceType DEF TypeOK, PaidColumn, RefundedColumn, PaidInto
<1>2. GrossPaid(tx, c) = 0 /\ Refunded(tx, c) = 0
  BY <1>1, TotalOfZeros DEF GrossPaid, Refunded
<1> QED
  BY <1>2 DEF NetPaid

\* The balance of a charge, in a state that satisfies the invariant.
LEMMA BalanceFits ==
    ASSUME StatusInv, NEW c \in Charges
    PROVE  /\ NetPaid(tx, c) \in Nat /\ Refunded(tx, c) \in Nat /\ charge[c].due \in Nat
           /\ NetPaid(tx, c) <= charge[c].due
           /\ charge[c].status \in ChargeStatus
           /\ StatusFits(c)
  BY BalanceType DEF StatusInv, LedgerInv, TypeOK, ChargeRows, NoOverCredit, StatusesAgree,
                     StatusTellsTheMoney

\* A charge with money on it is open.
LEMMA PaidIsOpen ==
    ASSUME StatusInv, NEW c \in Charges, NetPaid(tx, c) > 0
    PROVE  charge[c].status \in {"paid", "partially_paid"} /\ charge[c].due > 0
  BY BalanceFits DEF StatusFits

\* Amounts are named by requests, which name no amount of nothing, and a charge
\* reduced to nothing is not a draft any more.
LEMMA AmountsStep ==
    ASSUME TypeOK, AmountsArePositive, LedgerNext PROVE AmountsArePositive'
<1>1. \A c \in Charges : charge'[c].status = "draft" => charge'[c].due > 0
  <2>1. ASSUME NEW c, NEW txs
        PROVE  \A d \in Charges : /\ Refreshed(c, txs)[d].due = charge[d].due
                                  /\ Refreshed(c, txs)[d].status = "draft" =>
                                       charge[d].status = "draft"
    <3> DEFINE s == DeriveChargeStatus(charge[c].status, charge[c].due,
                                       NetPaid(txs, c), Refunded(txs, c))
    <3>1. s = "draft" => charge[c].status = "draft"
      BY DEF DeriveChargeStatus
    <3>2. Refreshed(c, txs) = [charge EXCEPT ![c].status = s]
      BY DEF Refreshed
    <3> HIDE DEF s
    <3> QED
      BY <3>1, <3>2 DEF TypeOK, ChargeRows
  <2>2. ASSUME NEW c \in Charges, NEW amount \in Amounts, NEW issued \in BOOLEAN,
               CreateCharge(c, amount, issued)
        PROVE  \A d \in Charges : charge'[d].status = "draft" => charge'[d].due > 0
    BY <2>2 DEF CreateCharge, TypeOK, AmountsArePositive, Amounts
  <2>3. ASSUME NEW c \in Charges, IssueCharge(c) \/ CancelCharge(c)
        PROVE  \A d \in Charges : charge'[d].status = "draft" => charge'[d].due > 0
    BY <2>3 DEF IssueCharge, CancelCharge, TypeOK, ChargeRows, AmountsArePositive
  <2>4. ASSUME NEW c \in Charges, NEW amount \in Amounts, ApplyChargeAdjustment(c, amount)
        PROVE  \A d \in Charges : charge'[d].status = "draft" => charge'[d].due > 0
    <3> DEFINE due == charge[c].due - amount
               s == IF due = 0 /\ NetPaid(tx, c) = 0 THEN "waived"
                    ELSE DeriveChargeStatus(charge[c].status, due, NetPaid(tx, c), Refunded(tx, c))
    <3>1. charge' = [charge EXCEPT ![c].due = due, ![c].status = s]
      BY <2>4 DEF ApplyChargeAdjustment
    <3>2. due \in Nat /\ NetPaid(tx, c) \in Nat /\ due >= NetPaid(tx, c)
      BY <2>4, BalanceType DEF ApplyChargeAdjustment, TypeOK, ChargeRows, Amounts
    <3>3. s = "draft" => due > 0
      BY <3>2
    <3> HIDE DEF s, due
    <3> QED
      BY <3>1, <3>3 DEF TypeOK, ChargeRows, AmountsArePositive
  <2>5. (charge' = charge \/ \E c, txs : charge' = Refreshed(c, txs)) =>
            \A d \in Charges : charge'[d].status = "draft" => charge'[d].due > 0
    BY <2>1 DEF AmountsArePositive
  <2>6. ASSUME NEW t, NEW amount, ApplySucceededRefund(t, amount)
        PROVE  \E c, txs : charge' = Refreshed(c, txs)
    BY <2>6 DEF ApplySucceededRefund
  <2>7. ASSUME NEW e \in Events, NEW res \in Results, SettleProviderEvent(e, res)
        PROVE  charge' = charge \/ \E c, txs : charge' = Refreshed(c, txs)
    BY <2>6, <2>7 DEF SettleProviderEvent, SettleMismatch, SettleIgnored, SettleRefunded,
                      SettleRefundFailed, SettleNotPaid, SettleRefused, SettleCredit, ledgerVars
  <2>8. ASSUME NEW t \in TxIds, NEW amount \in Amounts, NEW key \in Keys \cup {None},
               NEW answer \in RefundStatus, RequestRefund(t, amount, key, answer)
        PROVE  charge' = charge \/ \E c, txs : charge' = Refreshed(c, txs)
    BY <2>6, <2>8 DEF RequestRefund
  <2>9. ASSUME NEW c \in Charges, NEW amount \in Amounts, NEW key \in Keys \cup {None},
               RecordOfflinePayment(c, amount, key) \/ CreateCheckoutSession(c, amount, key)
        PROVE  charge' = charge \/ \E d, txs : charge' = Refreshed(d, txs)
    BY <2>9 DEF RecordOfflinePayment, CreateCheckoutSession
  <2> QED
    BY <2>2, <2>3, <2>4, <2>5, <2>7, <2>8, <2>9 DEF LedgerNext, SchoolStep
<1>2. \A t \in TxIds : tx'[t].status # "none" => tx'[t].amount > 0
  <2>1. ASSUME NEW c \in Charges, CancelCharge(c)
        PROVE  \A t \in TxIds : tx'[t].status # "none" => tx'[t].amount > 0
    BY <2>1 DEF CancelCharge, PendingCancelled, TypeOK, TxRows, AmountsArePositive
  <2>2. ASSUME NEW c \in Charges, NEW amount \in Amounts, NEW key \in Keys \cup {None},
               RecordOfflinePayment(c, amount, key) \/ CreateCheckoutSession(c, amount, key)
        PROVE  \A t \in TxIds : tx'[t].status # "none" => tx'[t].amount > 0
    <3>1. PICK t \in TxIds : \E channel, status :
            tx' = [tx EXCEPT ![t] = TxRow(c, amount, key, channel, status)]
      BY <2>2 DEF RecordOfflinePayment, CreateCheckoutSession
    <3>2. tx'[t].amount = amount /\ \A u \in TxIds \ {t} : tx'[u] = tx[u]
      BY <3>1 DEF TypeOK, TxRow
    <3> QED
      BY <3>2 DEF AmountsArePositive, Amounts
  <2>3. ASSUME NEW t \in TxIds, NEW amount, Credited(tx, t), ApplySucceededRefund(t, amount)
        PROVE  \A u \in TxIds : tx'[u].status # "none" => tx'[u].amount > 0
    BY <2>3 DEF ApplySucceededRefund, TypeOK, TxRows, Credited, PaidStatus, AmountsArePositive
  <2>4. ASSUME NEW t \in TxIds, NEW s, tx' = [tx EXCEPT ![t].status = s], tx[t].status # "none"
        PROVE  \A u \in TxIds : tx'[u].status # "none" => tx'[u].amount > 0
    BY <2>4 DEF TypeOK, TxRows, AmountsArePositive
  <2>5. tx' = tx => \A t \in TxIds : tx'[t].status # "none" => tx'[t].amount > 0
    BY DEF AmountsArePositive
  <2>6. ASSUME NEW t \in TxIds, NEW amount \in Amounts, NEW key \in Keys \cup {None},
               NEW answer \in RefundStatus, RequestRefund(t, amount, key, answer)
        PROVE  \A u \in TxIds : tx'[u].status # "none" => tx'[u].amount > 0
    <3>1. Credited(tx, t)
      BY <2>6 DEF RequestRefund, Credited, PaidStatus
    <3> QED
      BY <2>3, <2>5, <2>6, <3>1 DEF RequestRefund
  <2>7. ASSUME NEW e \in Events, NEW res \in Results, SettleProviderEvent(e, res)
        PROVE  \A u \in TxIds : tx'[u].status # "none" => tx'[u].amount > 0
    <3>1. e.tx \in TxIds
      BY DEF Events, PaymentEvents, RefundEvents
    <3>2. CASE \/ SettleIgnored(e, res) \/ SettleRefundFailed(e, res) \/ SettleRefused(e, res)
      BY <2>5, <3>2 DEF SettleIgnored, SettleRefundFailed, SettleRefused, ledgerVars
    <3>3. CASE SettleMismatch(e, res)
      <4>1. tx' = tx \/ (tx[e.tx].status = "pending" /\ tx' = [tx EXCEPT ![e.tx].status = "failed"])
        BY <3>3 DEF SettleMismatch
      <4> QED
        BY <2>4, <2>5, <3>1, <4>1
    <3>4. CASE SettleRefunded(e, res)
      BY <2>3, <2>5, <3>1, <3>4 DEF SettleRefunded, ledgerVars
    <3>5. CASE SettleNotPaid(e, res)
      <4>1. tx' = tx \/ (tx[e.tx].status = "pending" /\ tx' = [tx EXCEPT ![e.tx].status = e.outcome])
        BY <3>5 DEF SettleNotPaid, Unsettled
      <4> QED
        BY <2>4, <2>5, <3>1, <4>1
    <3>6. CASE SettleCredit(e, res)
      <4>1. tx[e.tx].status # "none" /\ tx' = [tx EXCEPT ![e.tx].status = "succeeded"]
        BY <3>6 DEF SettleCredit, Refusal
      <4> QED
        BY <2>4, <3>1, <4>1
    <3> QED
      BY <2>7, <3>2, <3>3, <3>4, <3>5, <3>6 DEF SettleProviderEvent
  <2> QED
    BY <2>1, <2>2, <2>5, <2>6, <2>7
    DEF LedgerNext, SchoolStep, CreateCharge, IssueCharge, ApplyChargeAdjustment
<1>3. \A r \in RefundIds : refund'[r].status # "none" => refund'[r].amount > 0
  <2>1. refund' = refund => \A r \in RefundIds : refund'[r].status # "none" => refund'[r].amount > 0
    BY DEF AmountsArePositive
  <2>2. ASSUME NEW t \in TxIds, NEW amount \in Amounts, NEW key \in Keys \cup {None},
               NEW answer \in RefundStatus, RequestRefund(t, amount, key, answer)
        PROVE  \A r \in RefundIds : refund'[r].status # "none" => refund'[r].amount > 0
    <3>1. PICK r \in RefundIds :
            refund' = [refund EXCEPT ![r] =
                         [status |-> answer, tx |-> t, amount |-> amount, key |-> key]]
      BY <2>2 DEF RequestRefund
    <3>2. refund'[r].amount = amount /\ \A q \in RefundIds \ {r} : refund'[q] = refund[q]
      BY <3>1 DEF TypeOK
    <3> QED
      BY <3>2 DEF AmountsArePositive, Amounts
  <2>3. ASSUME NEW e \in Events, NEW res \in Results, SettleProviderEvent(e, res)
        PROVE  \A r \in RefundIds : refund'[r].status # "none" => refund'[r].amount > 0
    <3>1. CASE SettleRefunded(e, res)
      <4>1. ASSUME NEW r \in PendingRefunds(e), refund' = [refund EXCEPT ![r].status = "succeeded"]
            PROVE  \A q \in RefundIds : refund'[q].status # "none" => refund'[q].amount > 0
        BY <4>1 DEF PendingRefunds, TypeOK, RefundRows, AmountsArePositive
      <4> QED
        BY <2>1, <3>1, <4>1 DEF SettleRefunded, ledgerVars
    <3>2. CASE SettleRefundFailed(e, res)
      BY <3>2 DEF SettleRefundFailed, PendingRefunds, TypeOK, RefundRows, AmountsArePositive
    <3> QED
      BY <2>1, <2>3, <3>1, <3>2
      DEF SettleProviderEvent, SettleMismatch, SettleIgnored, SettleNotPaid, SettleRefused,
          SettleCredit, ledgerVars
  <2> QED
    BY <2>1, <2>2, <2>3
    DEF LedgerNext, SchoolStep, CreateCharge, IssueCharge, CancelCharge, ApplyChargeAdjustment,
        RecordOfflinePayment, CreateCheckoutSession
<1> QED
  BY <1>1, <1>2, <1>3 DEF AmountsArePositive

\* A charge whose amounts and status stay, and whose transactions do, fits as before.
LEMMA StillFits ==
    ASSUME NEW c \in Charges, StatusFits(c),
           charge'[c].status = charge[c].status, charge'[c].due = charge[c].due,
           NetPaid(tx', c) = NetPaid(tx, c), Refunded(tx', c) = Refunded(tx, c),
           charge[c].status \in {"none", "draft"} => \A t \in TxIds :
               tx'[t].charge = c => tx[t].charge = c
    PROVE  StatusFits(c)'
  BY DEF StatusFits

\* The stored status keeps telling the money.
LEMMA MoneyStep ==
    ASSUME StatusInv, TypeOK', LedgerNext PROVE StatusTellsTheMoney'
<1> SUFFICES ASSUME NEW d \in Charges PROVE StatusFits(d)'
  BY DEF StatusTellsTheMoney
<1>1. TypeOK /\ LedgerInv /\ StatusFits(d)
  BY BalanceFits DEF StatusInv, LedgerInv
<1>2. ASSUME NEW c \in Charges, NEW amount \in Amounts, NEW issued \in BOOLEAN,
             CreateCharge(c, amount, issued)
      PROVE  StatusFits(d)'
  <2>1. /\ charge'[c].status \in {"issued", "draft"} /\ charge'[c].due = amount
        /\ charge[c].status = "none" /\ tx' = tx
        /\ \A e \in Charges \ {c} : charge'[e] = charge[e]
    BY <1>1, <1>2 DEF CreateCharge, TypeOK
  <2>2. CASE d = c
    <3>1. \A t \in TxIds : tx[t].charge # c
      BY <1>1, <2>1, <2>2 DEF StatusFits
    <3>2. NetPaid(tx, c) = 0 /\ Refunded(tx, c) = 0
      BY <1>1, <3>1, NoBalance
    <3> QED
      BY <2>1, <2>2, <3>1, <3>2 DEF StatusFits, Amounts
  <2>3. CASE d # c
    BY <1>1, <2>1, <2>3, StillFits
  <2> QED
    BY <2>2, <2>3
<1>3. ASSUME NEW c \in Charges, IssueCharge(c)
      PROVE  StatusFits(d)'
  <2>1. /\ charge'[c].status = "issued" /\ charge'[c].due = charge[c].due
        /\ charge[c].status = "draft" /\ charge[c].due > 0 /\ tx' = tx
        /\ \A e \in Charges \ {c} : charge'[e] = charge[e]
    BY <1>1, <1>3 DEF IssueCharge, TypeOK, ChargeRows, StatusInv, AmountsArePositive
  <2>2. CASE d = c
    <3>1. \A t \in TxIds : tx[t].charge # c
      BY <1>1, <2>1, <2>2 DEF StatusFits
    <3>2. NetPaid(tx, c) = 0 /\ Refunded(tx, c) = 0
      BY <1>1, <3>1, NoBalance
    <3> QED
      BY <2>1, <2>2, <3>1, <3>2 DEF StatusFits
  <2>3. CASE d # c
    BY <1>1, <2>1, <2>3, StillFits
  <2> QED
    BY <2>2, <2>3
<1>4. ASSUME NEW c \in Charges, CancelCharge(c)
      PROVE  StatusFits(d)'
  <2>1. /\ charge'[c].status = "cancelled" /\ NetPaid(tx, c) = 0
        /\ \A e \in Charges \ {c} : charge'[e] = charge[e]
    BY <1>1, <1>4 DEF CancelCharge, TypeOK, ChargeRows
  <2>2. MoneyRests
    BY <1>1, <1>4 DEF CancelCharge, PendingCancelled, OpenSessionsCancelled, TypeOK, TxRows,
                      MoneyRests, Credited, PaidStatus
  <2>3. \A t \in TxIds : tx'[t].charge = tx[t].charge
    BY <1>1, <1>4 DEF CancelCharge, PendingCancelled, TypeOK, TxRows
  <2>4. NetPaid(tx', d) = NetPaid(tx, d) /\ Refunded(tx', d) = Refunded(tx, d)
    BY <1>1, <2>2, RestBalance
  <2>5. CASE d = c
    BY <2>1, <2>4, <2>5 DEF StatusFits
  <2>6. CASE d # c
    BY <1>1, <2>1, <2>3, <2>4, <2>6, StillFits
  <2> QED
    BY <2>5, <2>6
<1>5. ASSUME NEW c \in Charges, NEW amount \in Amounts, ApplyChargeAdjustment(c, amount)
      PROVE  StatusFits(d)'
  <2> DEFINE due == charge[c].due - amount
             net == NetPaid(tx, c)
             back == Refunded(tx, c)
             s == IF due = 0 /\ net = 0 THEN "waived"
                  ELSE DeriveChargeStatus(charge[c].status, due, net, back)
  <2>1. /\ charge' = [charge EXCEPT ![c].due = due, ![c].status = s]
        /\ charge[c].status \notin {"none", "cancelled"}
        /\ due >= net /\ tx' = tx
    BY <1>5 DEF ApplyChargeAdjustment
  <2>2. /\ due \in Nat /\ net \in Nat /\ back \in Nat
        /\ charge[c].due > 0 /\ StatusFits(c) /\ charge[c].status \in ChargeStatus
    BY <1>5, BalanceFits DEF ApplyChargeAdjustment, Amounts
  <2>3. /\ charge'[c].status = s /\ charge'[c].due = due
        /\ \A e \in Charges \ {c} : charge'[e] = charge[e]
    BY <1>1, <2>1 DEF TypeOK, ChargeRows
  <2>4. CASE d = c
    <3>1. CASE due = 0
      BY <2>1, <2>2, <2>3, <2>4, <3>1 DEF StatusFits
    <3>2. CASE due # 0 /\ charge[c].status = "draft"
      BY <2>1, <2>2, <2>3, <2>4, <3>2, NoBalance, <1>1 DEF StatusFits, DeriveChargeStatus
    <3>3. CASE due # 0 /\ charge[c].status # "draft"
      <4>1. charge[c].status \in {"issued", "partially_paid", "paid", "refunded"}
        BY <2>1, <2>2, <3>3 DEF StatusFits, ChargeStatus
      <4>2. s = DeriveChargeStatus(charge[c].status, due, net, back)
        BY <3>3
      <4>3. /\ s \in {"issued", "partially_paid", "paid", "refunded"}
            /\ s = "paid" <=> net > 0 /\ net = due
            /\ s = "partially_paid" <=> net > 0 /\ net < due
            /\ s = "refunded" => net = 0 /\ back > 0
            /\ s = "issued" => net = 0 /\ back = 0
        BY <2>1, <2>2, <3>3, <4>1, <4>2, DerivedFits
      <4> HIDE DEF s
      <4> QED
        BY <2>1, <2>2, <2>3, <2>4, <3>3, <4>3 DEF StatusFits
    <3> QED
      BY <3>1, <3>2, <3>3
  <2>5. CASE d # c
    BY <1>1, <2>1, <2>3, <2>5, StillFits
  <2> QED
    BY <2>4, <2>5
<1>6. CASE NothingHappens
  <2>1. NetPaid(tx', d) = NetPaid(tx, d) /\ Refunded(tx', d) = Refunded(tx, d)
    BY <1>1, <1>6, RestBalance DEF NothingHappens
  <2>2. charge[d].status \in {"none", "draft"} =>
          \A t \in TxIds : tx'[t].charge = d => tx[t].charge = d
    BY <1>6 DEF NothingHappens, MoneyRests
  <2>3. charge' = charge
    BY <1>6 DEF NothingHappens
  <2> QED
    BY <1>1, <2>1, <2>2, <2>3, StillFits
<1>7. ASSUME NEW c \in Charges, charge' = Refreshed(c, tx'),
             charge[c].status \in {"issued", "partially_paid", "paid", "refunded"},
             charge[c].due \in Nat \ {0}, NetPaid(tx', c) \in Nat, Refunded(tx', c) \in Nat,
             NetPaid(tx', c) <= charge[c].due,
             \A e \in Charges \ {c} :
                 NetPaid(tx', e) = NetPaid(tx, e) /\ Refunded(tx', e) = Refunded(tx, e),
             \A t \in TxIds : tx'[t].charge = tx[t].charge \/ tx'[t].charge = c
      PROVE  StatusFits(d)'
  <2>1. /\ charge'[c].status = DeriveChargeStatus(charge[c].status, charge[c].due,
                                                  NetPaid(tx', c), Refunded(tx', c))
        /\ charge'[c].due = charge[c].due
        /\ \A e \in Charges \ {c} : charge'[e] = charge[e]
    BY <1>1, <1>7, RefreshedRow
  <2>2. CASE d = c
    <3>1. LET s == charge'[c].status
              net == NetPaid(tx', c)
              back == Refunded(tx', c) IN
          /\ s \in {"issued", "partially_paid", "paid", "refunded"}
          /\ s = "paid" <=> net > 0 /\ net = charge[c].due
          /\ s = "partially_paid" <=> net > 0 /\ net < charge[c].due
          /\ s = "refunded" => net = 0 /\ back > 0
          /\ s = "issued" => net = 0 /\ back = 0
      BY <1>7, <2>1, DerivedFits
    <3> QED
      BY <1>7, <2>1, <2>2, <3>1 DEF StatusFits
  <2>3. CASE d # c
    BY <1>1, <1>7, <2>1, <2>3, StillFits
  <2> QED
    BY <2>2, <2>3
<1>8. ASSUME NEW c \in Charges, NEW t \in TxIds, MoneyIn(c, t)
      PROVE  StatusFits(d)'
  <2>1. /\ NetPaid(tx', c) \in Nat /\ Refunded(tx', c) \in Nat
        /\ NetPaid(tx', c) <= charge[c].due /\ NetPaid(tx', c) > 0
        /\ \A e \in Charges \ {c} :
             NetPaid(tx', e) = NetPaid(tx, e) /\ Refunded(tx', e) = Refunded(tx, e)
    BY <1>1, <1>8, InBalance
  <2>2. /\ charge' = Refreshed(c, tx')
        /\ charge[c].status \in {"issued", "partially_paid", "paid", "refunded"}
        /\ \A u \in TxIds : tx'[u].charge = tx[u].charge \/ tx'[u].charge = c
    BY <1>8 DEF MoneyIn
  <2>3. charge[c].due \in Nat \ {0}
    BY <2>1, BalanceFits
  <2> QED
    BY <1>7, <2>1, <2>2, <2>3
<1>9. ASSUME NEW c \in Charges, NEW t \in TxIds, NEW r \in RefundIds, MoneyOut(c, t, r)
      PROVE  StatusFits(d)'
  <2>1. /\ NetPaid(tx', c) = NetPaid(tx, c) - refund'[r].amount
        /\ NetPaid(tx, c) \in Nat /\ NetPaid(tx', c) \in Nat
        /\ refund'[r].amount \in Nat \ {0} /\ Refunded(tx', c) \in Nat
        /\ \A e \in Charges \ {c} :
             NetPaid(tx', e) = NetPaid(tx, e) /\ Refunded(tx', e) = Refunded(tx, e)
        /\ \A u \in TxIds : tx'[u].charge = tx[u].charge \/ tx'[u].charge = c
        /\ charge' = Refreshed(c, tx')
    BY <1>1, <1>9, OutBalance
  <2>2. charge[c].status \in {"paid", "partially_paid"} /\ charge[c].due \in Nat \ {0}
    BY <2>1, PaidIsOpen, BalanceFits
  <2>3. NetPaid(tx', c) <= charge[c].due
    BY <2>1, <2>2, BalanceFits
  <2> QED
    BY <1>7, <2>1, <2>2, <2>3
<1> QED
  BY <1>2, <1>3, <1>4, <1>5, <1>6, <1>8, <1>9, StepKinds

\* A cancelled charge stays quiet.
LEMMA QuietStep ==
    ASSUME StatusInv, TypeOK', LedgerNext PROVE CancelledChargeIsQuiet'
<1> SUFFICES ASSUME NEW u \in TxIds, tx'[u].charge \in Charges,
                    charge'[tx'[u].charge].status = "cancelled"
             PROVE  /\ tx'[u].status # "pending" /\ session'[u] # "open"
                    /\ NetPaid(tx', tx'[u].charge) = 0
  BY DEF CancelledChargeIsQuiet
<1> DEFINE d == tx'[u].charge
<1>1. /\ TypeOK /\ LedgerInv /\ d \in Charges
      /\ tx[u].charge = d /\ charge[d].status = "cancelled" =>
           tx[u].status # "pending" /\ session[u] # "open" /\ NetPaid(tx, d) = 0
  BY DEF StatusInv, LedgerInv, StatusesAgree, CancelledChargeIsQuiet
<1>2. ASSUME UNCHANGED <<tx, session>>, charge[d].status = "cancelled"
      PROVE  /\ tx'[u].status # "pending" /\ session'[u] # "open" /\ NetPaid(tx', d) = 0
  BY <1>1, <1>2
<1>3. ASSUME NEW c \in Charges, NEW amount \in Amounts, NEW issued \in BOOLEAN,
              CreateCharge(c, amount, issued)
       PROVE  /\ tx'[u].status # "pending" /\ session'[u] # "open" /\ NetPaid(tx', d) = 0
  BY <1>1, <1>2, <1>3 DEF CreateCharge, TypeOK
<1>4. ASSUME NEW c \in Charges, IssueCharge(c)
       PROVE  /\ tx'[u].status # "pending" /\ session'[u] # "open" /\ NetPaid(tx', d) = 0
  BY <1>1, <1>2, <1>4 DEF IssueCharge, TypeOK, ChargeRows
<1>5. ASSUME NEW c \in Charges, NEW amount \in Amounts, ApplyChargeAdjustment(c, amount)
       PROVE  /\ tx'[u].status # "pending" /\ session'[u] # "open" /\ NetPaid(tx', d) = 0
  BY <1>1, <1>2, <1>5 DEF ApplyChargeAdjustment, DeriveChargeStatus, TypeOK, ChargeRows
<1>6. ASSUME MoneyRests, charge[d].status = "cancelled"
      PROVE  /\ tx'[u].status # "pending" /\ session'[u] # "open" /\ NetPaid(tx', d) = 0
  <2>1. NetPaid(tx', d) = NetPaid(tx, d)
    BY <1>1, <1>6, RestBalance
  <2> QED
    BY <1>1, <1>6, <2>1 DEF MoneyRests
<1>7. ASSUME NEW c \in Charges, CancelCharge(c)
      PROVE  /\ tx'[u].status # "pending" /\ session'[u] # "open" /\ NetPaid(tx', d) = 0
  <2>1. MoneyRests
    BY <1>1, <1>7 DEF CancelCharge, PendingCancelled, OpenSessionsCancelled, TypeOK, TxRows,
                      MoneyRests, Credited, PaidStatus
  <2>2. CASE d = c
    <3>1. tx[u].charge = c
      BY <1>1, <1>7, <2>2 DEF CancelCharge, PendingCancelled, TypeOK, TxRows
    <3>2. tx'[u].status # "pending" /\ session'[u] # "open" /\ NetPaid(tx, c) = 0
      BY <1>1, <1>7, <3>1 DEF CancelCharge, PendingCancelled, OpenSessionsCancelled, TypeOK,
                              TxRows
    <3> QED
      BY <1>1, <2>1, <2>2, <3>2, RestBalance
  <2>3. CASE d # c
    <3>1. charge[d].status = "cancelled"
      BY <1>1, <1>7, <2>3 DEF CancelCharge, TypeOK
    <3> QED
      BY <1>6, <2>1, <3>1
  <2> QED
    BY <2>2, <2>3
<1>8. CASE NothingHappens
  BY <1>6, <1>8 DEF NothingHappens
<1>9. ASSUME NEW c \in Charges, charge' = Refreshed(c, tx'), charge[c].status # "cancelled",
             NEW t \in TxIds, tx'[t].charge = c,
             \A v \in TxIds \ {t} : tx'[v] = tx[v] /\ session'[v] = session[v],
             \A e \in Charges \ {c} : NetPaid(tx', e) = NetPaid(tx, e)
      PROVE  /\ tx'[u].status # "pending" /\ session'[u] # "open" /\ NetPaid(tx', d) = 0
  <2>1. charge'[c].status # "cancelled"
    BY <1>1, <1>9, RefreshedRow DEF DeriveChargeStatus
  <2>2. d # c /\ u # t
    BY <1>9, <2>1
  <2>3. charge[d].status = "cancelled"
    BY <1>1, <1>9, <2>2, RefreshedRow
  <2> QED
    BY <1>1, <1>9, <2>2, <2>3
<1>10. ASSUME NEW c \in Charges, NEW t \in TxIds, MoneyIn(c, t)
      PROVE  /\ tx'[u].status # "pending" /\ session'[u] # "open" /\ NetPaid(tx', d) = 0
  <2>1. \A e \in Charges \ {c} : NetPaid(tx', e) = NetPaid(tx, e)
    BY <1>1, <1>10, InBalance
  <2> QED
    BY <1>9, <1>10, <2>1 DEF MoneyIn
<1>11. ASSUME NEW c \in Charges, NEW t \in TxIds, NEW r \in RefundIds, MoneyOut(c, t, r)
      PROVE  /\ tx'[u].status # "pending" /\ session'[u] # "open" /\ NetPaid(tx', d) = 0
  <2>1. /\ NetPaid(tx, c) > 0 /\ charge' = Refreshed(c, tx') /\ tx'[t].charge = c
        /\ \A v \in TxIds \ {t} : tx'[v] = tx[v]
        /\ \A e \in Charges \ {c} : NetPaid(tx', e) = NetPaid(tx, e)
    BY <1>1, <1>11, OutBalance
  <2>2. charge[c].status # "cancelled"
    BY <2>1, PaidIsOpen
  <2>3. session' = session
    BY <1>11 DEF MoneyOut
  <2> QED
    BY <1>9, <2>1, <2>2, <2>3
<1> QED
  BY <1>7, <1>8, <1>10, <1>11, <1>3, <1>4, <1>5, StepKinds

\* No step disturbs the statuses.
LEMMA StatusStep == StatusInv /\ [LedgerNext]_ledgerVars => StatusInv'
<1> SUFFICES ASSUME StatusInv, [LedgerNext]_ledgerVars PROVE StatusInv'
  OBVIOUS
<1>1. LedgerInv'
  BY BooksStep DEF StatusInv
<1>2. CASE LedgerNext
  <2>1. TypeOK /\ TypeOK' /\ AmountsArePositive
    BY <1>1 DEF StatusInv, LedgerInv
  <2>2. AmountsArePositive'
    BY <1>2, <2>1, AmountsStep
  <2>3. StatusTellsTheMoney' /\ CancelledChargeIsQuiet'
    BY <1>2, <2>1, MoneyStep, QuietStep
  <2> QED
    BY <1>1, <2>2, <2>3 DEF StatusInv, StatusesAgree
<1>3. CASE UNCHANGED ledgerVars
  BY <1>1, <1>3 DEF ledgerVars, StatusInv, AmountsArePositive, StatusesAgree,
                    StatusTellsTheMoney, StatusFits, CancelledChargeIsQuiet
<1> QED
  BY <1>2, <1>3

\* Nothing is recorded of a charge before it is there.
LEMMA StatusesOpen == LedgerInit => StatusInv
<1> SUFFICES ASSUME LedgerInit PROVE StatusInv
  OBVIOUS
<1>1. LedgerInv
  BY BooksOpen
<1>2. AmountsArePositive
  BY DEF LedgerInit, AmountsArePositive, NoCharge, NoTx, NoRefund
<1>3. ASSUME NEW c \in Charges PROVE StatusFits(c)
  <2>1. \A t \in TxIds : tx[t].charge # c
    BY LedgerAssumption DEF LedgerInit, NoTx
  <2>2. NetPaid(tx, c) = 0
    BY <1>1, <2>1, NoBalance DEF LedgerInv
  <2>3. charge[c].status = "none"
    BY DEF LedgerInit, NoCharge
  <2> QED
    BY <2>1, <2>2, <2>3 DEF StatusFits
<1>4. CancelledChargeIsQuiet
  BY LedgerAssumption DEF LedgerInit, CancelledChargeIsQuiet, NoTx
<1> QED
  BY <1>1, <1>2, <1>3, <1>4 DEF StatusInv, StatusesAgree, StatusTellsTheMoney

\* The inductive invariant holds in every state the ledger reaches.
LEMMA StatusesHold == LedgerSpec => []StatusInv
  BY StatusesOpen, StatusStep, PTL DEF LedgerSpec

\* Whatever the sequence of operations and events, the stored status of a charge
\* tells its money, and a cancelled charge leaves nothing to be paid.
THEOREM StatusesAlwaysAgree == LedgerSpec => []StatusesAgree
<1>1. StatusInv => StatusesAgree
  BY DEF StatusInv
<1> QED
  BY <1>1, StatusesHold, PTL

-----------------------------------------------------------------------------
(* History.                                                                 *)

\* The operations on a charge alone change no transaction, and that of a
\* cancelled charge nothing.
LEMMA ChargeAlone ==
    ASSUME StatusInv, NEW c \in Charges,
           \/ \E amount \in Amounts, issued \in BOOLEAN : CreateCharge(c, amount, issued)
           \/ IssueCharge(c)
           \/ \E amount \in Amounts : ApplyChargeAdjustment(c, amount)
    PROVE  /\ tx' = tx
           /\ \A d \in Charges : charge[d].status = "cancelled" => charge'[d] = charge[d]
  BY DEF CreateCharge, IssueCharge, ApplyChargeAdjustment, StatusInv, LedgerInv, TypeOK

\* Cancelling a charge moves no money, and a second time changes nothing.
LEMMA CancelRests ==
    ASSUME StatusInv, NEW c \in Charges, CancelCharge(c)
    PROVE  /\ MoneyRests
           /\ \A t \in TxIds : tx'[t].charge = tx[t].charge
           /\ \A d \in Charges : charge[d].status = "cancelled" => charge'[d] = charge[d]
<1>1. /\ MoneyRests
      /\ \A t \in TxIds : tx'[t].charge = tx[t].charge
  BY DEF CancelCharge, PendingCancelled, OpenSessionsCancelled, StatusInv, LedgerInv, TypeOK,
         TxRows, MoneyRests, Credited, PaidStatus
<1>2. \A d \in Charges : charge[d].status = "cancelled" => charge'[d] = charge[d]
  BY DEF CancelCharge, StatusInv, LedgerInv, TypeOK, ChargeRows
<1> QED
  BY <1>1, <1>2

\* What a step may not do to a transaction, to a balance, and to a cancelled
\* charge.
LEMMA HistoryStep ==
    ASSUME StatusInv, TypeOK', LedgerNext
    PROVE  /\ \A t \in TxIds : Credited(tx, t) =>
                /\ Credited(tx', t)
                /\ tx'[t].charge = tx[t].charge
                /\ tx'[t].amount = tx[t].amount
                /\ tx'[t].refunded >= tx[t].refunded
           /\ \A c \in Charges : tx' # tx /\ NetPaid(tx', c) < NetPaid(tx, c) =>
                \E r \in RefundIds : /\ CompletedNow(c) = {r}
                                     /\ NetPaid(tx', c) = NetPaid(tx, c) - refund'[r].amount
           /\ \A c \in Charges : charge[c].status = "cancelled" =>
                /\ charge'[c] = charge[c]
                /\ tx' = tx \/ NetPaid(tx', c) = NetPaid(tx, c)
<1> DEFINE CreditsStay == \A t \in TxIds : Credited(tx, t) =>
             /\ Credited(tx', t)
             /\ tx'[t].charge = tx[t].charge
             /\ tx'[t].amount = tx[t].amount
             /\ tx'[t].refunded >= tx[t].refunded
           Leaves == \A c \in Charges : tx' # tx /\ NetPaid(tx', c) < NetPaid(tx, c) =>
             \E r \in RefundIds : /\ CompletedNow(c) = {r}
                                  /\ NetPaid(tx', c) = NetPaid(tx, c) - refund'[r].amount
           ClosedStays == \A c \in Charges : charge[c].status = "cancelled" =>
             /\ charge'[c] = charge[c]
             /\ tx' = tx \/ NetPaid(tx', c) = NetPaid(tx, c)
<1>1. /\ LedgerInv /\ TypeOK
      /\ \A t \in TxIds : tx[t].refunded \in Nat /\ tx[t].amount \in Nat
      /\ \A c \in Charges : NetPaid(tx, c) \in Nat /\ NetPaid(tx', c) \in Nat
  BY BalanceType DEF StatusInv, LedgerInv, TypeOK, TxRows
<1>2. ASSUME MoneyRests,
             \A d \in Charges : charge[d].status = "cancelled" => charge'[d] = charge[d]
      PROVE  CreditsStay /\ Leaves /\ ClosedStays
  <2>1. CreditsStay
    BY <1>1, <1>2 DEF MoneyRests, Credited
  <2>2. \A c \in Charges : NetPaid(tx', c) = NetPaid(tx, c)
    BY <1>1, <1>2, RestBalance
  <2> QED
    BY <1>1, <1>2, <2>1, <2>2
<1>3. ASSUME tx' = tx,
             \A d \in Charges : charge[d].status = "cancelled" => charge'[d] = charge[d]
      PROVE  CreditsStay /\ Leaves /\ ClosedStays
  BY <1>1, <1>3 DEF Credited
<1>4. ASSUME NEW c \in Charges, charge[c].status # "cancelled", charge' = Refreshed(c, tx'),
             \A d \in Charges \ {c} : NetPaid(tx', d) = NetPaid(tx, d)
      PROVE  ClosedStays
  BY <1>1, <1>4, RefreshedRow
<1>5. ASSUME NEW c \in Charges, NEW t \in TxIds, MoneyIn(c, t)
      PROVE  CreditsStay /\ Leaves /\ ClosedStays
  <2>1. CreditsStay
    BY <1>1, <1>5 DEF MoneyIn, Credited
  <2>2. /\ NetPaid(tx', c) >= NetPaid(tx, c)
        /\ \A d \in Charges \ {c} : NetPaid(tx', d) = NetPaid(tx, d)
    BY <1>1, <1>5, InBalance
  <2>3. Leaves
    BY <1>1, <2>2
  <2>4. charge[c].status # "cancelled" /\ charge' = Refreshed(c, tx')
    BY <1>5 DEF MoneyIn
  <2> QED
    BY <1>4, <2>1, <2>2, <2>3, <2>4
<1>6. ASSUME NEW c \in Charges, NEW t \in TxIds, NEW r \in RefundIds, MoneyOut(c, t, r)
      PROVE  CreditsStay /\ Leaves /\ ClosedStays
  <2>1. /\ NetPaid(tx', c) = NetPaid(tx, c) - refund'[r].amount
        /\ refund'[r].amount \in Nat \ {0}
        /\ \A d \in Charges \ {c} : NetPaid(tx', d) = NetPaid(tx, d)
        /\ \A u \in TxIds \ {t} : tx'[u] = tx[u]
        /\ Credited(tx', t) /\ tx'[t].charge = c /\ tx'[t].amount = tx[t].amount
        /\ tx'[t].refunded = tx[t].refunded + refund'[r].amount
        /\ charge' = Refreshed(c, tx')
    BY <1>1, <1>6, OutBalance
  <2>2. tx[t].charge = c /\ refund[r].status # "succeeded" /\ refund'[r].status = "succeeded"
        /\ refund'[r].tx = t /\ \A q \in RefundIds \ {r} : refund'[q] = refund[q]
    BY <1>6 DEF MoneyOut
  <2>3. CreditsStay
    BY <1>1, <2>1, <2>2 DEF Credited
  <2>4. CompletedNow(c) = {r}
    BY <2>2 DEF CompletedNow
  <2>5. Leaves
    BY <1>1, <2>1, <2>4
  <2>6. charge[c].status # "cancelled"
    BY <1>1, <2>1, PaidIsOpen
  <2> QED
    BY <1>4, <2>1, <2>3, <2>5, <2>6
<1> HIDE DEF CreditsStay, Leaves, ClosedStays
<1>7. ASSUME NEW c \in Charges, NEW amount \in Amounts, NEW issued \in BOOLEAN,
             CreateCharge(c, amount, issued)
      PROVE  CreditsStay /\ Leaves /\ ClosedStays
  BY <1>3, <1>7, ChargeAlone
<1>8. ASSUME NEW c \in Charges, IssueCharge(c)
      PROVE  CreditsStay /\ Leaves /\ ClosedStays
  BY <1>3, <1>8, ChargeAlone
<1>9. ASSUME NEW c \in Charges, NEW amount \in Amounts, ApplyChargeAdjustment(c, amount)
      PROVE  CreditsStay /\ Leaves /\ ClosedStays
  BY <1>3, <1>9, ChargeAlone
<1>10. ASSUME NEW c \in Charges, CancelCharge(c)
       PROVE  CreditsStay /\ Leaves /\ ClosedStays
  BY <1>2, <1>10, CancelRests
<1>11. ASSUME NothingHappens
       PROVE  CreditsStay /\ Leaves /\ ClosedStays
  BY <1>2, <1>11 DEF NothingHappens
<1>12. CreditsStay /\ Leaves /\ ClosedStays
  BY <1>5, <1>6, <1>7, <1>8, <1>9, <1>10, <1>11, StepKinds
<1> QED
  BY <1>12 DEF CreditsStay, Leaves, ClosedStays

\* No step rewrites what is booked: a credit keeps its transaction, charge and
\* amount, money leaves a charge by one refund and its amount, and a cancelled
\* charge stays as it is.
THEOREM HistoryAlwaysStands == LedgerSpec => HistoryStands
<1>1. StatusInv /\ StatusInv' /\ [LedgerNext]_ledgerVars =>
        [\A t \in TxIds : Credited(tx, t) =>
          /\ Credited(tx', t)
          /\ tx'[t].charge = tx[t].charge
          /\ tx'[t].amount = tx[t].amount
          /\ tx'[t].refunded >= tx[t].refunded]_ledgerVars
  BY HistoryStep DEF StatusInv, LedgerInv
<1>2. StatusInv /\ StatusInv' /\ [LedgerNext]_ledgerVars =>
        [\A c \in Charges : tx' # tx /\ NetPaid(tx', c) < NetPaid(tx, c) =>
          \E r \in RefundIds : /\ CompletedNow(c) = {r}
                               /\ NetPaid(tx', c) = NetPaid(tx, c) - refund'[r].amount]_ledgerVars
  BY HistoryStep DEF StatusInv, LedgerInv
<1>3. StatusInv /\ StatusInv' /\ [LedgerNext]_ledgerVars =>
        [\A c \in Charges : charge[c].status = "cancelled" =>
          /\ charge'[c] = charge[c]
          /\ tx' = tx \/ NetPaid(tx', c) = NetPaid(tx, c)]_ledgerVars
  BY HistoryStep DEF StatusInv, LedgerInv
<1>4. LedgerSpec => CreditsAreHistory
  BY <1>1, StatusesHold, PTL DEF LedgerSpec, CreditsAreHistory
<1>5. LedgerSpec => MoneyLeavesByRefundOnly
  BY <1>2, StatusesHold, PTL DEF LedgerSpec, MoneyLeavesByRefundOnly
<1>6. LedgerSpec => CancelledIsForever
  BY <1>3, StatusesHold, PTL DEF LedgerSpec, CancelledIsForever
<1> QED
  BY <1>4, <1>5, <1>6 DEF HistoryStands

-----------------------------------------------------------------------------
(* Refinement.                                                              *)

\* The state, the amount due and the amount paid of each account, as the ledger
\* holds them.
States == [c \in Charges |-> AccountState(c)]
Dues   == [c \in Charges |-> charge[c].due]
Paids  == [c \in Charges |-> NetPaid(tx, c)]

\* A charge that keeps its row keeps its account, and one with its status and its
\* amount due unchanged too.
LEMMA OtherStates ==
    ASSUME NEW c \in Charges, \A d \in Charges \ {c} : charge'[d] = charge[d]
    PROVE  /\ States' = [States EXCEPT ![c] = AccountState(c)']
           /\ Dues' = [Dues EXCEPT ![c] = charge'[c].due]
<1>1. \A d \in Charges \ {c} : AccountState(d)' = AccountState(d)
  BY DEF AccountState
<1>2. DOMAIN States = Charges /\ DOMAIN Dues = Charges
  BY DEF States, Dues
<1>3. States' = [States EXCEPT ![c] = AccountState(c)']
  BY <1>1 DEF States
<1>4. Dues' = [Dues EXCEPT ![c] = charge'[c].due]
  BY DEF Dues
<1> QED
  BY <1>3, <1>4

\* One balance changes.
LEMMA OtherBalances ==
    ASSUME NEW c \in Charges, \A d \in Charges \ {c} : NetPaid(tx', d) = NetPaid(tx, d)
    PROVE  Paids' = [Paids EXCEPT ![c] = NetPaid(tx', c)]
  BY DEF Paids

\* No balance changes.
LEMMA BalancesStay ==
    ASSUME \A d \in Charges : NetPaid(tx', d) = NetPaid(tx, d)
    PROVE  Paids' = Paids
  BY DEF Paids

\* The account of a charge on which money has come in or gone out stays open.
LEMMA StaysOpen ==
    ASSUME TypeOK, NEW c \in Charges, NEW txs,
           charge[c].status \in {"issued", "partially_paid", "paid", "refunded"},
           charge[c].due \in Nat \ {0}, NetPaid(txs, c) \in Nat, Refunded(txs, c) \in Nat,
           NetPaid(txs, c) <= charge[c].due, charge' = Refreshed(c, txs)
    PROVE  AccountState(c) = "open" /\ States' = States /\ Dues' = Dues
<1>1. /\ charge'[c].status = DeriveChargeStatus(charge[c].status, charge[c].due,
                                                NetPaid(txs, c), Refunded(txs, c))
      /\ charge'[c].due = charge[c].due
      /\ \A d \in Charges \ {c} : charge'[d] = charge[d]
  BY RefreshedRow
<1>2. charge'[c].status \in {"issued", "partially_paid", "paid", "refunded"}
  BY <1>1, DerivedFits
<1>3. AccountState(c) = "open" /\ AccountState(c)' = "open"
  BY <1>2 DEF AccountState
<1>4. States' = [States EXCEPT ![c] = "open"] /\ Dues' = [Dues EXCEPT ![c] = charge[c].due]
  BY <1>1, <1>3, OtherStates
<1>5. States' = States
  BY <1>3, <1>4 DEF States
<1>6. Dues' = Dues
  BY <1>4 DEF Dues
<1> QED
  BY <1>3, <1>5, <1>6

\* Each kind of step is a step of one account, or of none.
LEMMA AccountStep ==
    ASSUME StatusInv, TypeOK', LedgerNext
    PROVE  Account!Next \/ UNCHANGED <<States, Dues, Paids>>
<1>1. /\ LedgerInv /\ TypeOK
      /\ \A c \in Charges : NetPaid(tx, c) \in Nat /\ NetPaid(tx', c) \in Nat
  BY BalanceType DEF StatusInv, LedgerInv, TypeOK
<1>2. ASSUME NEW c \in Charges
      PROVE  /\ States[c] = AccountState(c) /\ Dues[c] = charge[c].due
             /\ Paids[c] = NetPaid(tx, c)
             /\ States'[c] = AccountState(c)' /\ Dues'[c] = charge'[c].due
  BY DEF States, Dues, Paids
<1>3. ASSUME NEW c \in Charges, NEW amount \in Amounts, NEW issued \in BOOLEAN,
             CreateCharge(c, amount, issued)
      PROVE  Account!Raise(c)
  <2>1. /\ charge[c].status = "none" /\ charge'[c].status \in {"draft", "issued"}
        /\ charge'[c].due \in Nat \ {0} /\ tx' = tx
        /\ \A d \in Charges \ {c} : charge'[d] = charge[d]
    BY <1>1, <1>3 DEF CreateCharge, TypeOK, Amounts
  <2>2. AccountState(c) = "absent" /\ AccountState(c)' \in {"draft", "open"}
    BY <2>1 DEF AccountState
  <2>3. Paids' = Paids
    BY <2>1 DEF Paids
  <2>4. /\ States' = [States EXCEPT ![c] = States'[c]]
        /\ Dues' = [Dues EXCEPT ![c] = Dues'[c]]
    BY <1>2, <2>1, OtherStates
  <2> QED
    BY <1>2, <2>1, <2>2, <2>3, <2>4 DEF Account!Raise, States, Dues, Paids
<1>4. ASSUME NEW c \in Charges, IssueCharge(c)
      PROVE  Account!Issue(c)
  <2>1. /\ charge[c].status = "draft" /\ charge'[c].status = "issued"
        /\ charge'[c].due = charge[c].due /\ tx' = tx
        /\ \A d \in Charges \ {c} : charge'[d] = charge[d]
    BY <1>1, <1>4 DEF IssueCharge, TypeOK, ChargeRows
  <2>2. AccountState(c) = "draft" /\ AccountState(c)' = "open"
    BY <2>1 DEF AccountState
  <2>3. States' = [States EXCEPT ![c] = "open"]
    BY <2>1, <2>2, OtherStates
  <2>4. Dues' = Dues /\ Paids' = Paids
    BY <2>1 DEF Dues, Paids
  <2> QED
    BY <1>2, <2>2, <2>3, <2>4 DEF Account!Issue, States, Dues, Paids
<1>5. ASSUME NEW c \in Charges, CancelCharge(c)
      PROVE  Account!Close(c)
  <2>1. /\ charge[c].status # "none" /\ charge'[c].status = "cancelled"
        /\ charge'[c].due = charge[c].due /\ NetPaid(tx, c) = 0
        /\ \A d \in Charges \ {c} : charge'[d] = charge[d]
    BY <1>1, <1>5 DEF CancelCharge, TypeOK, ChargeRows
  <2>2. AccountState(c) # "absent" /\ AccountState(c)' = "closed"
    BY <2>1 DEF AccountState
  <2>3. States' = [States EXCEPT ![c] = "closed"]
    BY <2>1, <2>2, OtherStates
  <2>4. Dues' = Dues
    BY <2>1 DEF Dues
  <2>5. Paids' = Paids
    BY <1>1, <1>5, CancelRests, RestBalance, BalancesStay
  <2> QED
    BY <1>2, <2>1, <2>2, <2>3, <2>4, <2>5 DEF Account!Close, States, Dues, Paids
<1>6. ASSUME NEW c \in Charges, NEW amount \in Amounts, ApplyChargeAdjustment(c, amount)
      PROVE  Account!Reduce(c)
  <2> DEFINE n == charge[c].due - amount
             net == NetPaid(tx, c)
             s == IF n = 0 /\ net = 0 THEN "waived"
                  ELSE DeriveChargeStatus(charge[c].status, n, net, Refunded(tx, c))
  <2>1. /\ charge' = [charge EXCEPT ![c].due = n, ![c].status = s]
        /\ charge[c].status \notin {"none", "cancelled"}
        /\ n >= net /\ amount <= charge[c].due /\ tx' = tx
    BY <1>6 DEF ApplyChargeAdjustment
  <2>2. /\ charge[c].due \in Nat /\ net \in Nat /\ amount \in Nat \ {0}
        /\ StatusFits(c) /\ charge[c].status \in ChargeStatus
    BY BalanceFits DEF Amounts
  <2>3. /\ n \in net .. charge[c].due - 1 /\ charge[c].status # "waived"
        /\ n \in Nat /\ Refunded(tx, c) \in Nat
    BY <2>1, <2>2, BalanceFits DEF StatusFits
  <2>4. /\ charge'[c].status = s /\ charge'[c].due = n
        /\ \A d \in Charges \ {c} : charge'[d] = charge[d]
    BY <1>1, <2>1 DEF TypeOK, ChargeRows
  <2>5. AccountState(c) \in {"draft", "open"}
    BY <2>1, <2>2, <2>3 DEF AccountState, ChargeStatus
  <2>6. AccountState(c)' = IF n = 0 THEN "waived" ELSE AccountState(c)
    <3>1. CASE n = 0
      BY <2>1, <2>2, <2>4, <3>1 DEF AccountState
    <3>2. CASE n # 0 /\ charge[c].status = "draft"
      BY <2>4, <3>2 DEF AccountState, DeriveChargeStatus
    <3>3. CASE n # 0 /\ charge[c].status # "draft"
      <4>1. charge[c].status \in {"issued", "partially_paid", "paid", "refunded"}
        BY <2>1, <2>2, <2>3, <3>3 DEF ChargeStatus
      <4>2. s = DeriveChargeStatus(charge[c].status, n, net, Refunded(tx, c))
        BY <3>3
      <4>3. s \in {"issued", "partially_paid", "paid", "refunded"}
        BY <2>1, <2>2, <2>3, <3>3, <4>1, <4>2, DerivedFits
      <4> HIDE DEF s
      <4> QED
        BY <2>4, <3>3, <4>1, <4>3 DEF AccountState
    <3> QED
      BY <3>1, <3>2, <3>3
  <2>7. Paids' = Paids
    BY <2>1 DEF Paids
  <2>8. /\ States' = [States EXCEPT ![c] = IF n = 0 THEN "waived" ELSE AccountState(c)]
        /\ Dues' = [Dues EXCEPT ![c] = n]
    BY <2>4, <2>6, OtherStates
  <2>9. n \in Paids[c] .. Dues[c] - 1
    BY <1>2, <2>3
  <2>10. States[c] \in {"draft", "open"} /\ States[c] = AccountState(c)
    BY <1>2, <2>5
  <2> HIDE DEF n
  <2> QED
    BY <2>7, <2>8, <2>9, <2>10 DEF Account!Reduce, States, Dues, Paids
<1>7. ASSUME NEW c \in Charges, NEW t \in TxIds, MoneyIn(c, t)
      PROVE  Account!Pay(c)
  <2>1. /\ NetPaid(tx', c) = NetPaid(tx, c) + tx'[t].amount
        /\ tx'[t].amount \in Nat \ {0} /\ NetPaid(tx, c) \in Nat
        /\ NetPaid(tx', c) <= charge[c].due /\ Refunded(tx', c) \in Nat
        /\ \A d \in Charges \ {c} : NetPaid(tx', d) = NetPaid(tx, d)
    BY <1>1, <1>7, InBalance
  <2>2. charge[c].due \in Nat
    BY BalanceFits
  <2>3. /\ charge[c].status \in {"issued", "partially_paid", "paid", "refunded"}
        /\ charge' = Refreshed(c, tx')
    BY <1>7 DEF MoneyIn
  <2>4. AccountState(c) = "open" /\ States' = States /\ Dues' = Dues
    BY <1>1, <2>1, <2>2, <2>3, StaysOpen
  <2>5. /\ Paids' = [Paids EXCEPT ![c] = NetPaid(tx', c)]
        /\ NetPaid(tx', c) \in Paids[c] + 1 .. Dues[c]
    BY <1>1, <1>2, <2>1, <2>2, OtherBalances
  <2> QED
    BY <1>2, <2>4, <2>5 DEF Account!Pay, States, Dues, Paids
<1>8. ASSUME NEW c \in Charges, NEW t \in TxIds, NEW r \in RefundIds, MoneyOut(c, t, r)
      PROVE  Account!GiveBack(c)
  <2>1. /\ NetPaid(tx', c) = NetPaid(tx, c) - refund'[r].amount
        /\ refund'[r].amount \in Nat \ {0}
        /\ NetPaid(tx, c) \in Nat /\ NetPaid(tx', c) \in Nat
        /\ Refunded(tx', c) \in Nat /\ charge' = Refreshed(c, tx')
        /\ \A d \in Charges \ {c} : NetPaid(tx', d) = NetPaid(tx, d)
    BY <1>1, <1>8, OutBalance
  <2>2. charge[c].status \in {"paid", "partially_paid"} /\ charge[c].due \in Nat \ {0}
    BY <2>1, PaidIsOpen, BalanceFits
  <2>3. NetPaid(tx', c) <= charge[c].due
    BY <2>1, <2>2, BalanceFits
  <2>4. AccountState(c) = "open" /\ States' = States /\ Dues' = Dues
    BY <1>1, <2>1, <2>2, <2>3, StaysOpen
  <2>5. /\ Paids' = [Paids EXCEPT ![c] = NetPaid(tx', c)]
        /\ NetPaid(tx', c) \in 0 .. Paids[c] - 1
    BY <1>1, <1>2, <2>1, OtherBalances
  <2> QED
    BY <1>2, <2>4, <2>5 DEF Account!GiveBack, States, Dues, Paids
<1>9. ASSUME NothingHappens
      PROVE  UNCHANGED <<States, Dues, Paids>>
  <2>1. Paids' = Paids
    BY <1>1, <1>9, RestBalance, BalancesStay DEF NothingHappens
  <2> QED
    BY <1>9, <2>1 DEF NothingHappens, States, Dues, AccountState
<1> QED
  BY <1>3, <1>4, <1>5, <1>6, <1>7, <1>8, <1>9, StepKinds DEF Account!Next

\* The ledger implements the account of each charge: every operation and every
\* provider event raises, issues, reduces, pays, refunds or closes one account, or
\* leaves all as they are.
THEOREM LedgerImplementsAccount == LedgerSpec => ImplementsAccount
<1>1. LedgerInit => Account!Init
  <2> SUFFICES ASSUME LedgerInit PROVE Account!Init
    OBVIOUS
  <2>1. TypeOK
    BY BooksOpen DEF LedgerInv
  <2>2. \A c \in Charges : charge[c].status = "none" /\ charge[c].due = 0
    BY DEF LedgerInit, NoCharge
  <2>3. \A c \in Charges : AccountState(c) = "absent"
    BY <2>2 DEF AccountState
  <2>4. \A c \in Charges, t \in TxIds : tx[t].charge # c
    BY LedgerAssumption DEF LedgerInit, NoTx
  <2>5. \A c \in Charges : NetPaid(tx, c) = 0
    BY <2>1, <2>4, NoBalance
  <2> QED
    BY <2>2, <2>3, <2>5 DEF Account!Init
<1>2. StatusInv /\ StatusInv' /\ [LedgerNext]_ledgerVars => [Account!Next]_(Account!accountVars)
  <2> SUFFICES ASSUME StatusInv, StatusInv', [LedgerNext]_ledgerVars
               PROVE  Account!Next \/ UNCHANGED <<States, Dues, Paids>>
    BY DEF Account!accountVars, States, Dues, Paids
  <2>1. CASE LedgerNext
    BY <2>1, AccountStep DEF StatusInv, LedgerInv
  <2>2. CASE UNCHANGED ledgerVars
    BY <2>2 DEF ledgerVars, States, Dues, Paids, AccountState
  <2> QED
    BY <2>1, <2>2
<1> QED
  BY <1>1, <1>2, StatusesHold, PTL DEF LedgerSpec, ImplementsAccount, Account!Spec
=============================================================================
