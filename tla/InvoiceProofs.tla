---------------------------- MODULE InvoiceProofs ----------------------------
(***************************************************************************)
(* Theorems about InvoiceLedger, for every number of invoices, payments,   *)
(* credits, checkouts and refunds: the rows agree and nothing is settled   *)
(* twice, a refund made in Stripe always fits the invoice, a family is     *)
(* asked once and its payment booked once, and card money stands.          *)
(***************************************************************************)
EXTENDS InvoiceLedger, TotalsTheorems

-----------------------------------------------------------------------------
(* The inductive invariant.                                                 *)

\* The rows of each table.
InvoiceRow ==
    [status : InvoiceStatus, period : Periods \cup {None}, total : Nat, paid : Nat,
     credits : Nat, outstanding : Nat, late : BOOLEAN]
PaymentRow ==
    [status : {"none", "succeeded", "reversed"}, invoice : InvoiceIds \cup {None},
     amount : Nat, ref : TxIds \cup {None}, webhook : BOOLEAN]
CreditRow ==
    [kind : {"none", "note", "refund"}, invoice : InvoiceIds \cup {None}, amount : Nat,
     refund : RefundIds \cup {None}]
TxRow     == [status : TxStatus, invoice : InvoiceIds \cup {None}, amount : Nat]
RefundRow == [tx : TxIds \cup {None}, amount : Nat]

\* What came in by card and otherwise, and what was credited: by notes, by
\* refunds that staff entered, and by refunds that Stripe reported.
CardWorth(row, i) ==
    IF row.invoice = i /\ row.status = "succeeded" /\ row.ref # None THEN row.amount ELSE 0
CashWorth(row, i) ==
    IF row.invoice = i /\ row.status = "succeeded" /\ row.ref = None THEN row.amount ELSE 0
NoteWorth(row, i)  == IF row.invoice = i /\ row.kind = "note" THEN row.amount ELSE 0
LocalWorth(row, i) ==
    IF row.invoice = i /\ row.kind = "refund" /\ row.refund = None THEN row.amount ELSE 0
BackWorth(row, i) ==
    IF row.invoice = i /\ row.kind = "refund" /\ row.refund # None THEN row.amount ELSE 0

Card(i)  == Total([p \in PaymentIds |-> CardWorth(payment[p], i)])
Cash(i)  == Total([p \in PaymentIds |-> CashWorth(payment[p], i)])
Notes(i) == Total([d \in CreditIds |-> NoteWorth(credit[d], i)])
Local(i) == Total([d \in CreditIds |-> LocalWorth(credit[d], i)])
GivenBack(i) == Total([d \in CreditIds |-> BackWorth(credit[d], i)])

\* What Stripe has given back of a transaction, and may still give back.
RefundedOf(t) ==
    Total([q \in RefundIds |-> IF stripeRefund[q].tx = t THEN stripeRefund[q].amount ELSE 0])
Left(t) == IF tx[t].status = "succeeded" THEN tx[t].amount - RefundedOf(t) ELSE 0
Refundable(i) == Total([t \in TxIds |-> IF tx[t].invoice = i THEN Left(t) ELSE 0])

\* What Stripe has given back and the invoice does not show yet.
Awaits(r, i) ==
    stripeRefund[r].tx # None /\ tx[stripeRefund[r].tx].invoice = i /\ ~CreditedRefund(r)
Awaited(i) ==
    Total([r \in RefundIds |-> IF Awaits(r, i) THEN stripeRefund[r].amount ELSE 0])

\* Rows that are not there are empty, and rows name rows that are there.
RowsStand ==
    /\ \A i \in InvoiceIds : invoice[i].status = "none" => invoice[i] = NoInvoice
    /\ \A p \in PaymentIds :
         IF payment[p].status = "none" THEN payment[p] = NoPayment
         ELSE /\ payment[p].invoice \in InvoiceIds
              /\ invoice[payment[p].invoice].status # "none"
    /\ \A d \in CreditIds :
         /\ credit[d].kind = "none" => credit[d] = NoCredit
         /\ credit[d].refund # None => stripeRefund[credit[d].refund].tx # None
    /\ \A t \in TxIds :
         IF tx[t].status = "none" THEN tx[t] = NoTx /\ session[t] = "none"
         ELSE tx[t].invoice \in InvoiceIds /\ invoice[tx[t].invoice].status # "none"
    /\ \A r \in RefundIds :
         IF stripeRefund[r].tx = None THEN stripeRefund[r] = NoRefund
         ELSE tx[stripeRefund[r].tx].status = "succeeded"

\* The totals of an invoice are the sums of its rows, kind by kind.
TotalsKept ==
    \A i \in InvoiceIds :
        /\ invoice[i].paid = Card(i) + Cash(i)
        /\ invoice[i].credits = Notes(i) + Local(i) + GivenBack(i)

\* Nothing is settled twice; once card money has come in, what notes and staff have
\* credited leaves room for all of it; and what Stripe gave back or may still give
\* back is card money.
DebtsHeld ==
    \A i \in InvoiceIds :
        /\ invoice[i].paid + Notes(i) <= invoice[i].total
        /\ invoice[i].credits <= invoice[i].total
        /\ Card(i) > 0 => Card(i) + Notes(i) + Local(i) <= invoice[i].total
        /\ GivenBack(i) + Awaited(i) + Refundable(i) <= Card(i)
RefundsHeld ==
    \A t \in TxIds : tx[t].status = "succeeded" => RefundedOf(t) <= tx[t].amount

Rows      == InvoiceTypeOK /\ RowsStand
Books     == TotalsKept /\ DebtsHeld /\ RefundsHeld
Statuses  == StatusTellsTheBalance /\ OneLiveInvoicePerPeriod
Checkouts == OneOpenCheckout /\ BookedOnce

BooksInv == Rows /\ Books /\ Statuses /\ Checkouts
-----------------------------------------------------------------------------
(* Sums.                                                                    *)

\* The tables are finite, so that their columns have sums.
LEMMA TablesFinite ==
    /\ IsFiniteSet(PaymentIds) /\ IsFiniteSet(CreditIds) /\ IsFiniteSet(TxIds)
    /\ IsFiniteSet(RefundIds)
  BY InvoiceAssumption, FS_Interval DEF PaymentIds, CreditIds, TxIds, RefundIds

\* The types of the tables, by their rows.
LEMMA TypesByRow ==
    InvoiceTypeOK <=>
        /\ invoice \in [InvoiceIds -> InvoiceRow] /\ payment \in [PaymentIds -> PaymentRow]
        /\ credit \in [CreditIds -> CreditRow] /\ tx \in [TxIds -> TxRow]
        /\ session \in [TxIds -> SessionStatus] /\ stripeRefund \in [RefundIds -> RefundRow]
  BY DEF InvoiceTypeOK, InvoiceRow, PaymentRow, CreditRow, TxRow, RefundRow

\* What a row is worth is an amount.
LEMMA WorthType ==
    /\ \A i : \A row \in PaymentRow : CardWorth(row, i) \in Nat /\ CashWorth(row, i) \in Nat
    /\ \A i : \A row \in CreditRow :
         NoteWorth(row, i) \in Nat /\ LocalWorth(row, i) \in Nat /\ BackWorth(row, i) \in Nat
  BY DEF PaymentRow, CreditRow, CardWorth, CashWorth, NoteWorth, LocalWorth, BackWorth

\* A payment that is entered or reversed changes what came in by that row.
LEMMA PaymentSums ==
    ASSUME payment \in [PaymentIds -> PaymentRow], NEW p \in PaymentIds,
           NEW row \in PaymentRow, payment' = [payment EXCEPT ![p] = row], NEW i
    PROVE  /\ Card(i) \in Nat /\ Cash(i) \in Nat
           /\ Card(i)' = Card(i) - CardWorth(payment[p], i) + CardWorth(row, i)
           /\ Cash(i)' = Cash(i) - CashWorth(payment[p], i) + CashWorth(row, i)
<1> DEFINE card == [q \in PaymentIds |-> CardWorth(payment[q], i)]
           cash == [q \in PaymentIds |-> CashWorth(payment[q], i)]
           after == [payment EXCEPT ![p] = row]
           cardAfter == [q \in PaymentIds |-> CardWorth(after[q], i)]
           cashAfter == [q \in PaymentIds |-> CashWorth(after[q], i)]
<1>1. /\ after \in [PaymentIds -> PaymentRow] /\ after[p] = row
      /\ \A q \in PaymentIds \ {p} : after[q] = payment[q]
  OBVIOUS
<1>2. /\ Card(i) = Total(card) /\ Card(i)' = Total(cardAfter)
      /\ Cash(i) = Total(cash) /\ Cash(i)' = Total(cashAfter)
  BY DEF Card, Cash, CardWorth, CashWorth
<1> HIDE DEF after
<1>3. /\ card \in [PaymentIds -> Nat] /\ cardAfter \in [PaymentIds -> Nat]
      /\ cash \in [PaymentIds -> Nat] /\ cashAfter \in [PaymentIds -> Nat]
  BY <1>1, WorthType
<1>4. /\ \A q \in PaymentIds \ {p} : cardAfter[q] = card[q] /\ cashAfter[q] = cash[q]
      /\ cardAfter[p] = CardWorth(row, i) /\ cashAfter[p] = CashWorth(row, i)
      /\ card[p] = CardWorth(payment[p], i) /\ cash[p] = CashWorth(payment[p], i)
  BY <1>1
<1> HIDE DEF card, cash, cardAfter, cashAfter
<1>5. Total(card) \in Nat /\ Total(cash) \in Nat
  BY <1>3, TablesFinite, TotalType
<1>6. Total(cardAfter) = Total(card) - card[p] + cardAfter[p]
  <2>1. \A q \in PaymentIds \ {p} : cardAfter[q] = card[q]
    BY <1>4
  <2>2. card \in [PaymentIds -> Nat] /\ cardAfter \in [PaymentIds -> Nat]
    BY <1>3
  <2> QED
    BY <2>1, <2>2, TablesFinite, TotalChange
<1>7. Total(cashAfter) = Total(cash) - cash[p] + cashAfter[p]
  <2>1. \A q \in PaymentIds \ {p} : cashAfter[q] = cash[q]
    BY <1>4
  <2>2. cash \in [PaymentIds -> Nat] /\ cashAfter \in [PaymentIds -> Nat]
    BY <1>3
  <2> QED
    BY <2>1, <2>2, TablesFinite, TotalChange
<1> QED
  BY <1>2, <1>4, <1>5, <1>6, <1>7

\* A credit changes what was credited by that row.
LEMMA CreditSums ==
    ASSUME credit \in [CreditIds -> CreditRow], NEW d \in CreditIds,
           NEW row \in CreditRow, credit' = [credit EXCEPT ![d] = row], NEW i
    PROVE  /\ Notes(i) \in Nat /\ Local(i) \in Nat /\ GivenBack(i) \in Nat
           /\ Notes(i)' = Notes(i) - NoteWorth(credit[d], i) + NoteWorth(row, i)
           /\ Local(i)' = Local(i) - LocalWorth(credit[d], i) + LocalWorth(row, i)
           /\ GivenBack(i)' = GivenBack(i) - BackWorth(credit[d], i) + BackWorth(row, i)
<1> DEFINE notes == [q \in CreditIds |-> NoteWorth(credit[q], i)]
           local == [q \in CreditIds |-> LocalWorth(credit[q], i)]
           back  == [q \in CreditIds |-> BackWorth(credit[q], i)]
           after == [credit EXCEPT ![d] = row]
           notesAfter == [q \in CreditIds |-> NoteWorth(after[q], i)]
           localAfter == [q \in CreditIds |-> LocalWorth(after[q], i)]
           backAfter  == [q \in CreditIds |-> BackWorth(after[q], i)]
<1>1. /\ after \in [CreditIds -> CreditRow] /\ after[d] = row
      /\ \A q \in CreditIds \ {d} : after[q] = credit[q]
  OBVIOUS
<1>2. /\ Notes(i) = Total(notes) /\ Notes(i)' = Total(notesAfter)
      /\ Local(i) = Total(local) /\ Local(i)' = Total(localAfter)
      /\ GivenBack(i) = Total(back) /\ GivenBack(i)' = Total(backAfter)
  BY DEF Notes, Local, GivenBack, NoteWorth, LocalWorth, BackWorth
<1> HIDE DEF after
<1>3. /\ notes \in [CreditIds -> Nat] /\ notesAfter \in [CreditIds -> Nat]
      /\ local \in [CreditIds -> Nat] /\ localAfter \in [CreditIds -> Nat]
      /\ back \in [CreditIds -> Nat] /\ backAfter \in [CreditIds -> Nat]
  BY <1>1, WorthType
<1>4. /\ \A q \in CreditIds \ {d} : /\ notesAfter[q] = notes[q] /\ localAfter[q] = local[q]
                                    /\ backAfter[q] = back[q]
      /\ notesAfter[d] = NoteWorth(row, i) /\ localAfter[d] = LocalWorth(row, i)
      /\ backAfter[d] = BackWorth(row, i)
      /\ notes[d] = NoteWorth(credit[d], i) /\ local[d] = LocalWorth(credit[d], i)
      /\ back[d] = BackWorth(credit[d], i)
  BY <1>1
<1> HIDE DEF notes, local, back, notesAfter, localAfter, backAfter
<1>5. Total(notes) \in Nat /\ Total(local) \in Nat /\ Total(back) \in Nat
  BY <1>3, TablesFinite, TotalType
<1>6. Total(notesAfter) = Total(notes) - notes[d] + notesAfter[d]
  <2>1. \A q \in CreditIds \ {d} : notesAfter[q] = notes[q]
    BY <1>4
  <2>2. notes \in [CreditIds -> Nat] /\ notesAfter \in [CreditIds -> Nat]
    BY <1>3
  <2> QED
    BY <2>1, <2>2, TablesFinite, TotalChange
<1>7. Total(localAfter) = Total(local) - local[d] + localAfter[d]
  <2>1. \A q \in CreditIds \ {d} : localAfter[q] = local[q]
    BY <1>4
  <2>2. local \in [CreditIds -> Nat] /\ localAfter \in [CreditIds -> Nat]
    BY <1>3
  <2> QED
    BY <2>1, <2>2, TablesFinite, TotalChange
<1>8. Total(backAfter) = Total(back) - back[d] + backAfter[d]
  <2>1. \A q \in CreditIds \ {d} : backAfter[q] = back[q]
    BY <1>4
  <2>2. back \in [CreditIds -> Nat] /\ backAfter \in [CreditIds -> Nat]
    BY <1>3
  <2> QED
    BY <2>1, <2>2, TablesFinite, TotalChange
<1> QED
  BY <1>2, <1>4, <1>5, <1>6, <1>7, <1>8
\* What is left of a transaction, and what may be given back, are amounts.
LEMMA LeftType ==
    ASSUME InvoiceTypeOK, RefundsHeld
    PROVE  /\ \A t \in TxIds : RefundedOf(t) \in Nat /\ Left(t) \in Nat
           /\ \A i : Refundable(i) \in Nat /\ Awaited(i) \in Nat
<1>1. /\ stripeRefund \in [RefundIds -> RefundRow] /\ tx \in [TxIds -> TxRow]
      /\ \A r \in RefundIds : stripeRefund[r].amount \in Nat
      /\ \A t \in TxIds : tx[t].amount \in Nat
  BY TypesByRow DEF RefundRow, TxRow
<1>2. ASSUME NEW t \in TxIds
      PROVE  RefundedOf(t) \in Nat /\ Left(t) \in Nat
  <2> DEFINE column == [q \in RefundIds |-> IF stripeRefund[q].tx = t
                                            THEN stripeRefund[q].amount ELSE 0]
  <2>1. column \in [RefundIds -> Nat]
    BY <1>1
  <2>2. RefundedOf(t) = Total(column)
    BY DEF RefundedOf
  <2> HIDE DEF column
  <2>3. RefundedOf(t) \in Nat
    BY <2>1, <2>2, TablesFinite, TotalType
  <2>4. tx[t].status = "succeeded" => RefundedOf(t) <= tx[t].amount
    BY DEF RefundsHeld
  <2> QED
    BY <1>1, <2>3, <2>4 DEF Left
<1>3. ASSUME NEW i
      PROVE  Refundable(i) \in Nat
  <2> DEFINE column == [t \in TxIds |-> IF tx[t].invoice = i THEN Left(t) ELSE 0]
  <2>1. column \in [TxIds -> Nat]
    BY <1>2
  <2>2. Refundable(i) = Total(column)
    BY DEF Refundable
  <2> HIDE DEF column
  <2> QED
    BY <2>1, <2>2, TablesFinite, TotalType
<1>4. ASSUME NEW i
      PROVE  Awaited(i) \in Nat
  <2> DEFINE column == [r \in RefundIds |-> IF Awaits(r, i) THEN stripeRefund[r].amount ELSE 0]
  <2>1. column \in [RefundIds -> Nat]
    BY <1>1
  <2>2. Awaited(i) = Total(column)
    BY DEF Awaited
  <2> HIDE DEF column
  <2> QED
    BY <2>1, <2>2, TablesFinite, TotalType
<1> QED
  BY <1>2, <1>3, <1>4

\* Nothing is left to give back of a transaction that has not succeeded.
LEMMA NothingRefunded ==
    ASSUME InvoiceTypeOK, RowsStand, NEW t \in TxIds, tx[t].status # "succeeded"
    PROVE  RefundedOf(t) = 0
<1> DEFINE column == [q \in RefundIds |-> IF stripeRefund[q].tx = t
                                          THEN stripeRefund[q].amount ELSE 0]
<1>1. \A q \in RefundIds : stripeRefund[q].tx # t
  BY InvoiceAssumption DEF RowsStand, NoRefund, TxIds
<1>2. column \in [RefundIds -> Nat] /\ \A q \in RefundIds : column[q] = 0
  BY <1>1
<1>3. RefundedOf(t) = Total(column)
  BY DEF RefundedOf
<1> HIDE DEF column
<1> QED
  BY <1>2, <1>3, TotalOfZeros

\* The refunds stand while transactions that succeeded do, and none succeeds.
LEMMA RefundsStand ==
    ASSUME InvoiceTypeOK, RowsStand, UNCHANGED <<credit, stripeRefund>>,
           \A t \in TxIds : tx[t].status = "succeeded" => tx'[t] = tx[t],
           \A t \in TxIds : tx'[t].status = "succeeded" => tx[t].status = "succeeded"
    PROVE  /\ \A i : Refundable(i)' = Refundable(i) /\ Awaited(i)' = Awaited(i)
           /\ \A t \in TxIds : RefundedOf(t)' = RefundedOf(t)
<1>1. \A t \in TxIds : RefundedOf(t)' = RefundedOf(t)
  BY DEF RefundedOf
<1>2. \A t \in TxIds : Left(t)' = Left(t)
  BY <1>1 DEF Left
<1>3. \A i : \A t \in TxIds : (IF tx[t].invoice = i THEN Left(t) ELSE 0)'
                                = IF tx[t].invoice = i THEN Left(t) ELSE 0
  BY <1>2 DEF Left
<1>4. \A i : \A r \in RefundIds : Awaits(r, i)' <=> Awaits(r, i)
  <2>1. \A r \in RefundIds : stripeRefund[r].tx # None =>
                                tx'[stripeRefund[r].tx] = tx[stripeRefund[r].tx]
    BY TypesByRow DEF RowsStand, RefundRow
  <2> QED
    BY <2>1 DEF Awaits, CreditedRefund
<1>5. \A i : Refundable(i)' = Refundable(i)
  BY <1>3 DEF Refundable
<1>6. \A i : Awaited(i)' = Awaited(i)
  BY <1>4 DEF Awaited
<1> QED
  BY <1>1, <1>5, <1>6

\* A transaction that succeeds may be given back.
LEMMA RefundableGrows ==
    ASSUME InvoiceTypeOK, RowsStand, RefundsHeld, UNCHANGED <<credit, stripeRefund>>,
           NEW t \in TxIds, tx[t].status # "succeeded",
           tx' = [tx EXCEPT ![t].status = "succeeded"]
    PROVE  /\ \A i : /\ Refundable(i)' = Refundable(i) +
                                           IF tx[t].invoice = i THEN tx[t].amount ELSE 0
                     /\ Awaited(i)' = Awaited(i)
           /\ \A u \in TxIds : RefundedOf(u)' = RefundedOf(u)
<1>1. /\ tx \in [TxIds -> TxRow] /\ \A u \in TxIds : tx[u].amount \in Nat
      /\ \A u \in TxIds \ {t} : tx'[u] = tx[u]
      /\ tx'[t].status = "succeeded" /\ tx'[t].amount = tx[t].amount
      /\ tx'[t].invoice = tx[t].invoice
  BY TypesByRow DEF TxRow
<1>2. \A u \in TxIds : RefundedOf(u)' = RefundedOf(u)
  BY DEF RefundedOf
<1>3. \A u \in TxIds \ {t} : Left(u)' = Left(u)
  BY <1>1, <1>2 DEF Left
<1>4. Left(t) = 0 /\ Left(t)' = tx[t].amount
  BY <1>1, <1>2, NothingRefunded DEF Left
<1>5. ASSUME NEW i
      PROVE  Refundable(i)' = Refundable(i) + IF tx[t].invoice = i THEN tx[t].amount ELSE 0
  <2> DEFINE old == [u \in TxIds |-> IF tx[u].invoice = i THEN Left(u) ELSE 0]
             new == [u \in TxIds |-> IF u = t THEN (IF tx[t].invoice = i THEN tx[t].amount ELSE 0)
                                     ELSE old[u]]
  <2>1. Refundable(i) = Total(old)
    BY DEF Refundable
  <2>2. Refundable(i)' = Total(new)
    <3>1. \A u \in TxIds : (IF tx[u].invoice = i THEN Left(u) ELSE 0)' = new[u]
      BY <1>1, <1>3, <1>4
    <3> QED
      BY <3>1 DEF Refundable
  <2>3. old \in [TxIds -> Nat] /\ new \in [TxIds -> Nat]
    BY <1>1, LeftType
  <2>4. /\ \A u \in TxIds \ {t} : new[u] = old[u]
        /\ old[t] = 0 /\ new[t] = IF tx[t].invoice = i THEN tx[t].amount ELSE 0
    BY <1>4
  <2> HIDE DEF old, new
  <2>5. Total(new) = Total(old) - old[t] + new[t]
    BY <2>3, <2>4, TablesFinite, TotalChange
  <2>6. Total(old) \in Nat
    BY <2>3, TablesFinite, TotalType
  <2> QED
    BY <1>1, <2>1, <2>2, <2>4, <2>5, <2>6
<1>6. \A i : \A r \in RefundIds : Awaits(r, i)' <=> Awaits(r, i)
  <2>1. \A r \in RefundIds : stripeRefund[r].tx # None =>
                                tx'[stripeRefund[r].tx].invoice = tx[stripeRefund[r].tx].invoice
    BY <1>1, TypesByRow DEF RowsStand, RefundRow
  <2> QED
    BY <2>1 DEF Awaits, CreditedRefund
<1>7. \A i : Awaited(i)' = Awaited(i)
  BY <1>6 DEF Awaited
<1> QED
  BY <1>2, <1>5, <1>7
\* A refund in the Stripe Dashboard is no longer refundable, and awaited.
LEMMA RefundMade ==
    ASSUME InvoiceTypeOK, RowsStand, RefundsHeld, UNCHANGED <<credit, tx>>,
           NEW r \in RefundIds, stripeRefund[r].tx = None,
           NEW t \in TxIds, NEW amount \in Nat, tx[t].status = "succeeded",
           amount + RefundedOf(t) <= tx[t].amount,
           stripeRefund' = [stripeRefund EXCEPT ![r] = [tx |-> t, amount |-> amount]]
    PROVE  /\ \A u \in TxIds : RefundedOf(u)' = RefundedOf(u) + IF u = t THEN amount ELSE 0
           /\ \A i : LET given == IF tx[t].invoice = i THEN amount ELSE 0
                     IN  Refundable(i)' = Refundable(i) - given /\ Awaited(i)' = Awaited(i) + given
<1>1. /\ stripeRefund \in [RefundIds -> RefundRow] /\ tx \in [TxIds -> TxRow]
      /\ \A q \in RefundIds : stripeRefund[q].amount \in Nat
      /\ \A q \in RefundIds \ {r} : stripeRefund'[q] = stripeRefund[q]
      /\ stripeRefund'[r].tx = t /\ stripeRefund'[r].amount = amount
      /\ stripeRefund[r] = NoRefund
      /\ None \notin TxIds
  BY TypesByRow, InvoiceAssumption DEF RefundRow, RowsStand, TxIds
<1>2. ASSUME NEW u \in TxIds
      PROVE  RefundedOf(u)' = RefundedOf(u) + IF u = t THEN amount ELSE 0
  <2> DEFINE old == [q \in RefundIds |-> IF stripeRefund[q].tx = u
                                         THEN stripeRefund[q].amount ELSE 0]
             new == [q \in RefundIds |-> IF q = r THEN (IF u = t THEN amount ELSE 0) ELSE old[q]]
  <2>1. RefundedOf(u) = Total(old)
    BY DEF RefundedOf
  <2>2. RefundedOf(u)' = Total(new)
    <3>1. \A q \in RefundIds : (IF stripeRefund[q].tx = u THEN stripeRefund[q].amount ELSE 0)'
                                 = new[q]
      BY <1>1
    <3> QED
      BY <3>1 DEF RefundedOf
  <2>3. old \in [RefundIds -> Nat] /\ new \in [RefundIds -> Nat]
    BY <1>1
  <2>4. /\ \A q \in RefundIds \ {r} : new[q] = old[q]
        /\ old[r] = 0 /\ new[r] = IF u = t THEN amount ELSE 0
    BY <1>1 DEF NoRefund
  <2> HIDE DEF old, new
  <2>5. Total(new) = Total(old) - old[r] + new[r]
    BY <2>3, <2>4, TablesFinite, TotalChange
  <2>6. Total(old) \in Nat
    BY <2>3, TablesFinite, TotalType
  <2> QED
    BY <2>1, <2>2, <2>4, <2>5, <2>6
<1>3. /\ \A u \in TxIds \ {t} : Left(u)' = Left(u)
      /\ Left(t)' = Left(t) - amount /\ Left(t)' \in Nat
  <2>1. \A u \in TxIds \ {t} : RefundedOf(u)' = RefundedOf(u)
    BY <1>2, LeftType
  <2>2. RefundedOf(t)' = RefundedOf(t) + amount /\ RefundedOf(t) \in Nat /\ tx[t].amount \in Nat
    BY <1>1, <1>2, LeftType DEF TxRow
  <2> QED
    BY <2>1, <2>2 DEF Left
<1>4. ASSUME NEW i
      PROVE  Refundable(i)' = Refundable(i) - IF tx[t].invoice = i THEN amount ELSE 0
  <2> DEFINE old == [u \in TxIds |-> IF tx[u].invoice = i THEN Left(u) ELSE 0]
             new == [u \in TxIds |-> IF u = t THEN (IF tx[t].invoice = i THEN Left(t) - amount ELSE 0)
                                     ELSE old[u]]
  <2>1. Refundable(i) = Total(old)
    BY DEF Refundable
  <2>2. Refundable(i)' = Total(new)
    <3>1. \A u \in TxIds : (IF tx[u].invoice = i THEN Left(u) ELSE 0)' = new[u]
      BY <1>3
    <3> QED
      BY <3>1 DEF Refundable
  <2>3. old \in [TxIds -> Nat] /\ new \in [TxIds -> Nat]
    BY <1>3, LeftType
  <2>4. /\ \A u \in TxIds \ {t} : new[u] = old[u]
        /\ old[t] = IF tx[t].invoice = i THEN Left(t) ELSE 0
        /\ new[t] = IF tx[t].invoice = i THEN Left(t) - amount ELSE 0
    OBVIOUS
  <2> HIDE DEF old, new
  <2>5. Total(new) = Total(old) - old[t] + new[t]
    BY <2>3, <2>4, TablesFinite, TotalChange
  <2>6. Total(old) \in Nat /\ Left(t) \in Nat
    BY <2>3, TablesFinite, TotalType, LeftType
  <2> QED
    BY <2>1, <2>2, <2>4, <2>5, <2>6
<1>5. ASSUME NEW i
      PROVE  Awaited(i)' = Awaited(i) + IF tx[t].invoice = i THEN amount ELSE 0
  <2> DEFINE old == [q \in RefundIds |-> IF Awaits(q, i) THEN stripeRefund[q].amount ELSE 0]
             new == [q \in RefundIds |-> IF q = r THEN (IF tx[t].invoice = i THEN amount ELSE 0)
                                         ELSE old[q]]
  <2>1. Awaited(i) = Total(old)
    BY DEF Awaited
  <2>2. ~CreditedRefund(r)
    BY <1>1, TypesByRow, InvoiceAssumption DEF CreditedRefund, RowsStand, RefundIds, CreditRow
  <2>3. Awaited(i)' = Total(new)
    <3>1. \A q \in RefundIds : (IF Awaits(q, i) THEN stripeRefund[q].amount ELSE 0)' = new[q]
      <4>1. /\ \A q \in RefundIds \ {r} : Awaits(q, i)' <=> Awaits(q, i)
            /\ Awaits(r, i)' <=> tx[t].invoice = i
        BY <1>1, <2>2 DEF Awaits, CreditedRefund
      <4> QED
        BY <1>1, <4>1
    <3> QED
      BY <3>1 DEF Awaited
  <2>4. old \in [RefundIds -> Nat] /\ new \in [RefundIds -> Nat]
    BY <1>1
  <2>5. /\ \A q \in RefundIds \ {r} : new[q] = old[q]
        /\ old[r] = 0 /\ new[r] = IF tx[t].invoice = i THEN amount ELSE 0
    BY <1>1 DEF NoRefund
  <2> HIDE DEF old, new
  <2>6. Total(new) = Total(old) - old[r] + new[r]
    BY <2>4, <2>5, TablesFinite, TotalChange
  <2>7. Total(old) \in Nat
    BY <2>4, TablesFinite, TotalType
  <2> QED
    BY <2>1, <2>3, <2>5, <2>6, <2>7
<1> QED
  BY <1>2, <1>4, <1>5

\* A refund that is credited is no longer awaited; a credit by staff reports none.
LEMMA RefundCredited ==
    ASSUME InvoiceTypeOK, RowsStand, RefundsHeld, UNCHANGED <<tx, stripeRefund>>,
           NEW d \in CreditIds, credit[d].kind = "none",
           NEW row \in CreditRow, credit' = [credit EXCEPT ![d] = row]
    PROVE  /\ \A i : Refundable(i)' = Refundable(i)
           /\ \A t \in TxIds : RefundedOf(t)' = RefundedOf(t)
           /\ row.refund = None => \A i : Awaited(i)' = Awaited(i)
           /\ \A r \in RefundIds : \A i :
                row.refund = r /\ ~CreditedRefund(r) /\ stripeRefund[r].tx # None =>
                  Awaited(i)' = Awaited(i) - IF tx[stripeRefund[r].tx].invoice = i
                                             THEN stripeRefund[r].amount ELSE 0
<1>1. \A t \in TxIds : RefundedOf(t)' = RefundedOf(t)
  BY DEF RefundedOf
<1>2. \A t \in TxIds : Left(t)' = Left(t)
  BY <1>1 DEF Left
<1>3. \A i : Refundable(i)' = Refundable(i)
  BY <1>2 DEF Refundable, Left
<1>4. /\ credit[d].refund = None /\ credit'[d] = row
      /\ \A e \in CreditIds \ {d} : credit'[e] = credit[e]
  BY TypesByRow DEF RowsStand, NoCredit
<1>5. None \notin RefundIds
  BY InvoiceAssumption DEF RefundIds
<1>6. ASSUME NEW q \in RefundIds, row.refund # q
      PROVE  CreditedRefund(q)' <=> CreditedRefund(q)
  BY <1>4, <1>5, <1>6 DEF CreditedRefund
<1>7. ASSUME NEW i, row.refund = None
      PROVE  Awaited(i)' = Awaited(i)
  <2>1. \A q \in RefundIds : Awaits(q, i)' <=> Awaits(q, i)
    BY <1>5, <1>6, <1>7 DEF Awaits
  <2> QED
    BY <2>1 DEF Awaited
<1>8. ASSUME NEW r \in RefundIds, NEW i, row.refund = r, ~CreditedRefund(r),
             stripeRefund[r].tx # None
      PROVE  Awaited(i)' = Awaited(i) - IF tx[stripeRefund[r].tx].invoice = i
                                        THEN stripeRefund[r].amount ELSE 0
  <2> DEFINE old == [q \in RefundIds |-> IF Awaits(q, i) THEN stripeRefund[q].amount ELSE 0]
             new == [q \in RefundIds |-> IF q = r THEN 0 ELSE old[q]]
  <2>1. Awaited(i) = Total(old)
    BY DEF Awaited
  <2>2. Awaited(i)' = Total(new)
    <3>1. \A q \in RefundIds : (IF Awaits(q, i) THEN stripeRefund[q].amount ELSE 0)' = new[q]
      <4>1. CreditedRefund(r)'
        BY <1>4, <1>8 DEF CreditedRefund
      <4>2. /\ \A q \in RefundIds \ {r} : Awaits(q, i)' <=> Awaits(q, i)
            /\ ~Awaits(r, i)'
        BY <1>6, <1>8, <4>1 DEF Awaits
      <4> QED
        BY <4>2
    <3> QED
      BY <3>1 DEF Awaited
  <2>3. \A q \in RefundIds : stripeRefund[q].amount \in Nat
    BY TypesByRow DEF RefundRow
  <2>4. old \in [RefundIds -> Nat] /\ new \in [RefundIds -> Nat]
    BY <2>3
  <2>5. /\ \A q \in RefundIds \ {r} : new[q] = old[q]
        /\ new[r] = 0
        /\ old[r] = IF tx[stripeRefund[r].tx].invoice = i THEN stripeRefund[r].amount ELSE 0
    BY <1>8 DEF Awaits
  <2> HIDE DEF old, new
  <2>6. Total(new) = Total(old) - old[r] + new[r]
    BY <2>4, <2>5, TablesFinite, TotalChange
  <2>7. Total(old) \in Nat
    BY <2>4, TablesFinite, TotalType
  <2> QED
    BY <2>1, <2>2, <2>3, <2>5, <2>6, <2>7
<1> QED
  BY <1>1, <1>3, <1>7, <1>8
\* The sums the code takes are the sums by kind.
LEMMA SumsOfCode ==
    ASSUME InvoiceTypeOK, NEW i
    PROVE  /\ SucceededOf(i, TRUE) = Card(i) /\ SucceededOf(i, FALSE) = Cash(i)
           /\ LocalRefundCreditMinor(i) = Local(i) /\ CreditsOf(i, {"note"}) = Notes(i)
           /\ PaidInto(i) = Card(i) + Cash(i)
           /\ CreditsOf(i, {"note", "refund"}) = Notes(i) + Local(i) + GivenBack(i)
           /\ Card(i) \in Nat /\ Cash(i) \in Nat
           /\ Notes(i) \in Nat /\ Local(i) \in Nat /\ GivenBack(i) \in Nat
<1>1. payment \in [PaymentIds -> PaymentRow] /\ credit \in [CreditIds -> CreditRow]
  BY TypesByRow
<1> DEFINE card  == [p \in PaymentIds |-> CardWorth(payment[p], i)]
           cash  == [p \in PaymentIds |-> CashWorth(payment[p], i)]
           paid  == [p \in PaymentIds |-> IF payment[p].invoice = i /\ payment[p].status = "succeeded"
                                          THEN payment[p].amount ELSE 0]
           notes == [d \in CreditIds |-> NoteWorth(credit[d], i)]
           local == [d \in CreditIds |-> LocalWorth(credit[d], i)]
           back  == [d \in CreditIds |-> BackWorth(credit[d], i)]
           refunds == [d \in CreditIds |-> IF credit[d].invoice = i /\ credit[d].kind = "refund"
                                           THEN credit[d].amount ELSE 0]
           all == [d \in CreditIds |-> IF credit[d].invoice = i /\ credit[d].kind \in {"note", "refund"}
                                       THEN credit[d].amount ELSE 0]
<1>2. SucceededOf(i, TRUE) = Card(i)
  BY DEF SucceededOf, Card, CardWorth, InvoicePaymentIsStripeCard
<1>3. SucceededOf(i, FALSE) = Cash(i)
  BY DEF SucceededOf, Cash, CashWorth, InvoicePaymentIsStripeCard
<1>4. LocalRefundCreditMinor(i) = Local(i)
  BY DEF LocalRefundCreditMinor, Local, LocalWorth
<1>5. CreditsOf(i, {"note"}) = Notes(i)
  BY DEF CreditsOf, Notes, NoteWorth
<1>6. /\ PaidInto(i) = Total(paid) /\ CreditsOf(i, {"note", "refund"}) = Total(all)
      /\ Card(i) = Total(card) /\ Cash(i) = Total(cash) /\ Notes(i) = Total(notes)
      /\ Local(i) = Total(local) /\ GivenBack(i) = Total(back)
  BY DEF PaidInto, CreditsOf, Card, Cash, Notes, Local, GivenBack
<1>7. /\ card \in [PaymentIds -> Nat] /\ cash \in [PaymentIds -> Nat]
      /\ paid \in [PaymentIds -> Nat]
  BY <1>1, WorthType DEF PaymentRow
<1>8. /\ notes \in [CreditIds -> Nat] /\ local \in [CreditIds -> Nat]
      /\ back \in [CreditIds -> Nat] /\ refunds \in [CreditIds -> Nat] /\ all \in [CreditIds -> Nat]
  BY <1>1, WorthType DEF CreditRow
<1>9. \A p \in PaymentIds : \/ card[p] = paid[p] /\ cash[p] = 0
                            \/ card[p] = 0 /\ cash[p] = paid[p]
  BY DEF CardWorth, CashWorth
<1>10. \A d \in CreditIds : \/ notes[d] = all[d] /\ refunds[d] = 0
                            \/ notes[d] = 0 /\ refunds[d] = all[d]
  BY <1>1 DEF NoteWorth, CreditRow
<1>11. \A d \in CreditIds : \/ local[d] = refunds[d] /\ back[d] = 0
                            \/ local[d] = 0 /\ back[d] = refunds[d]
  BY DEF LocalWorth, BackWorth
<1> HIDE DEF card, cash, paid, notes, local, back, refunds, all
<1>12. Total(paid) = Total(card) + Total(cash)
  BY <1>7, <1>9, TablesFinite, TotalSplit
<1>13. Total(all) = Total(notes) + Total(refunds)
  BY <1>8, <1>10, TablesFinite, TotalSplit
<1>14. Total(refunds) = Total(local) + Total(back)
  BY <1>8, <1>11, TablesFinite, TotalSplit
<1>15. /\ Total(card) \in Nat /\ Total(cash) \in Nat /\ Total(notes) \in Nat
       /\ Total(local) \in Nat /\ Total(back) \in Nat
  BY <1>7, <1>8, TablesFinite, TotalType
<1>16. PaidInto(i) = Card(i) + Cash(i)
  BY <1>6, <1>12
<1>17. CreditsOf(i, {"note", "refund"}) = Notes(i) + Local(i) + GivenBack(i)
  BY <1>6, <1>13, <1>14, <1>15
<1>18. /\ Card(i) \in Nat /\ Cash(i) \in Nat
       /\ Notes(i) \in Nat /\ Local(i) \in Nat /\ GivenBack(i) \in Nat
  BY <1>6, <1>15
<1> QED
  BY <1>2, <1>3, <1>4, <1>5, <1>16, <1>17, <1>18

-----------------------------------------------------------------------------
(* Invoices.                                                                *)

\* Refreshing an invoice makes its status and balance fit and changes nothing else.
LEMMA RefreshedRow ==
    ASSUME NEW row \in InvoiceRow, row.status # "none", row.status = "void" => BalanceFits(row)
    PROVE  LET new == Refreshed(row) IN
           /\ new \in InvoiceRow /\ BalanceFits(new) /\ new.status # "none"
           /\ new.status = "void" <=> row.status = "void"
           /\ new.period = row.period /\ new.total = row.total
           /\ new.paid = row.paid /\ new.credits = row.credits
<1> DEFINE owed == InvoiceOutstandingMinor(row.total, row.paid, row.credits)
           new  == Refreshed(row)
<1>1. CASE row.status = "void"
  BY <1>1 DEF Refreshed
<1>2. CASE row.status # "void"
  <2>1. row.total \in Nat /\ row.paid \in Nat /\ row.credits \in Nat
    BY DEF InvoiceRow
  <2>2. owed \in Nat
    BY <2>1 DEF InvoiceOutstandingMinor
  <2>3. /\ DeriveInvoiceStatus(row, owed) \in {"issued", "partially_paid", "paid", "overdue"}
        /\ owed = 0 <=> DeriveInvoiceStatus(row, owed) = "paid"
        /\ DeriveInvoiceStatus(row, owed) = "partially_paid" => row.paid > 0
        /\ DeriveInvoiceStatus(row, owed) = "issued" => row.paid = 0
    BY <2>1, <2>2 DEF DeriveInvoiceStatus
  <2>4. /\ new = [row EXCEPT !.outstanding = owed, !.status = DeriveInvoiceStatus(row, owed)]
        /\ new.outstanding = owed /\ new.status = DeriveInvoiceStatus(row, owed)
        /\ new.period = row.period /\ new.total = row.total
        /\ new.paid = row.paid /\ new.credits = row.credits
    BY <1>2 DEF Refreshed, InvoiceRow
  <2> HIDE DEF new
  <2>5. new \in InvoiceRow
    BY <2>2, <2>3, <2>4 DEF InvoiceRow, InvoiceStatus
  <2>6. BalanceFits(new)
    BY <2>2, <2>3, <2>4 DEF BalanceFits, Open
  <2>7. new.status # "none" /\ new.status # "void"
    BY <2>3, <2>4
  <2> QED
    BY <1>2, <2>4, <2>5, <2>6, <2>7 DEF new
<1> QED
  BY <1>1, <1>2

\* An invoice that takes a payment is there, is not void and still owes as much.
LEMMA TakesPayment ==
    ASSUME InvoiceTypeOK, RowsStand, NEW i \in InvoiceIds, NEW amount \in Nat,
           CanTakePayment(i, amount)
    PROVE  /\ invoice[i].status \notin {"none", "void"}
           /\ invoice[i].paid + invoice[i].credits + amount <= invoice[i].total
<1> DEFINE row  == invoice[i]
           owed == InvoiceOutstandingMinor(row.total, row.paid, row.credits)
<1>1. row \in InvoiceRow
  BY TypesByRow
<1>2. row.status # "void"
  BY DEF CanTakePayment, Refreshed, Open
<1>3. Refreshed(row).status = DeriveInvoiceStatus(row, owed) /\ Refreshed(row).outstanding = owed
  BY <1>1, <1>2 DEF Refreshed, InvoiceRow
<1>4. owed # 0 /\ amount <= owed
  BY <1>3 DEF CanTakePayment, DeriveInvoiceStatus, Open
<1>5. row.status # "none"
  BY <1>4 DEF RowsStand, NoInvoice, InvoiceOutstandingMinor
<1>6. row.total \in Nat /\ row.paid \in Nat /\ row.credits \in Nat
  BY <1>1 DEF InvoiceRow
<1> QED
  BY <1>2, <1>4, <1>5, <1>6 DEF InvoiceOutstandingMinor

\* What may become of an invoice once it is issued.
Follows(old, new) ==
    /\ new \in InvoiceRow /\ BalanceFits(new)
    /\ old.status = "none" => new = old
    /\ old.status # "none" => new.status # "none"
    /\ old.status = "void" => new.status = "void"
    /\ new.period = old.period /\ new.total = old.total

\* Where every invoice follows itself, the invoices stand.
LEMMA InvoicesFollow ==
    ASSUME Rows, Statuses, DOMAIN invoice' = InvoiceIds,
           invoice' = [i \in InvoiceIds |-> invoice'[i]],
           \A i \in InvoiceIds : Follows(invoice[i], invoice'[i])
    PROVE  /\ invoice' \in [InvoiceIds -> InvoiceRow]
           /\ \A i \in InvoiceIds : invoice'[i].status = "none" => invoice'[i] = NoInvoice
           /\ Statuses'
<1>1. invoice' \in [InvoiceIds -> InvoiceRow]
  BY DEF Follows
<1>2. \A i \in InvoiceIds : invoice'[i].status = "none" => invoice'[i] = NoInvoice
  BY DEF Follows, Rows, RowsStand
<1>3. StatusTellsTheBalance'
  BY DEF Follows, StatusTellsTheBalance, BalanceFits
<1>4. OneLiveInvoicePerPeriod'
  <2> SUFFICES ASSUME NEW i \in InvoiceIds, NEW j \in InvoiceIds,
                      invoice'[i].status \notin {"none", "void"},
                      invoice'[j].status \notin {"none", "void"},
                      invoice'[i].period = invoice'[j].period
               PROVE  i = j
    BY DEF OneLiveInvoicePerPeriod
  <2>1. /\ invoice[i].status \notin {"none", "void"} /\ invoice[j].status \notin {"none", "void"}
        /\ invoice[i].period = invoice[j].period
    BY DEF Follows
  <2> QED
    BY <2>1 DEF Statuses, OneLiveInvoicePerPeriod
<1> QED
  BY <1>1, <1>2, <1>3, <1>4 DEF Statuses

\* An invoice that is left alone follows itself.
LEMMA OneInvoiceFollows ==
    ASSUME Rows, Statuses, NEW i \in InvoiceIds, NEW new, Follows(invoice[i], new),
           invoice' = [invoice EXCEPT ![i] = new]
    PROVE  /\ DOMAIN invoice' = InvoiceIds /\ invoice' = [j \in InvoiceIds |-> invoice'[j]]
           /\ invoice'[i] = new /\ \A j \in InvoiceIds \ {i} : invoice'[j] = invoice[j]
           /\ \A j \in InvoiceIds : Follows(invoice[j], invoice'[j])
<1>1. invoice \in [InvoiceIds -> InvoiceRow]
  BY TypesByRow DEF Rows
<1>2. \A j \in InvoiceIds : Follows(invoice[j], invoice[j])
  BY <1>1 DEF Statuses, StatusTellsTheBalance, Follows
<1> QED
  BY <1>1, <1>2
-----------------------------------------------------------------------------
(* Steps that book nothing.                                                 *)

\* The books stand while nothing is booked, refunded or settled; an invoice that is
\* issued owes its total.
LEMMA BooksStand ==
    ASSUME Rows, Books, UNCHANGED <<payment, credit, stripeRefund>>,
           \A t \in TxIds : tx[t].status = "succeeded" => tx'[t] = tx[t],
           \A t \in TxIds : tx'[t].status = "succeeded" => tx[t].status = "succeeded",
           \A i \in InvoiceIds :
             /\ invoice'[i].paid = invoice[i].paid /\ invoice'[i].credits = invoice[i].credits
             /\ invoice'[i].total \in Nat /\ invoice'[i].total >= invoice[i].total
    PROVE  Books'
<1>1. InvoiceTypeOK /\ RowsStand /\ RefundsHeld /\ TotalsKept /\ DebtsHeld
  BY DEF Rows, Books
<1>2. /\ \A i : Refundable(i)' = Refundable(i) /\ Awaited(i)' = Awaited(i)
      /\ \A t \in TxIds : RefundedOf(t)' = RefundedOf(t)
  <2>1. UNCHANGED <<credit, stripeRefund>>
    OBVIOUS
  <2> QED
    BY <1>1, <2>1, RefundsStand
<1>3. \A i : /\ Card(i)' = Card(i) /\ Cash(i)' = Cash(i) /\ Notes(i)' = Notes(i)
             /\ Local(i)' = Local(i) /\ GivenBack(i)' = GivenBack(i)
  BY DEF Card, Cash, Notes, Local, GivenBack
<1>4. TotalsKept'
  BY <1>1, <1>3 DEF TotalsKept
<1>5. DebtsHeld'
  <2> SUFFICES ASSUME NEW i \in InvoiceIds
               PROVE  /\ invoice'[i].paid + Notes(i) <= invoice'[i].total
                      /\ invoice'[i].credits <= invoice'[i].total
                      /\ Card(i) > 0 => Card(i) + Notes(i) + Local(i) <= invoice'[i].total
                      /\ GivenBack(i) + Awaited(i) + Refundable(i) <= Card(i)
    BY <1>2, <1>3 DEF DebtsHeld
  <2>1. /\ invoice[i].paid \in Nat /\ invoice[i].credits \in Nat /\ invoice[i].total \in Nat
        /\ Card(i) \in Nat /\ Notes(i) \in Nat /\ Local(i) \in Nat
    BY <1>1, SumsOfCode, TypesByRow DEF InvoiceRow
  <2> QED
    BY <1>1, <2>1 DEF DebtsHeld
<1>6. RefundsHeld'
  BY <1>1, <1>2 DEF RefundsHeld
<1> QED
  BY <1>4, <1>5, <1>6 DEF Books

\* What names rows of the other tables stands while the invoices do.
LEMMA RowsFollow ==
    ASSUME Rows, Statuses, UNCHANGED stripeRefund,
           DOMAIN invoice' = InvoiceIds, invoice' = [i \in InvoiceIds |-> invoice'[i]],
           \A i \in InvoiceIds : Follows(invoice[i], invoice'[i]),
           payment' \in [PaymentIds -> PaymentRow], credit' \in [CreditIds -> CreditRow],
           tx' \in [TxIds -> TxRow], session' \in [TxIds -> SessionStatus],
           \A p \in PaymentIds :
             \/ payment'[p] = payment[p]
             \/ /\ payment'[p].status # "none" /\ payment'[p].invoice \in InvoiceIds
                /\ invoice[payment'[p].invoice].status # "none",
           \A d \in CreditIds :
             \/ credit'[d] = credit[d]
             \/ /\ credit'[d].kind # "none"
                /\ credit'[d].refund # None => stripeRefund[credit'[d].refund].tx # None,
           \A t \in TxIds : tx[t].status = "succeeded" => tx'[t] = tx[t],
           \A t \in TxIds :
             \/ tx'[t] = tx[t] /\ session'[t] = session[t]
             \/ /\ tx'[t].status # "none" /\ tx'[t].invoice \in InvoiceIds
                /\ invoice[tx'[t].invoice].status # "none"
    PROVE  Rows' /\ Statuses'
<1>1. InvoiceTypeOK /\ RowsStand
  BY DEF Rows
<1>2. /\ invoice' \in [InvoiceIds -> InvoiceRow]
      /\ \A i \in InvoiceIds : invoice'[i].status = "none" => invoice'[i] = NoInvoice
      /\ Statuses'
  BY InvoicesFollow
<1>3. InvoiceTypeOK'
  BY <1>1, <1>2, TypesByRow DEF InvoiceTypeOK, InvoiceRow, PaymentRow, CreditRow, TxRow
<1>4. RowsStand'
  <2>1. \A i \in InvoiceIds : invoice[i].status # "none" => invoice'[i].status # "none"
    BY DEF Follows
  <2>2. \A p \in PaymentIds :
          IF payment'[p].status = "none" THEN payment'[p] = NoPayment
          ELSE /\ payment'[p].invoice \in InvoiceIds
               /\ invoice'[payment'[p].invoice].status # "none"
    BY <1>1, <2>1 DEF RowsStand
  <2>3. \A d \in CreditIds :
          /\ credit'[d].kind = "none" => credit'[d] = NoCredit
          /\ credit'[d].refund # None => stripeRefund'[credit'[d].refund].tx # None
    BY <1>1 DEF RowsStand
  <2>4. \A t \in TxIds :
          IF tx'[t].status = "none" THEN tx'[t] = NoTx /\ session'[t] = "none"
          ELSE tx'[t].invoice \in InvoiceIds /\ invoice'[tx'[t].invoice].status # "none"
    BY <1>1, <2>1 DEF RowsStand
  <2>5. \A r \in RefundIds :
          IF stripeRefund'[r].tx = None THEN stripeRefund'[r] = NoRefund
          ELSE tx'[stripeRefund'[r].tx].status = "succeeded"
    BY <1>1, TypesByRow DEF RowsStand, RefundRow
  <2> QED
    BY <1>2, <2>2, <2>3, <2>4, <2>5 DEF RowsStand
<1> QED
  BY <1>2, <1>3, <1>4 DEF Rows

\* The checkouts stand while no transaction, session or card payment changes.
LEMMA CheckoutsStand ==
    ASSUME Checkouts, UNCHANGED <<tx, session>>,
           \A t \in TxIds : BookedFor(t)' = BookedFor(t),
           \A t \in TxIds : \A p \in BookedFor(t) : payment'[p] = payment[p]
    PROVE  Checkouts'
<1>1. OneOpenCheckout'
  BY DEF Checkouts, OneOpenCheckout, OpenSessions
<1>2. BookedOnce'
  <2> SUFFICES ASSUME NEW t \in TxIds
               PROVE  /\ tx[t].status = "succeeded" <=> session[t] = "completed"
                      /\ IF tx[t].status = "succeeded"
                         THEN \E p \in PaymentIds :
                                 /\ BookedFor(t) = {p}
                                 /\ payment'[p].status = "succeeded"
                                 /\ payment'[p].invoice = tx[t].invoice
                                 /\ payment'[p].amount = tx[t].amount
                         ELSE BookedFor(t) = {}
    BY DEF BookedOnce
  <2>1. /\ tx[t].status = "succeeded" <=> session[t] = "completed"
        /\ IF tx[t].status = "succeeded"
           THEN \E p \in PaymentIds :
                   /\ BookedFor(t) = {p}
                   /\ payment[p].status = "succeeded"
                   /\ payment[p].invoice = tx[t].invoice
                   /\ payment[p].amount = tx[t].amount
           ELSE BookedFor(t) = {}
    BY DEF Checkouts, BookedOnce
  <2>2. \A p \in PaymentIds : BookedFor(t) = {p} => payment'[p] = payment[p]
    OBVIOUS
  <2> QED
    BY <2>1, <2>2
<1> QED
  BY <1>1, <1>2 DEF Checkouts

\* A step that only moves one invoice, without booking anything, keeps the invariant.
LEMMA InvoiceMoves ==
    ASSUME BooksInv, UNCHANGED <<payment, credit, tx, session, stripeRefund>>,
           DOMAIN invoice' = InvoiceIds, invoice' = [i \in InvoiceIds |-> invoice'[i]],
           \A i \in InvoiceIds : /\ Follows(invoice[i], invoice'[i])
                                 /\ invoice'[i].paid = invoice[i].paid
                                 /\ invoice'[i].credits = invoice[i].credits
    PROVE  BooksInv'
<1>1. Rows /\ Books /\ Statuses /\ Checkouts
  BY DEF BooksInv
<1>2. Rows' /\ Statuses'
  <2>1. /\ payment' \in [PaymentIds -> PaymentRow] /\ credit' \in [CreditIds -> CreditRow]
        /\ tx' \in [TxIds -> TxRow] /\ session' \in [TxIds -> SessionStatus]
    BY <1>1, TypesByRow DEF Rows
  <2> QED
    BY <1>1, <2>1, RowsFollow
<1>3. Books'
  <2>1. \A i \in InvoiceIds : invoice[i].total \in Nat /\ invoice'[i].total = invoice[i].total
    BY <1>1, TypesByRow DEF Follows, Rows, InvoiceRow
  <2> QED
    BY <1>1, <2>1, BooksStand
<1>4. Checkouts'
  <2>1. \A t \in TxIds : BookedFor(t)' = BookedFor(t)
    BY DEF BookedFor
  <2>2. \A t \in TxIds : \A p \in BookedFor(t) : payment'[p] = payment[p]
    OBVIOUS
  <2>3. UNCHANGED <<tx, session>>
    OBVIOUS
  <2> QED
    BY <1>1, <2>1, <2>2, <2>3, CheckoutsStand
<1> QED
  BY <1>2, <1>3, <1>4 DEF BooksInv
\* A step that changes nothing keeps the invariant.
LEMMA StutterStep ==
    ASSUME BooksInv, UNCHANGED invoiceVars
    PROVE  BooksInv'
<1>1. UNCHANGED <<invoice, payment, credit, tx, session, stripeRefund>>
  BY DEF invoiceVars
<1>2. Rows /\ Statuses /\ invoice \in [InvoiceIds -> InvoiceRow]
  BY TypesByRow DEF BooksInv, Rows
<1>3. /\ DOMAIN invoice' = InvoiceIds /\ invoice' = [i \in InvoiceIds |-> invoice'[i]]
      /\ \A i \in InvoiceIds : Follows(invoice[i], invoice'[i])
  BY <1>1, <1>2 DEF Statuses, StatusTellsTheBalance, Follows
<1> QED
  BY <1>1, <1>3, InvoiceMoves

\* A period is invoiced when its other invoices are void.
LEMMA IssueStep ==
    ASSUME BooksInv, NEW i \in InvoiceIds, NEW period \in Periods, NEW total \in GrossTotals,
           NEW late \in BOOLEAN, IssueInvoice(i, period, total, late)
    PROVE  BooksInv'
<1> DEFINE row == [NoInvoice EXCEPT !.status = "issued", !.period = period,
                                    !.total = total, !.late = late]
           new == Refreshed(row)
<1>1. /\ Rows /\ Books /\ Statuses /\ Checkouts /\ InvoiceTypeOK /\ RowsStand
      /\ invoice \in [InvoiceIds -> InvoiceRow]
  BY TypesByRow DEF BooksInv, Rows
<1>2. /\ UNCHANGED <<payment, credit, tx, session, stripeRefund>>
      /\ invoice' = [invoice EXCEPT ![i] = new]
      /\ invoice[i] = NoInvoice /\ PeriodFree(period)
  BY <1>1 DEF IssueInvoice, FreshInvoice, NextRow, RowsStand
<1>3. row \in InvoiceRow /\ row.status = "issued"
  BY InvoiceAssumption DEF InvoiceRow, NoInvoice, InvoiceStatus
<1>4. /\ row.period = period /\ row.total = total /\ row.paid = 0 /\ row.credits = 0
      /\ total \in Nat
  BY InvoiceAssumption DEF NoInvoice
<1> HIDE DEF row
<1>5. /\ new \in InvoiceRow /\ BalanceFits(new) /\ new.status \notin {"none", "void"}
      /\ new.period = period /\ new.total = total /\ new.paid = 0 /\ new.credits = 0
  BY <1>3, <1>4, RefreshedRow
<1> HIDE DEF new
<1>6. /\ invoice' \in [InvoiceIds -> InvoiceRow] /\ invoice'[i] = new
      /\ \A j \in InvoiceIds \ {i} : invoice'[j] = invoice[j]
  BY <1>1, <1>2, <1>5
<1>7. Rows'
  <2>1. InvoiceTypeOK'
    BY <1>1, <1>2, <1>6, TypesByRow DEF InvoiceTypeOK, InvoiceRow
  <2>2. RowsStand'
    <3>1. \A j \in InvoiceIds : /\ invoice[j].status # "none" => invoice'[j].status # "none"
                                /\ invoice'[j].status = "none" => invoice'[j] = NoInvoice
      BY <1>1, <1>5, <1>6 DEF RowsStand
    <3> QED
      BY <1>1, <1>2, <3>1 DEF RowsStand
  <2> QED
    BY <2>1, <2>2 DEF Rows
<1>8. Books'
  <2>1. \A j \in InvoiceIds :
          /\ invoice'[j].paid = invoice[j].paid /\ invoice'[j].credits = invoice[j].credits
          /\ invoice'[j].total \in Nat /\ invoice'[j].total >= invoice[j].total
    BY <1>1, <1>2, <1>4, <1>5, <1>6 DEF NoInvoice, InvoiceRow
  <2> QED
    BY <1>1, <1>2, <2>1, BooksStand
<1>9. Statuses'
  <2>1. StatusTellsTheBalance'
    BY <1>1, <1>5, <1>6 DEF Statuses, StatusTellsTheBalance, BalanceFits
  <2>2. \A j \in InvoiceIds \ {i} : invoice'[j].period = period => invoice'[j].status = "void"
    BY <1>2, <1>6 DEF PeriodFree
  <2>3. OneLiveInvoicePerPeriod'
    BY <1>1, <1>5, <1>6, <2>2 DEF Statuses, OneLiveInvoicePerPeriod
  <2> QED
    BY <2>1, <2>3 DEF Statuses
<1>10. Checkouts'
  <2>1. \A t \in TxIds : BookedFor(t)' = BookedFor(t)
    BY <1>2 DEF BookedFor
  <2> QED
    BY <1>1, <1>2, <2>1, CheckoutsStand
<1> QED
  BY <1>7, <1>8, <1>9, <1>10 DEF BooksInv

\* An invoice that is loaded, that time passes for or that is voided books nothing.
LEMMA OneInvoiceMoves ==
    ASSUME BooksInv, NEW i \in InvoiceIds, NEW new,
           UNCHANGED <<payment, credit, tx, session, stripeRefund>>,
           invoice' = [invoice EXCEPT ![i] = new], Follows(invoice[i], new),
           new.paid = invoice[i].paid, new.credits = invoice[i].credits
    PROVE  BooksInv'
<1>1. /\ DOMAIN invoice' = InvoiceIds /\ invoice' = [j \in InvoiceIds |-> invoice'[j]]
      /\ invoice'[i] = new /\ \A j \in InvoiceIds \ {i} : invoice'[j] = invoice[j]
      /\ \A j \in InvoiceIds : Follows(invoice[j], invoice'[j])
  BY OneInvoiceFollows DEF BooksInv
<1> QED
  BY <1>1, InvoiceMoves

\* A refreshed invoice follows itself.
LEMMA RefreshFollows ==
    ASSUME Rows, Statuses, NEW i \in InvoiceIds, invoice[i].status # "none"
    PROVE  /\ Follows(invoice[i], Refreshed(invoice[i]))
           /\ Refreshed(invoice[i]).paid = invoice[i].paid
           /\ Refreshed(invoice[i]).credits = invoice[i].credits
<1>1. invoice[i] \in InvoiceRow /\ BalanceFits(invoice[i])
  BY TypesByRow DEF Rows, Statuses, StatusTellsTheBalance
<1> QED
  BY <1>1, RefreshedRow DEF Follows

\* A page that loads an invoice refreshes it.
LEMMA LoadStep ==
    ASSUME BooksInv, NEW i \in InvoiceIds, invoice[i].status # "none",
           invoice' = RefreshedInvoice(i), UNCHANGED <<payment, credit, tx, session, stripeRefund>>
    PROVE  BooksInv'
<1>1. invoice' = [invoice EXCEPT ![i] = Refreshed(invoice[i])]
  BY DEF RefreshedInvoice
<1> QED
  BY <1>1, RefreshFollows, OneInvoiceMoves DEF BooksInv

\* Time makes an invoice late, or a longer grace takes it back.
LEMMA CalendarStep ==
    ASSUME BooksInv, NEW i \in InvoiceIds, TurnCalendar(i)
    PROVE  BooksInv'
<1> DEFINE new == [invoice[i] EXCEPT !.late = ~@]
<1>1. invoice[i] \in InvoiceRow /\ BalanceFits(invoice[i])
  BY TypesByRow DEF BooksInv, Rows, Statuses, StatusTellsTheBalance
<1>2. /\ invoice[i].status \notin {"none", "void"} /\ invoice' = [invoice EXCEPT ![i] = new]
      /\ UNCHANGED <<payment, credit, tx, session, stripeRefund>>
  BY DEF TurnCalendar
<1>3. Follows(invoice[i], new)
  BY <1>1, <1>2 DEF Follows, InvoiceRow, BalanceFits
<1>4. new.paid = invoice[i].paid /\ new.credits = invoice[i].credits
  BY <1>1 DEF InvoiceRow
<1> QED
  BY <1>2, <1>3, <1>4, OneInvoiceMoves

\* Only an invoice that nothing is paid into is voided.
LEMMA VoidStep ==
    ASSUME BooksInv, NEW i \in InvoiceIds, VoidInvoice(i)
    PROVE  BooksInv'
<1> DEFINE new == [invoice[i] EXCEPT !.status = "void", !.outstanding = 0, !.late = FALSE]
<1>1. invoice \in [InvoiceIds -> InvoiceRow]
  BY TypesByRow DEF BooksInv, Rows
<1>2. /\ invoice[i].status \notin {"none", "void"} /\ invoice[i].paid = 0
      /\ invoice' = [invoice EXCEPT ![i] = new]
      /\ UNCHANGED <<payment, credit, tx, session, stripeRefund>>
  BY <1>1 DEF VoidInvoice, InvoiceRow
<1>3. Follows(invoice[i], new)
  BY <1>1, <1>2 DEF Follows, InvoiceRow, InvoiceStatus, BalanceFits, Open
<1>4. new.paid = invoice[i].paid /\ new.credits = invoice[i].credits
  BY <1>1 DEF InvoiceRow
<1> QED
  BY <1>2, <1>3, <1>4, OneInvoiceMoves

\* A page that lists invoices marks those that owe something and are late.
LEMMA SyncStep ==
    ASSUME BooksInv, SyncOverdueInvoiceStatuses
    PROVE  BooksInv'
<1>1. /\ Rows /\ Statuses /\ invoice \in [InvoiceIds -> InvoiceRow]
      /\ \A i \in InvoiceIds : BalanceFits(invoice[i])
  BY TypesByRow DEF BooksInv, Rows, Statuses, StatusTellsTheBalance
<1>2. /\ UNCHANGED <<payment, credit, tx, session, stripeRefund>>
      /\ DOMAIN invoice' = InvoiceIds /\ invoice' = [i \in InvoiceIds |-> invoice'[i]]
      /\ \A i \in InvoiceIds :
           \/ invoice'[i] = invoice[i]
           \/ /\ invoice[i].status \in {"issued", "partially_paid"} /\ invoice[i].outstanding > 0
              /\ invoice'[i] = [invoice[i] EXCEPT !.status = "overdue"]
  BY DEF SyncOverdueInvoiceStatuses
<1>3. ASSUME NEW i \in InvoiceIds
      PROVE  /\ Follows(invoice[i], invoice'[i])
             /\ invoice'[i].paid = invoice[i].paid /\ invoice'[i].credits = invoice[i].credits
  <2>1. CASE invoice'[i] = invoice[i]
    BY <1>1, <2>1 DEF Follows
  <2>2. CASE /\ invoice[i].status \in {"issued", "partially_paid"} /\ invoice[i].outstanding > 0
             /\ invoice'[i] = [invoice[i] EXCEPT !.status = "overdue"]
    BY <1>1, <2>2 DEF Follows, InvoiceRow, InvoiceStatus, BalanceFits, Open
  <2> QED
    BY <1>2, <2>1, <2>2
<1> QED
  BY <1>2, <1>3, InvoiceMoves
-----------------------------------------------------------------------------
(* Payments and credits.                                                    *)

\* What a payment that is booked does to its invoice and to the sums.
LEMMA BookedTotals ==
    ASSUME BooksInv, NEW p \in PaymentIds, NEW i \in InvoiceIds, NEW amount \in Nat,
           NEW ref \in TxIds \cup {None}, NEW webhook \in BOOLEAN,
           CanTakePayment(i, amount), BookPayment(p, i, amount, ref, webhook), UNCHANGED credit
    PROVE  /\ payment[p] = NoPayment /\ payment' \in [PaymentIds -> PaymentRow]
           /\ payment'[p] = [status |-> "succeeded", invoice |-> i, amount |-> amount,
                             ref |-> ref, webhook |-> webhook]
           /\ \A q \in PaymentIds \ {p} : payment'[q] = payment[q]
           /\ invoice[i].status \notin {"none", "void"}
           /\ DOMAIN invoice' = InvoiceIds /\ invoice' = [j \in InvoiceIds |-> invoice'[j]]
           /\ \A j \in InvoiceIds : Follows(invoice[j], invoice'[j])
           /\ TotalsKept'
           /\ \A j \in InvoiceIds :
                /\ invoice'[j].paid + Notes(j)' <= invoice'[j].total
                /\ invoice'[j].credits <= invoice'[j].total
                /\ Card(j)' > 0 => Card(j)' + Notes(j)' + Local(j)' <= invoice'[j].total
                /\ GivenBack(j)' = GivenBack(j)
                /\ Card(j)' = Card(j) + IF j = i /\ ref # None THEN amount ELSE 0
<1> DEFINE row  == [status |-> "succeeded", invoice |-> i, amount |-> amount, ref |-> ref,
                    webhook |-> webhook]
           paid == [invoice[i] EXCEPT !.paid = @ + amount]
           new  == Refreshed(paid)
<1>1. /\ Rows /\ Statuses /\ InvoiceTypeOK /\ RowsStand /\ TotalsKept /\ DebtsHeld
      /\ invoice \in [InvoiceIds -> InvoiceRow] /\ payment \in [PaymentIds -> PaymentRow]
      /\ \A j \in InvoiceIds : BalanceFits(invoice[j])
  BY TypesByRow DEF BooksInv, Rows, Books, Statuses, StatusTellsTheBalance
<1>2. /\ payment[p] = NoPayment /\ payment' = [payment EXCEPT ![p] = row]
      /\ invoice' = [invoice EXCEPT ![i] = new]
  BY <1>1 DEF BookPayment, FreshPayment, NextRow, RowsStand
<1>3. row \in PaymentRow
  BY DEF PaymentRow
<1>4. /\ payment' \in [PaymentIds -> PaymentRow] /\ payment'[p] = row
      /\ \A q \in PaymentIds \ {p} : payment'[q] = payment[q]
  BY <1>1, <1>2, <1>3
<1>5. /\ invoice[i].status \notin {"none", "void"}
      /\ invoice[i].paid + invoice[i].credits + amount <= invoice[i].total
  BY <1>1, TakesPayment
<1>6. /\ paid \in InvoiceRow /\ paid.status = invoice[i].status /\ paid.period = invoice[i].period
      /\ paid.total = invoice[i].total /\ paid.paid = invoice[i].paid + amount
      /\ paid.credits = invoice[i].credits
  BY <1>1 DEF InvoiceRow
<1> HIDE DEF paid, row
<1>7. /\ Follows(invoice[i], new) /\ new.paid = invoice[i].paid + amount
      /\ new.credits = invoice[i].credits /\ new.total = invoice[i].total
  BY <1>5, <1>6, RefreshedRow DEF Follows
<1> HIDE DEF new
<1>8. /\ DOMAIN invoice' = InvoiceIds /\ invoice' = [j \in InvoiceIds |-> invoice'[j]]
      /\ invoice'[i] = new /\ \A j \in InvoiceIds \ {i} : invoice'[j] = invoice[j]
      /\ \A j \in InvoiceIds : Follows(invoice[j], invoice'[j])
  BY <1>1, <1>2, <1>7, OneInvoiceFollows
<1>9. ASSUME NEW j \in InvoiceIds
      PROVE  /\ Card(j)' = Card(j) + (IF j = i /\ ref # None THEN amount ELSE 0)
             /\ Cash(j)' = Cash(j) + (IF j = i /\ ref = None THEN amount ELSE 0)
  <2>1. /\ Card(j) \in Nat /\ Cash(j) \in Nat
        /\ Card(j)' = Card(j) - CardWorth(payment[p], j) + CardWorth(row, j)
        /\ Cash(j)' = Cash(j) - CashWorth(payment[p], j) + CashWorth(row, j)
    BY <1>1, <1>2, <1>3, PaymentSums
  <2>2. /\ CardWorth(payment[p], j) = 0 /\ CashWorth(payment[p], j) = 0
        /\ CardWorth(row, j) = IF j = i /\ ref # None THEN amount ELSE 0
        /\ CashWorth(row, j) = IF j = i /\ ref = None THEN amount ELSE 0
    BY <1>2 DEF CardWorth, CashWorth, NoPayment, row
  <2> QED
    BY <2>1, <2>2
<1>10. \A j : Notes(j)' = Notes(j) /\ Local(j)' = Local(j) /\ GivenBack(j)' = GivenBack(j)
  BY DEF Notes, Local, GivenBack
<1>11. ASSUME NEW j \in InvoiceIds
       PROVE  /\ invoice'[j].paid = Card(j)' + Cash(j)'
              /\ invoice'[j].credits = Notes(j) + Local(j) + GivenBack(j)
              /\ invoice'[j].paid + Notes(j) <= invoice'[j].total
              /\ invoice'[j].credits <= invoice'[j].total
              /\ Card(j)' > 0 => Card(j)' + Notes(j) + Local(j) <= invoice'[j].total
  <2>1. /\ Card(j) \in Nat /\ Cash(j) \in Nat /\ Notes(j) \in Nat /\ Local(j) \in Nat
        /\ GivenBack(j) \in Nat
    BY <1>1, SumsOfCode
  <2>2. /\ invoice[j].paid = Card(j) + Cash(j)
        /\ invoice[j].credits = Notes(j) + Local(j) + GivenBack(j)
        /\ invoice[j].paid + Notes(j) <= invoice[j].total
        /\ invoice[j].credits <= invoice[j].total
        /\ Card(j) > 0 => Card(j) + Notes(j) + Local(j) <= invoice[j].total
    BY <1>1 DEF TotalsKept, DebtsHeld
  <2>3. invoice[j].total \in Nat
    BY <1>1 DEF InvoiceRow
  <2>4. CASE j = i
    BY <1>5, <1>7, <1>8, <1>9, <2>1, <2>2, <2>3, <2>4
  <2>5. CASE j # i
    BY <1>8, <1>9, <2>1, <2>2, <2>5
  <2> QED
    BY <2>4, <2>5
<1>12. TotalsKept'
  BY <1>10, <1>11 DEF TotalsKept
<1>13. payment'[p] = [status |-> "succeeded", invoice |-> i, amount |-> amount, ref |-> ref,
                      webhook |-> webhook]
  BY <1>4 DEF row
<1>14. \A j \in InvoiceIds :
         /\ invoice'[j].paid + Notes(j)' <= invoice'[j].total
         /\ invoice'[j].credits <= invoice'[j].total
         /\ Card(j)' > 0 => Card(j)' + Notes(j)' + Local(j)' <= invoice'[j].total
         /\ GivenBack(j)' = GivenBack(j)
         /\ Card(j)' = Card(j) + IF j = i /\ ref # None THEN amount ELSE 0
  BY <1>9, <1>10, <1>11
<1> QED
  BY <1>2, <1>4, <1>5, <1>8, <1>12, <1>13, <1>14
\* Staff enter a payment, which may name a payment intent.
LEMMA RecordStep ==
    ASSUME BooksInv, NEW i \in InvoiceIds, NEW amount \in Amounts, NEW ref \in TxIds \cup {None},
           RecordInvoicePayment(i, amount, ref)
    PROVE  BooksInv'
<1>1. /\ Rows /\ Books /\ Statuses /\ Checkouts /\ InvoiceTypeOK /\ RowsStand
      /\ UNCHANGED <<credit, tx, session, stripeRefund>> /\ CanTakePayment(i, amount)
      /\ amount \in Nat
  BY InvoiceAssumption DEF BooksInv, Rows, RecordInvoicePayment, Amounts
<1>2. PICK p \in PaymentIds : BookPayment(p, i, amount, ref, FALSE)
  BY DEF RecordInvoicePayment
<1>3. /\ payment[p] = NoPayment /\ payment' \in [PaymentIds -> PaymentRow]
      /\ payment'[p] = [status |-> "succeeded", invoice |-> i, amount |-> amount,
                        ref |-> ref, webhook |-> FALSE]
      /\ \A q \in PaymentIds \ {p} : payment'[q] = payment[q]
      /\ invoice[i].status \notin {"none", "void"}
      /\ DOMAIN invoice' = InvoiceIds /\ invoice' = [j \in InvoiceIds |-> invoice'[j]]
      /\ \A j \in InvoiceIds : Follows(invoice[j], invoice'[j])
      /\ TotalsKept'
      /\ \A j \in InvoiceIds :
           /\ invoice'[j].paid + Notes(j)' <= invoice'[j].total
           /\ invoice'[j].credits <= invoice'[j].total
           /\ Card(j)' > 0 => Card(j)' + Notes(j)' + Local(j)' <= invoice'[j].total
           /\ GivenBack(j)' = GivenBack(j)
           /\ Card(j)' = Card(j) + IF j = i /\ ref # None THEN amount ELSE 0
  BY <1>1, <1>2, BookedTotals
<1>4. Rows' /\ Statuses'
  <2>1. /\ credit' \in [CreditIds -> CreditRow]
        /\ tx' \in [TxIds -> TxRow] /\ session' \in [TxIds -> SessionStatus]
    BY <1>1, TypesByRow
  <2>2. \A q \in PaymentIds :
          \/ payment'[q] = payment[q]
          \/ /\ payment'[q].status # "none" /\ payment'[q].invoice \in InvoiceIds
             /\ invoice[payment'[q].invoice].status # "none"
    BY <1>3
  <2> QED
    BY <1>1, <1>3, <2>1, <2>2, RowsFollow
<1>5. Books'
  <2>1. /\ \A j : Refundable(j)' = Refundable(j) /\ Awaited(j)' = Awaited(j)
        /\ \A t \in TxIds : RefundedOf(t)' = RefundedOf(t)
    BY <1>1, RefundsStand
  <2>2. RefundsHeld'
    BY <1>1, <2>1 DEF Books, RefundsHeld
  <2>3. ASSUME NEW j \in InvoiceIds
        PROVE  GivenBack(j)' + Awaited(j)' + Refundable(j)' <= Card(j)'
    <3>1. /\ GivenBack(j) + Awaited(j) + Refundable(j) <= Card(j) /\ Card(j) \in Nat
          /\ GivenBack(j) \in Nat /\ Awaited(j) \in Nat /\ Refundable(j) \in Nat
      BY <1>1, SumsOfCode, LeftType DEF Books, DebtsHeld
    <3> QED
      BY <1>1, <1>3, <2>1, <3>1
  <2> QED
    BY <1>3, <2>2, <2>3 DEF Books, DebtsHeld
<1>6. Checkouts'
  <2>1. \A t \in TxIds : \A q \in PaymentIds :
          (payment'[q].webhook /\ payment'[q].ref = t) <=> (payment[q].webhook /\ payment[q].ref = t)
    BY <1>3 DEF NoPayment
  <2>2. \A t \in TxIds : BookedFor(t)' = BookedFor(t)
    BY <2>1 DEF BookedFor
  <2>3. \A t \in TxIds : \A q \in BookedFor(t) : payment'[q] = payment[q]
    BY <1>3 DEF BookedFor, NoPayment
  <2> QED
    BY <1>1, <2>2, <2>3, CheckoutsStand
<1> QED
  BY <1>4, <1>5, <1>6 DEF BooksInv

\* Staff take back a payment that no card paid.
LEMMA ReverseStep ==
    ASSUME BooksInv, NEW p \in PaymentIds, ReverseInvoicePayment(p)
    PROVE  BooksInv'
<1> DEFINE i    == payment[p].invoice
           row  == [payment[p] EXCEPT !.status = "reversed"]
           paid == [invoice[i] EXCEPT !.paid = PaidLess(invoice[i], payment[p].amount)]
           new  == Refreshed(paid)
<1>1. /\ Rows /\ Books /\ Statuses /\ Checkouts /\ InvoiceTypeOK /\ RowsStand
      /\ TotalsKept /\ DebtsHeld /\ RefundsHeld
      /\ invoice \in [InvoiceIds -> InvoiceRow] /\ payment \in [PaymentIds -> PaymentRow]
      /\ \A j \in InvoiceIds : BalanceFits(invoice[j])
  BY TypesByRow DEF BooksInv, Rows, Books, Statuses, StatusTellsTheBalance
<1>2. /\ payment[p].status = "succeeded" /\ payment[p].ref = None
      /\ payment' = [payment EXCEPT ![p] = row] /\ invoice' = [invoice EXCEPT ![i] = new]
      /\ UNCHANGED <<credit, tx, session, stripeRefund>>
  BY <1>1 DEF ReverseInvoicePayment, InvoicePaymentIsStripeCard, PaymentRow
<1>3. i \in InvoiceIds /\ invoice[i].status # "none" /\ payment[p].amount \in Nat
  BY <1>1, <1>2 DEF RowsStand, PaymentRow
<1>4. /\ row \in PaymentRow /\ row.status = "reversed" /\ row.invoice = i /\ row.ref = None
      /\ row.webhook = payment[p].webhook
  BY <1>1, <1>2 DEF PaymentRow
<1> HIDE DEF row
<1>5. /\ payment' \in [PaymentIds -> PaymentRow] /\ payment'[p] = row
      /\ \A q \in PaymentIds \ {p} : payment'[q] = payment[q]
  BY <1>1, <1>2, <1>4
<1>6. \A j : /\ Card(j) \in Nat /\ Cash(j) \in Nat /\ Card(j)' = Card(j)
             /\ Cash(j)' = Cash(j) - IF j = i THEN payment[p].amount ELSE 0
  <2> SUFFICES ASSUME NEW j
               PROVE  /\ Card(j) \in Nat /\ Cash(j) \in Nat /\ Card(j)' = Card(j)
                      /\ Cash(j)' = Cash(j) - IF j = i THEN payment[p].amount ELSE 0
    OBVIOUS
  <2>1. /\ Card(j) \in Nat /\ Cash(j) \in Nat
        /\ Card(j)' = Card(j) - CardWorth(payment[p], j) + CardWorth(row, j)
        /\ Cash(j)' = Cash(j) - CashWorth(payment[p], j) + CashWorth(row, j)
    BY <1>1, <1>2, <1>4, PaymentSums
  <2>2. /\ CardWorth(payment[p], j) = 0 /\ CardWorth(row, j) = 0 /\ CashWorth(row, j) = 0
        /\ CashWorth(payment[p], j) = IF j = i THEN payment[p].amount ELSE 0
    BY <1>2, <1>4 DEF CardWorth, CashWorth
  <2> QED
    BY <1>3, <2>1, <2>2
\* The payment is part of what came in, so that nothing is cut off.
<1>7. payment[p].amount <= Cash(i)
  <2> DEFINE cash == [q \in PaymentIds |-> CashWorth(payment[q], i)]
  <2>1. cash \in [PaymentIds -> Nat] /\ cash[p] = payment[p].amount /\ Cash(i) = Total(cash)
    BY <1>1, <1>2, WorthType DEF Cash, CashWorth
  <2> HIDE DEF cash
  <2> QED
    BY <2>1, TablesFinite, RowAtMostTotal
<1>8. /\ paid \in InvoiceRow /\ paid.status = invoice[i].status /\ paid.period = invoice[i].period
      /\ paid.total = invoice[i].total /\ paid.credits = invoice[i].credits
      /\ paid.paid = invoice[i].paid - payment[p].amount
  <2>1. /\ invoice[i].paid \in Nat /\ invoice[i].paid >= payment[p].amount
        /\ PaidLess(invoice[i], payment[p].amount) = invoice[i].paid - payment[p].amount
    BY <1>1, <1>3, <1>6, <1>7 DEF TotalsKept, PaidLess, InvoiceRow
  <2> QED
    BY <1>1, <1>3, <2>1 DEF InvoiceRow
<1>9. paid.status = "void" => BalanceFits(paid)
  BY <1>1, <1>3, <1>8 DEF BalanceFits, Open, InvoiceRow
<1> HIDE DEF paid
<1>10. /\ Follows(invoice[i], new) /\ new.paid = invoice[i].paid - payment[p].amount
       /\ new.credits = invoice[i].credits /\ new.total = invoice[i].total
  BY <1>3, <1>8, <1>9, RefreshedRow DEF Follows
<1> HIDE DEF new
<1>11. /\ DOMAIN invoice' = InvoiceIds /\ invoice' = [j \in InvoiceIds |-> invoice'[j]]
       /\ invoice'[i] = new /\ \A j \in InvoiceIds \ {i} : invoice'[j] = invoice[j]
       /\ \A j \in InvoiceIds : Follows(invoice[j], invoice'[j])
  BY <1>1, <1>2, <1>3, <1>10, OneInvoiceFollows
<1>12. Rows' /\ Statuses'
  <2>1. /\ credit' \in [CreditIds -> CreditRow]
        /\ tx' \in [TxIds -> TxRow] /\ session' \in [TxIds -> SessionStatus]
    BY <1>1, <1>2, TypesByRow
  <2>2. \A q \in PaymentIds :
          \/ payment'[q] = payment[q]
          \/ /\ payment'[q].status # "none" /\ payment'[q].invoice \in InvoiceIds
             /\ invoice[payment'[q].invoice].status # "none"
    BY <1>3, <1>4, <1>5
  <2>3. UNCHANGED stripeRefund /\ UNCHANGED credit /\ UNCHANGED tx /\ UNCHANGED session
    BY <1>2
  <2> QED
    BY <1>1, <1>5, <1>11, <2>1, <2>2, <2>3, RowsFollow
<1>13. Books'
  <2>1. /\ \A j : Refundable(j)' = Refundable(j) /\ Awaited(j)' = Awaited(j)
        /\ \A t \in TxIds : RefundedOf(t)' = RefundedOf(t)
    BY <1>1, <1>2, RefundsStand
  <2>2. RefundsHeld'
    BY <1>1, <1>2, <2>1 DEF RefundsHeld
  <2>3. \A j : Notes(j)' = Notes(j) /\ Local(j)' = Local(j) /\ GivenBack(j)' = GivenBack(j)
    BY <1>2 DEF Notes, Local, GivenBack
  <2>4. ASSUME NEW j \in InvoiceIds
        PROVE  /\ invoice'[j].paid = Card(j)' + Cash(j)'
               /\ invoice'[j].credits = Notes(j) + Local(j) + GivenBack(j)
               /\ invoice'[j].paid + Notes(j) <= invoice'[j].total
               /\ invoice'[j].credits <= invoice'[j].total
               /\ Card(j) > 0 => Card(j) + Notes(j) + Local(j) <= invoice'[j].total
    <3>1. /\ invoice[j].paid = Card(j) + Cash(j)
          /\ invoice[j].credits = Notes(j) + Local(j) + GivenBack(j)
          /\ invoice[j].paid + Notes(j) <= invoice[j].total
          /\ invoice[j].credits <= invoice[j].total
          /\ Card(j) > 0 => Card(j) + Notes(j) + Local(j) <= invoice[j].total
      BY <1>1 DEF TotalsKept, DebtsHeld
    <3>2. /\ invoice[j].paid \in Nat /\ invoice[j].total \in Nat
          /\ Notes(j) \in Nat /\ Card(j) \in Nat /\ Cash(j) \in Nat
      BY <1>1, SumsOfCode DEF InvoiceRow
    <3>3. CASE j = i
      BY <1>3, <1>6, <1>10, <1>11, <3>1, <3>2, <3>3
    <3>4. CASE j # i
      BY <1>6, <1>11, <3>1, <3>2, <3>4
    <3> QED
      BY <3>3, <3>4
  <2>5. TotalsKept'
    BY <2>3, <2>4 DEF TotalsKept
  <2>6. DebtsHeld'
    BY <1>1, <1>6, <2>1, <2>3, <2>4 DEF DebtsHeld
  <2> QED
    BY <2>2, <2>5, <2>6 DEF Books
<1>14. Checkouts'
  <2>1. None \notin TxIds
    BY InvoiceAssumption DEF TxIds
  <2>2. \A t \in TxIds : \A q \in PaymentIds :
          (payment'[q].webhook /\ payment'[q].ref = t) <=> (payment[q].webhook /\ payment[q].ref = t)
    BY <1>2, <1>4, <1>5, <2>1
  <2>3. \A t \in TxIds : BookedFor(t)' = BookedFor(t)
    BY <2>2 DEF BookedFor
  <2>4. \A t \in TxIds : \A q \in BookedFor(t) : payment'[q] = payment[q]
    BY <1>2, <1>5, <2>1 DEF BookedFor
  <2>5. UNCHANGED <<tx, session>>
    BY <1>2
  <2> QED
    BY <1>1, <2>3, <2>4, <2>5, CheckoutsStand
<1> QED
  BY <1>12, <1>13, <1>14 DEF BooksInv
\* What a credit does to its invoice and to the sums: a note takes of what is owed, a
\* refund of what is left of the total, and one that staff enter beside card money of
\* what came in otherwise.
LEMMA CreditTotals ==
    ASSUME BooksInv, NEW i \in InvoiceIds, NEW kind \in {"note", "refund"}, NEW amount \in Nat,
           NEW refundId \in RefundIds \cup {None}, ApplyCredit(i, kind, amount, refundId),
           UNCHANGED <<payment, tx, session, stripeRefund>>,
           kind = "note" => amount > 0 /\ refundId = None,
           kind = "refund" /\ refundId = None /\ Card(i) > 0 => amount <= Cash(i) - Local(i),
           refundId # None => stripeRefund[refundId].tx # None
    PROVE  /\ Rows' /\ Statuses' /\ Checkouts' /\ TotalsKept'
           /\ \E d \in CreditIds :
                /\ credit[d].kind = "none"
                /\ credit' = [credit EXCEPT ![d] = [kind |-> kind, invoice |-> i, amount |-> amount,
                                                    refund |-> refundId]]
                /\ [kind |-> kind, invoice |-> i, amount |-> amount, refund |-> refundId]
                     \in CreditRow
           /\ \A j \in InvoiceIds :
                /\ invoice'[j].paid + Notes(j)' <= invoice'[j].total
                /\ invoice'[j].credits <= invoice'[j].total
                /\ Card(j)' > 0 => Card(j)' + Notes(j)' + Local(j)' <= invoice'[j].total
                /\ Card(j)' = Card(j)
                /\ GivenBack(j)' = GivenBack(j) + IF j = i /\ refundId # None THEN amount ELSE 0
<1> DEFINE row  == [kind |-> kind, invoice |-> i, amount |-> amount, refund |-> refundId]
           more == [invoice[i] EXCEPT !.credits = @ + amount]
           new  == Refreshed(more)
           old  == Refreshed(invoice[i])
<1>1. /\ Rows /\ Books /\ Statuses /\ Checkouts /\ InvoiceTypeOK /\ RowsStand
      /\ TotalsKept /\ DebtsHeld
      /\ invoice \in [InvoiceIds -> InvoiceRow] /\ credit \in [CreditIds -> CreditRow]
      /\ \A j \in InvoiceIds : BalanceFits(invoice[j])
  BY TypesByRow DEF BooksInv, Rows, Books, Statuses, StatusTellsTheBalance
<1>2. /\ invoice[i].status \notin {"none", "void"} /\ amount <= CreditCap(old, kind)
      /\ invoice' = [invoice EXCEPT ![i] = new]
  BY DEF ApplyCredit
<1>3. PICK d \in CreditIds : FreshCredit(d) /\ credit' = [credit EXCEPT ![d] = row]
  BY DEF ApplyCredit
<1>4. credit[d] = NoCredit /\ row \in CreditRow
  BY <1>1, <1>3 DEF FreshCredit, NextRow, RowsStand, CreditRow
<1>5. /\ old.outstanding = InvoiceOutstandingMinor(invoice[i].total, invoice[i].paid, invoice[i].credits)
      /\ old.total = invoice[i].total /\ old.credits = invoice[i].credits
  BY <1>1, <1>2 DEF Refreshed, InvoiceRow
<1> HIDE DEF old, row
<1>6. /\ invoice[i].paid \in Nat /\ invoice[i].total \in Nat /\ invoice[i].credits \in Nat
      /\ invoice[i].credits + amount <= invoice[i].total
      /\ kind = "note" => invoice[i].paid + invoice[i].credits + amount <= invoice[i].total
  <2>1. /\ invoice[i].paid \in Nat /\ invoice[i].total \in Nat /\ invoice[i].credits \in Nat
    BY <1>1 DEF InvoiceRow
  <2>2. CASE kind = "note"
    BY <1>2, <1>5, <2>1, <2>2 DEF CreditCap, InvoiceOutstandingMinor
  <2>3. CASE kind = "refund"
    BY <1>2, <1>5, <2>1, <2>3 DEF CreditCap
  <2> QED
    BY <2>1, <2>2, <2>3
<1>7. /\ more \in InvoiceRow /\ more.status = invoice[i].status /\ more.period = invoice[i].period
      /\ more.total = invoice[i].total /\ more.paid = invoice[i].paid
      /\ more.credits = invoice[i].credits + amount
  BY <1>1 DEF InvoiceRow
<1> HIDE DEF more
<1>8. /\ Follows(invoice[i], new) /\ new.paid = invoice[i].paid
      /\ new.credits = invoice[i].credits + amount /\ new.total = invoice[i].total
  BY <1>2, <1>7, RefreshedRow DEF Follows
<1> HIDE DEF new
<1>9. /\ DOMAIN invoice' = InvoiceIds /\ invoice' = [j \in InvoiceIds |-> invoice'[j]]
      /\ invoice'[i] = new /\ \A j \in InvoiceIds \ {i} : invoice'[j] = invoice[j]
      /\ \A j \in InvoiceIds : Follows(invoice[j], invoice'[j])
  BY <1>1, <1>2, <1>8, OneInvoiceFollows
<1>10. /\ credit' \in [CreditIds -> CreditRow] /\ credit'[d] = row
       /\ \A e \in CreditIds \ {d} : credit'[e] = credit[e]
  BY <1>1, <1>3, <1>4
<1>11. Rows' /\ Statuses'
  <2>1. /\ payment' \in [PaymentIds -> PaymentRow]
        /\ tx' \in [TxIds -> TxRow] /\ session' \in [TxIds -> SessionStatus]
    BY <1>1, TypesByRow
  <2>2. \A e \in CreditIds :
          \/ credit'[e] = credit[e]
          \/ /\ credit'[e].kind # "none"
             /\ credit'[e].refund # None => stripeRefund[credit'[e].refund].tx # None
    BY <1>10 DEF row
  <2> QED
    BY <1>1, <1>9, <1>10, <2>1, <2>2, RowsFollow
<1>12. Checkouts'
  <2>1. \A t \in TxIds : BookedFor(t)' = BookedFor(t)
    BY DEF BookedFor
  <2> QED
    BY <1>1, <2>1, CheckoutsStand
<1>13. \A j : Card(j)' = Card(j) /\ Cash(j)' = Cash(j)
  BY DEF Card, Cash
<1>14. ASSUME NEW j \in InvoiceIds
       PROVE  /\ Notes(j)' = Notes(j) + (IF j = i /\ kind = "note" THEN amount ELSE 0)
              /\ Local(j)' = Local(j) + (IF j = i /\ kind = "refund" /\ refundId = None
                                         THEN amount ELSE 0)
              /\ GivenBack(j)' = GivenBack(j) + (IF j = i /\ kind = "refund" /\ refundId # None
                                                 THEN amount ELSE 0)
  <2>1. /\ Notes(j) \in Nat /\ Local(j) \in Nat /\ GivenBack(j) \in Nat
        /\ Notes(j)' = Notes(j) - NoteWorth(credit[d], j) + NoteWorth(row, j)
        /\ Local(j)' = Local(j) - LocalWorth(credit[d], j) + LocalWorth(row, j)
        /\ GivenBack(j)' = GivenBack(j) - BackWorth(credit[d], j) + BackWorth(row, j)
    BY <1>1, <1>3, <1>4, CreditSums
  <2>2. /\ NoteWorth(credit[d], j) = 0 /\ LocalWorth(credit[d], j) = 0 /\ BackWorth(credit[d], j) = 0
        /\ NoteWorth(row, j) = IF j = i /\ kind = "note" THEN amount ELSE 0
        /\ LocalWorth(row, j) = IF j = i /\ kind = "refund" /\ refundId = None THEN amount ELSE 0
        /\ BackWorth(row, j) = IF j = i /\ kind = "refund" /\ refundId # None THEN amount ELSE 0
    BY <1>4 DEF NoteWorth, LocalWorth, BackWorth, NoCredit, row
  <2> QED
    BY <2>1, <2>2
<1>15. ASSUME NEW j \in InvoiceIds
       PROVE  /\ invoice'[j].paid = Card(j) + Cash(j)
              /\ invoice'[j].credits = Notes(j)' + Local(j)' + GivenBack(j)'
              /\ invoice'[j].paid + Notes(j)' <= invoice'[j].total
              /\ invoice'[j].credits <= invoice'[j].total
              /\ Card(j) > 0 => Card(j) + Notes(j)' + Local(j)' <= invoice'[j].total
  <2>1. /\ Card(j) \in Nat /\ Cash(j) \in Nat /\ Notes(j) \in Nat /\ Local(j) \in Nat
        /\ GivenBack(j) \in Nat
    BY <1>1, SumsOfCode
  <2>2. /\ invoice[j].paid = Card(j) + Cash(j)
        /\ invoice[j].credits = Notes(j) + Local(j) + GivenBack(j)
        /\ invoice[j].paid + Notes(j) <= invoice[j].total
        /\ invoice[j].credits <= invoice[j].total
        /\ Card(j) > 0 => Card(j) + Notes(j) + Local(j) <= invoice[j].total
    BY <1>1 DEF TotalsKept, DebtsHeld
  <2>3. CASE j # i
    BY <1>9, <1>14, <2>1, <2>2, <2>3
  <2>4. CASE j = i /\ kind = "note"
    BY <1>6, <1>8, <1>9, <1>14, <2>1, <2>2, <2>4
  <2>5. CASE j = i /\ kind = "refund" /\ refundId = None
    BY <1>6, <1>8, <1>9, <1>14, <2>1, <2>2, <2>5
  <2>6. CASE j = i /\ kind = "refund" /\ refundId # None
    BY <1>6, <1>8, <1>9, <1>14, <2>1, <2>2, <2>6
  <2> QED
    BY <2>3, <2>4, <2>5, <2>6
<1>16. TotalsKept'
  BY <1>13, <1>15 DEF TotalsKept
<1>17. \E e \in CreditIds :
         /\ credit[e].kind = "none"
         /\ credit' = [credit EXCEPT ![e] = [kind |-> kind, invoice |-> i, amount |-> amount,
                                             refund |-> refundId]]
         /\ [kind |-> kind, invoice |-> i, amount |-> amount, refund |-> refundId] \in CreditRow
  <2>1. credit[d].kind = "none"
    BY <1>4 DEF NoCredit
  <2> QED
    BY <1>3, <1>4, <2>1 DEF row
<1>18. \A j \in InvoiceIds :
         /\ invoice'[j].paid + Notes(j)' <= invoice'[j].total
         /\ invoice'[j].credits <= invoice'[j].total
         /\ Card(j)' > 0 => Card(j)' + Notes(j)' + Local(j)' <= invoice'[j].total
         /\ Card(j)' = Card(j)
         /\ GivenBack(j)' = GivenBack(j) + IF j = i /\ refundId # None THEN amount ELSE 0
  BY <1>13, <1>14, <1>15
<1> QED
  BY <1>11, <1>12, <1>16, <1>17, <1>18

\* Staff enter a note or a refund.
LEMMA CreditStep ==
    ASSUME BooksInv, NEW i \in InvoiceIds, NEW kind \in {"note", "refund"}, NEW amount \in Amounts,
           CreateInvoiceCredit(i, kind, amount)
    PROVE  BooksInv'
<1>1. /\ Rows /\ Books /\ InvoiceTypeOK /\ RowsStand /\ DebtsHeld /\ RefundsHeld
      /\ UNCHANGED <<payment, tx, session, stripeRefund>> /\ ApplyCredit(i, kind, amount, None)
      /\ amount \in Nat /\ amount > 0
  BY InvoiceAssumption DEF BooksInv, Rows, Books, CreateInvoiceCredit, Amounts
<1>2. kind = "refund" /\ Card(i) > 0 => amount <= Cash(i) - Local(i)
  BY <1>1, SumsOfCode DEF CreateInvoiceCredit, LocalRefundAllowed
<1>3. /\ Rows' /\ Statuses' /\ Checkouts' /\ TotalsKept'
      /\ \E d \in CreditIds :
           /\ credit[d].kind = "none"
           /\ credit' = [credit EXCEPT ![d] = [kind |-> kind, invoice |-> i, amount |-> amount,
                                               refund |-> None]]
           /\ [kind |-> kind, invoice |-> i, amount |-> amount, refund |-> None] \in CreditRow
      /\ \A j \in InvoiceIds :
           /\ invoice'[j].paid + Notes(j)' <= invoice'[j].total
           /\ invoice'[j].credits <= invoice'[j].total
           /\ Card(j)' > 0 => Card(j)' + Notes(j)' + Local(j)' <= invoice'[j].total
           /\ Card(j)' = Card(j)
           /\ GivenBack(j)' = GivenBack(j) + IF j = i /\ None # None THEN amount ELSE 0
  BY <1>1, <1>2, CreditTotals
<1>4. /\ \A j : Refundable(j)' = Refundable(j)
      /\ \A t \in TxIds : RefundedOf(t)' = RefundedOf(t)
      /\ \A j : Awaited(j)' = Awaited(j)
  <2>1. PICK d \in CreditIds :
           /\ credit[d].kind = "none"
           /\ credit' = [credit EXCEPT ![d] = [kind |-> kind, invoice |-> i, amount |-> amount,
                                               refund |-> None]]
           /\ [kind |-> kind, invoice |-> i, amount |-> amount, refund |-> None] \in CreditRow
    BY <1>3
  <2> DEFINE row == [kind |-> kind, invoice |-> i, amount |-> amount, refund |-> None]
  <2>2. row.refund = None /\ row \in CreditRow /\ credit' = [credit EXCEPT ![d] = row]
    BY <2>1
  <2> HIDE DEF row
  <2> QED
    BY <1>1, <2>1, <2>2, RefundCredited
<1>5. Books'
  <2>1. RefundsHeld'
    BY <1>1, <1>4 DEF RefundsHeld
  <2>2. ASSUME NEW j \in InvoiceIds
        PROVE  GivenBack(j)' + Awaited(j)' + Refundable(j)' <= Card(j)'
    <3>1. GivenBack(j)' = GivenBack(j)
      <4>1. GivenBack(j) \in Nat
        BY <1>1, SumsOfCode
      <4>2. GivenBack(j)' = GivenBack(j) + IF j = i /\ None # None THEN amount ELSE 0
        BY <1>3
      <4> QED
        BY <4>1, <4>2
    <3> QED
      BY <1>1, <1>3, <1>4, <3>1 DEF DebtsHeld
  <2> QED
    BY <1>3, <2>1, <2>2 DEF Books, DebtsHeld
<1> QED
  BY <1>3, <1>5 DEF BooksInv
-----------------------------------------------------------------------------
(* Checkouts and events.                                                    *)

\* Sessions that end leave at most one open checkout.
LEMMA SessionEnds ==
    ASSUME OneOpenCheckout, NEW t \in TxIds, session \in [TxIds -> SessionStatus],
           tx \in [TxIds -> TxRow], session'[t] # "open",
           \A u \in TxIds \ {t} : tx'[u] = tx[u] /\ session'[u] = session[u]
    PROVE  OneOpenCheckout'
<1> SUFFICES ASSUME NEW u \in TxIds, session'[u] = "open"
             PROVE  /\ tx'[u].status = "pending"
                    /\ {v \in TxIds : tx'[v].invoice = tx'[u].invoice /\ session'[v] = "open"} = {u}
  BY DEF OneOpenCheckout, OpenSessions
<1>1. u # t /\ tx'[u] = tx[u] /\ session[u] = "open"
  OBVIOUS
<1>2. tx[u].status = "pending" /\ OpenSessions(tx[u].invoice) = {u}
  BY <1>1 DEF OneOpenCheckout
<1>3. \A v \in TxIds : tx'[v].invoice = tx'[u].invoice /\ session'[v] = "open" => v = u
  BY <1>1, <1>2 DEF OpenSessions
<1> QED
  BY <1>1, <1>2, <1>3

\* A transaction that closes without money books nothing.
LEMMA TxCloses ==
    ASSUME BooksInv, NEW t \in TxIds, NEW closed \in {"failed", "cancelled"},
           NEW ended \in SessionStatus \ {"open", "completed"}, tx[t].status = "pending",
           tx' = [tx EXCEPT ![t].status = closed], session' = [session EXCEPT ![t] = ended],
           UNCHANGED <<invoice, payment, credit, stripeRefund>>
    PROVE  BooksInv'
<1>1. /\ Rows /\ Books /\ Statuses /\ Checkouts /\ InvoiceTypeOK /\ RowsStand
      /\ OneOpenCheckout /\ BookedOnce
      /\ tx \in [TxIds -> TxRow] /\ session \in [TxIds -> SessionStatus]
      /\ invoice \in [InvoiceIds -> InvoiceRow]
  BY TypesByRow DEF BooksInv, Rows, Checkouts
<1>2. /\ tx' \in [TxIds -> TxRow] /\ session' \in [TxIds -> SessionStatus]
      /\ tx'[t].status = closed /\ tx'[t].invoice = tx[t].invoice /\ session'[t] = ended
      /\ \A u \in TxIds \ {t} : tx'[u] = tx[u] /\ session'[u] = session[u]
  BY <1>1 DEF TxRow, TxStatus
<1>3. tx[t].invoice \in InvoiceIds /\ invoice[tx[t].invoice].status # "none"
  BY <1>1 DEF RowsStand
<1>4. Rows' /\ Statuses'
  <2>1. /\ DOMAIN invoice' = InvoiceIds /\ invoice' = [j \in InvoiceIds |-> invoice'[j]]
        /\ \A j \in InvoiceIds : Follows(invoice[j], invoice'[j])
    BY <1>1 DEF Follows, Statuses, StatusTellsTheBalance
  <2>2. payment' \in [PaymentIds -> PaymentRow] /\ credit' \in [CreditIds -> CreditRow]
    BY <1>1, TypesByRow
  <2>3. \A u \in TxIds :
          \/ tx'[u] = tx[u] /\ session'[u] = session[u]
          \/ /\ tx'[u].status # "none" /\ tx'[u].invoice \in InvoiceIds
             /\ invoice[tx'[u].invoice].status # "none"
    BY <1>2, <1>3
  <2>4. \A u \in TxIds : tx[u].status = "succeeded" => tx'[u] = tx[u]
    BY <1>2
  <2> QED
    BY <1>1, <1>2, <2>1, <2>2, <2>3, <2>4, RowsFollow
<1>5. Books'
  <2>1. /\ \A u \in TxIds : tx[u].status = "succeeded" => tx'[u] = tx[u]
        /\ \A u \in TxIds : tx'[u].status = "succeeded" => tx[u].status = "succeeded"
    BY <1>2
  <2>2. \A i \in InvoiceIds : invoice[i].total \in Nat
    BY <1>1 DEF InvoiceRow
  <2> QED
    BY <1>1, <2>1, <2>2, BooksStand
<1>6. OneOpenCheckout'
  BY <1>1, <1>2, SessionEnds
<1>7. BookedOnce'
  <2>1. \A u \in TxIds : BookedFor(u)' = BookedFor(u)
    BY DEF BookedFor
  <2>2. BookedFor(t) = {}
    BY <1>1 DEF BookedOnce
  <2> QED
    BY <1>1, <1>2, <2>1, <2>2 DEF BookedOnce
<1> QED
  BY <1>4, <1>5, <1>6, <1>7 DEF BooksInv, Checkouts

\* A new checkout closes the one that is open.
LEMMA CheckoutStep ==
    ASSUME BooksInv, NEW i \in InvoiceIds, NEW amount \in Amounts, NEW ended \in {"failed", "expired"},
           CreateInvoiceCheckoutSession(i, amount, ended)
    PROVE  BooksInv'
<1>1. /\ Rows /\ Books /\ Statuses /\ Checkouts /\ InvoiceTypeOK /\ RowsStand
      /\ OneOpenCheckout /\ BookedOnce
      /\ tx \in [TxIds -> TxRow] /\ session \in [TxIds -> SessionStatus]
      /\ invoice \in [InvoiceIds -> InvoiceRow]
      /\ amount \in Nat /\ CanTakePayment(i, amount) /\ UNCHANGED <<payment, credit, stripeRefund>>
  BY TypesByRow, InvoiceAssumption
     DEF BooksInv, Rows, Checkouts, Amounts, CreateInvoiceCheckoutSession
<1> DEFINE L == LatestOpen(i)
<1>2. PICK t \in TxIds :
        /\ FreshTx(t)
        /\ tx' = [CheckoutClosed(i, ended).tx EXCEPT ![t] =
                    [status |-> "pending", invoice |-> i, amount |-> amount]]
        /\ session' = [CheckoutClosed(i, ended).session EXCEPT ![t] = "open"]
  BY DEF CreateInvoiceCheckoutSession
<1>3. /\ \A u \in L : u \in TxIds /\ tx[u].invoice = i /\ session[u] = "open"
      /\ \A u \in L : tx[u].status = "pending" /\ OpenSessions(i) = {u}
      /\ \A u : OpenSessions(i) = {u} => u \in L
  <2>1. \A u \in L : u \in TxIds /\ tx[u].invoice = i /\ session[u] = "open"
    BY DEF LatestOpen, OpenSessions
  <2>2. \A u \in TxIds : u <= u
    BY DEF TxIds
  <2>3. \A u : OpenSessions(i) = {u} => u \in TxIds
    BY DEF OpenSessions
  <2> QED
    BY <1>1, <2>1, <2>2, <2>3 DEF OneOpenCheckout, LatestOpen
<1>4. /\ tx[t] = NoTx /\ session[t] = "none" /\ t \notin L
      /\ tx'[t] = [status |-> "pending", invoice |-> i, amount |-> amount] /\ session'[t] = "open"
      /\ \A u \in L : /\ tx'[u] = [tx[u] EXCEPT !.status = "failed"] /\ session'[u] = ended
      /\ \A u \in TxIds \ (L \cup {t}) : tx'[u] = tx[u] /\ session'[u] = session[u]
      /\ DOMAIN tx' = TxIds /\ DOMAIN session' = TxIds
      /\ tx' = [u \in TxIds |-> tx'[u]] /\ session' = [u \in TxIds |-> session'[u]]
  <2>1. tx[t] = NoTx /\ session[t] = "none"
    BY <1>1, <1>2 DEF FreshTx, NextRow, RowsStand
  <2>2. t \notin L
    BY <1>3, <2>1
  <2> HIDE DEF L
  <2>3. /\ tx' = [[u \in TxIds |-> IF u \in L /\ tx[u].status = "pending"
                                   THEN [tx[u] EXCEPT !.status = "failed"] ELSE tx[u]]
                   EXCEPT ![t] = [status |-> "pending", invoice |-> i, amount |-> amount]]
        /\ session' = [[u \in TxIds |-> IF u \in L THEN ended ELSE session[u]] EXCEPT ![t] = "open"]
    BY <1>2 DEF CheckoutClosed, L
  <2> QED
    BY <1>3, <2>1, <2>2, <2>3
<1> HIDE DEF L
<1>5. invoice[i].status # "none"
  BY <1>1, TakesPayment
<1>6. /\ invoice' = [invoice EXCEPT ![i] = Refreshed(invoice[i])]
      /\ Follows(invoice[i], Refreshed(invoice[i]))
      /\ Refreshed(invoice[i]).paid = invoice[i].paid
      /\ Refreshed(invoice[i]).credits = invoice[i].credits
  BY <1>1, <1>5, RefreshFollows DEF CreateInvoiceCheckoutSession, RefreshedInvoice
<1>7. /\ DOMAIN invoice' = InvoiceIds /\ invoice' = [j \in InvoiceIds |-> invoice'[j]]
      /\ invoice'[i] = Refreshed(invoice[i])
      /\ \A j \in InvoiceIds \ {i} : invoice'[j] = invoice[j]
      /\ \A j \in InvoiceIds : Follows(invoice[j], invoice'[j])
  BY <1>1, <1>6, OneInvoiceFollows
<1>closed. ASSUME NEW u \in L
           PROVE  /\ u \in TxIds /\ tx'[u] \in TxRow /\ tx'[u].status = "failed"
                  /\ tx'[u].invoice = i /\ tx[u].status = "pending"
  <2>1. u \in TxIds /\ tx[u].status = "pending" /\ tx[u].invoice = i
    BY <1>3
  <2>2. tx'[u] = [tx[u] EXCEPT !.status = "failed"] /\ tx[u] \in TxRow
    BY <1>1, <1>4, <2>1
  <2> QED
    BY <2>1, <2>2 DEF TxRow, TxStatus
<1>opened. /\ tx[t].status = "none" /\ tx'[t] \in TxRow
           /\ tx'[t].status = "pending" /\ tx'[t].invoice = i
  BY <1>1, <1>4 DEF TxRow, TxStatus, NoTx
<1>others. \A u \in TxIds : u = t \/ u \in L \/ (tx'[u] = tx[u] /\ session'[u] = session[u])
  BY <1>4
<1>8. /\ \A u \in TxIds : tx[u].status = "succeeded" => tx'[u] = tx[u]
      /\ \A u \in TxIds : tx'[u].status = "succeeded" => tx[u].status = "succeeded"
  BY <1>closed, <1>opened, <1>others
<1>9. Rows' /\ Statuses'
  <2>1. tx' \in [TxIds -> TxRow]
    <3>1. \A u \in TxIds : tx'[u] \in TxRow
      BY <1>1, <1>closed, <1>opened, <1>others
    <3>2. tx' = [u \in TxIds |-> tx'[u]]
      BY <1>4
    <3> QED
      BY <3>1, <3>2
  <2>2. session' \in [TxIds -> SessionStatus]
    <3>1. \A u \in TxIds : session'[u] \in SessionStatus
      BY <1>1, <1>3, <1>4 DEF SessionStatus
    <3> QED
      BY <1>4, <3>1
  <2>3. payment' \in [PaymentIds -> PaymentRow] /\ credit' \in [CreditIds -> CreditRow]
    BY <1>1, TypesByRow
  <2>4. \A u \in TxIds :
          \/ tx'[u] = tx[u] /\ session'[u] = session[u]
          \/ /\ tx'[u].status # "none" /\ tx'[u].invoice \in InvoiceIds
             /\ invoice[tx'[u].invoice].status # "none"
    BY <1>5, <1>closed, <1>opened, <1>others
  <2> QED
    BY <1>1, <1>7, <1>8, <2>1, <2>2, <2>3, <2>4, RowsFollow
<1>10. Books'
  <2>1. \A j \in InvoiceIds :
          /\ invoice'[j].paid = invoice[j].paid /\ invoice'[j].credits = invoice[j].credits
          /\ invoice'[j].total \in Nat /\ invoice'[j].total >= invoice[j].total
    BY <1>1, <1>6, <1>7 DEF Follows, InvoiceRow
  <2> QED
    BY <1>1, <1>8, <2>1, BooksStand
<1>11. OneOpenCheckout'
  <2> SUFFICES ASSUME NEW u \in TxIds, session'[u] = "open"
               PROVE  /\ tx'[u].status = "pending"
                      /\ {v \in TxIds : tx'[v].invoice = tx'[u].invoice /\ session'[v] = "open"} = {u}
    BY DEF OneOpenCheckout, OpenSessions
  <2>1. u \notin L
    BY <1>4
  <2>2. \A v \in TxIds : session'[v] = "open" /\ v # t =>
           /\ v \notin L /\ session[v] = "open" /\ tx'[v] = tx[v]
           /\ tx[v].status = "pending" /\ OpenSessions(tx[v].invoice) = {v} /\ tx[v].invoice # i
    BY <1>1, <1>3, <1>4 DEF OneOpenCheckout
  <2>3. \A v \in TxIds : tx'[v].invoice = tx'[u].invoice /\ session'[v] = "open" => v = u
    <3> SUFFICES ASSUME NEW v \in TxIds, tx'[v].invoice = tx'[u].invoice, session'[v] = "open"
                 PROVE  v = u
      OBVIOUS
    <3>1. CASE u = t \/ v = t
      BY <1>4, <2>2, <3>1
    <3>2. CASE u # t /\ v # t
      BY <2>2, <3>2 DEF OpenSessions
    <3> QED
      BY <3>1, <3>2
  <2>4. tx'[u].status = "pending"
    BY <1>4, <2>2
  <2> QED
    BY <2>3, <2>4
<1>12. BookedOnce'
  <2>1. \A u \in TxIds : BookedFor(u)' = BookedFor(u)
    BY <1>1 DEF BookedFor
  <2> SUFFICES ASSUME NEW u \in TxIds
               PROVE  /\ tx'[u].status = "succeeded" <=> session'[u] = "completed"
                      /\ IF tx'[u].status = "succeeded"
                         THEN \E p \in PaymentIds :
                                 /\ BookedFor(u) = {p}
                                 /\ payment[p].status = "succeeded"
                                 /\ payment[p].invoice = tx'[u].invoice
                                 /\ payment[p].amount = tx'[u].amount
                         ELSE BookedFor(u) = {}
    BY <1>1, <2>1 DEF BookedOnce
  <2>2. CASE u \in L \cup {t}
    <3>1. tx[u].status # "succeeded" /\ tx'[u].status # "succeeded" /\ session'[u] # "completed"
      <4>1. session'[u] # "completed"
        BY <1>4, <2>2
      <4> QED
        BY <1>closed, <1>opened, <2>2, <4>1
    <3> QED
      BY <1>1, <3>1 DEF BookedOnce
  <2>3. CASE u \notin L \cup {t}
    BY <1>1, <1>4, <2>3 DEF BookedOnce
  <2> QED
    BY <2>2, <2>3
<1> QED
  BY <1>9, <1>10, <1>11, <1>12 DEF BooksInv, Checkouts
\* A refund in the Stripe Dashboard turns money that may be given back into money that
\* the invoice waits to show.
LEMMA DashboardStep ==
    ASSUME BooksInv, NEW r \in RefundIds, NEW t \in TxIds, NEW amount \in Amounts,
           RefundInDashboard(r, t, amount)
    PROVE  BooksInv'
<1> DEFINE row == [tx |-> t, amount |-> amount]
<1>1. /\ Rows /\ Books /\ Statuses /\ Checkouts /\ InvoiceTypeOK /\ RowsStand
      /\ TotalsKept /\ DebtsHeld /\ RefundsHeld
      /\ stripeRefund \in [RefundIds -> RefundRow] /\ tx \in [TxIds -> TxRow]
      /\ amount \in Nat /\ UNCHANGED <<invoice, payment, credit, tx, session>>
  BY TypesByRow, InvoiceAssumption DEF BooksInv, Rows, Books, Amounts, RefundInDashboard
<1>2. /\ stripeRefund[r].tx = None /\ tx[t].status = "succeeded"
      /\ stripeRefund' = [stripeRefund EXCEPT ![r] = row]
      /\ amount + RefundedOf(t) <= tx[t].amount
  BY DEF RefundInDashboard, FreshRefund, NextRow, RefundedOf
<1>3. /\ stripeRefund' \in [RefundIds -> RefundRow] /\ stripeRefund'[r] = row
      /\ \A q \in RefundIds \ {r} : stripeRefund'[q] = stripeRefund[q]
  BY <1>1, <1>2 DEF RefundRow
<1>4. /\ \A u \in TxIds : RefundedOf(u)' = RefundedOf(u) + IF u = t THEN amount ELSE 0
      /\ \A i : LET given == IF tx[t].invoice = i THEN amount ELSE 0
                IN  Refundable(i)' = Refundable(i) - given /\ Awaited(i)' = Awaited(i) + given
  BY <1>1, <1>2, RefundMade
<1>5. Rows'
  <2>1. InvoiceTypeOK'
    BY <1>1, <1>3 DEF InvoiceTypeOK, RefundRow
  <2>2. t # None
    BY InvoiceAssumption DEF TxIds
  <2>3. \A d \in CreditIds : credit[d].refund # None => stripeRefund'[credit[d].refund].tx # None
    BY <1>1, <1>3, <2>2, TypesByRow DEF RowsStand, CreditRow
  <2>4. \A q \in RefundIds : IF stripeRefund'[q].tx = None THEN stripeRefund'[q] = NoRefund
                             ELSE tx[stripeRefund'[q].tx].status = "succeeded"
    BY <1>1, <1>2, <1>3, <2>2 DEF RowsStand
  <2>5. RowsStand'
    BY <1>1, <2>3, <2>4 DEF RowsStand
  <2> QED
    BY <2>1, <2>5 DEF Rows
<1>6. Books'
  <2>1. \A i : /\ Card(i)' = Card(i) /\ Cash(i)' = Cash(i) /\ Notes(i)' = Notes(i)
               /\ Local(i)' = Local(i) /\ GivenBack(i)' = GivenBack(i)
    BY <1>1 DEF Card, Cash, Notes, Local, GivenBack
  <2>2. TotalsKept'
    BY <1>1, <2>1 DEF TotalsKept
  <2>3. RefundsHeld'
    <3>1. \A u \in TxIds : RefundedOf(u) \in Nat /\ tx[u].amount \in Nat
      BY <1>1, LeftType DEF TxRow
    <3> QED
      BY <1>1, <1>2, <1>4, <3>1 DEF RefundsHeld
  <2>4. ASSUME NEW i \in InvoiceIds
        PROVE  GivenBack(i) + Awaited(i)' + Refundable(i)' <= Card(i)
    <3> DEFINE given == IF tx[t].invoice = i THEN amount ELSE 0
    <3>1. /\ Refundable(i)' = Refundable(i) - given /\ Awaited(i)' = Awaited(i) + given
      BY <1>4
    <3>2. /\ GivenBack(i) \in Nat /\ Awaited(i) \in Nat /\ Refundable(i) \in Nat /\ given \in Nat
      BY <1>1, SumsOfCode, LeftType
    <3>3. GivenBack(i) + Awaited(i) + Refundable(i) <= Card(i)
      BY <1>1 DEF DebtsHeld
    <3> HIDE DEF given
    <3> QED
      BY <3>1, <3>2, <3>3
  <2>5. DebtsHeld'
    BY <1>1, <2>1, <2>4 DEF DebtsHeld
  <2> QED
    BY <2>2, <2>3, <2>5 DEF Books
<1>7. Statuses'
  BY <1>1 DEF Statuses, StatusTellsTheBalance, BalanceFits, OneLiveInvoicePerPeriod
<1>8. Checkouts'
  <2>1. \A u \in TxIds : BookedFor(u)' = BookedFor(u)
    BY <1>1 DEF BookedFor
  <2> QED
    BY <1>1, <2>1, CheckoutsStand
<1> QED
  BY <1>5, <1>6, <1>7, <1>8 DEF BooksInv

\* An event that credits its transaction books one payment for it.
LEMMA SettleCreditStep ==
    ASSUME BooksInv, NEW e \in InvoiceEvents, NEW res, tx[e.tx].status # "none", SettleCredit(e, res)
    PROVE  BooksInv'
<1> DEFINE t == e.tx
           i == tx[t].invoice
           amount == tx[t].amount
<1>1. /\ Rows /\ Books /\ Statuses /\ Checkouts /\ InvoiceTypeOK /\ RowsStand
      /\ OneOpenCheckout /\ BookedOnce /\ DebtsHeld /\ RefundsHeld
      /\ tx \in [TxIds -> TxRow] /\ session \in [TxIds -> SessionStatus]
      /\ payment \in [PaymentIds -> PaymentRow]
  BY TypesByRow DEF BooksInv, Rows, Books, Checkouts
<1>2. t \in TxIds /\ i \in InvoiceIds /\ amount \in Nat
  BY <1>1 DEF InvoiceEvents, RowsStand, TxRow
<1>3. /\ tx[t].status # "succeeded" /\ CanTakePayment(i, amount)
      /\ tx' = [tx EXCEPT ![t].status = "succeeded"]
      /\ session' = [session EXCEPT ![t] = "completed"]
      /\ UNCHANGED <<credit, stripeRefund>>
  BY DEF SettleCredit, AlreadyBooked
<1>4. PICK p \in PaymentIds : BookPayment(p, i, amount, t, TRUE)
  BY DEF SettleCredit
<1>5. /\ tx' \in [TxIds -> TxRow] /\ session' \in [TxIds -> SessionStatus]
      /\ tx'[t].status = "succeeded" /\ tx'[t].invoice = i /\ tx'[t].amount = amount
      /\ session'[t] = "completed"
      /\ \A u \in TxIds \ {t} : tx'[u] = tx[u] /\ session'[u] = session[u]
  BY <1>1, <1>2, <1>3 DEF TxRow, TxStatus, SessionStatus
<1>6. t # None
  BY <1>2, InvoiceAssumption DEF TxIds
<1> HIDE DEF t, i, amount
<1>7. /\ payment[p] = NoPayment /\ payment' \in [PaymentIds -> PaymentRow]
      /\ payment'[p] = [status |-> "succeeded", invoice |-> i, amount |-> amount,
                        ref |-> t, webhook |-> TRUE]
      /\ \A q \in PaymentIds \ {p} : payment'[q] = payment[q]
      /\ invoice[i].status \notin {"none", "void"}
      /\ DOMAIN invoice' = InvoiceIds /\ invoice' = [j \in InvoiceIds |-> invoice'[j]]
      /\ \A j \in InvoiceIds : Follows(invoice[j], invoice'[j])
      /\ TotalsKept'
      /\ \A j \in InvoiceIds :
           /\ invoice'[j].paid + Notes(j)' <= invoice'[j].total
           /\ invoice'[j].credits <= invoice'[j].total
           /\ Card(j)' > 0 => Card(j)' + Notes(j)' + Local(j)' <= invoice'[j].total
           /\ GivenBack(j)' = GivenBack(j)
           /\ Card(j)' = Card(j) + IF j = i /\ t # None THEN amount ELSE 0
  <2>1. t \in TxIds \cup {None} /\ TRUE \in BOOLEAN /\ UNCHANGED credit
    BY <1>2, <1>3
  <2> QED
    BY <1>2, <1>3, <1>4, <2>1, BookedTotals, ZenonT(40)
<1>8. Rows' /\ Statuses'
  <2>1. credit' \in [CreditIds -> CreditRow]
    BY <1>1, <1>3, TypesByRow
  <2>2. \A q \in PaymentIds :
          \/ payment'[q] = payment[q]
          \/ /\ payment'[q].status # "none" /\ payment'[q].invoice \in InvoiceIds
             /\ invoice[payment'[q].invoice].status # "none"
    BY <1>2, <1>7
  <2>3. \A u \in TxIds :
          \/ tx'[u] = tx[u] /\ session'[u] = session[u]
          \/ /\ tx'[u].status # "none" /\ tx'[u].invoice \in InvoiceIds
             /\ invoice[tx'[u].invoice].status # "none"
    BY <1>2, <1>5, <1>7
  <2>4. \A u \in TxIds : tx[u].status = "succeeded" => tx'[u] = tx[u]
    BY <1>3, <1>5
  <2>5. UNCHANGED stripeRefund /\ UNCHANGED credit
    BY <1>3
  <2> QED
    BY <1>1, <1>5, <1>7, <2>1, <2>2, <2>3, <2>4, <2>5, RowsFollow
<1>9. Books'
  <2>1. /\ \A j : /\ Refundable(j)' = Refundable(j) + IF tx[t].invoice = j THEN tx[t].amount ELSE 0
                  /\ Awaited(j)' = Awaited(j)
        /\ \A u \in TxIds : RefundedOf(u)' = RefundedOf(u)
    BY <1>1, <1>2, <1>3, RefundableGrows
  <2>2. RefundsHeld'
    <3>1. RefundedOf(t) = 0
      BY <1>1, <1>2, <1>3, NothingRefunded
    <3> QED
      BY <1>1, <1>2, <1>5, <2>1, <3>1 DEF RefundsHeld
  <2>3. ASSUME NEW j \in InvoiceIds
        PROVE  GivenBack(j)' + Awaited(j)' + Refundable(j)' <= Card(j)'
    <3>1. /\ GivenBack(j) \in Nat /\ Awaited(j) \in Nat /\ Refundable(j) \in Nat /\ Card(j) \in Nat
      BY <1>1, SumsOfCode, LeftType
    <3>2. GivenBack(j) + Awaited(j) + Refundable(j) <= Card(j)
      BY <1>1 DEF DebtsHeld
    <3>3. /\ Refundable(j)' = Refundable(j) + (IF i = j THEN amount ELSE 0)
          /\ Awaited(j)' = Awaited(j) /\ GivenBack(j)' = GivenBack(j)
          /\ Card(j)' = Card(j) + (IF i = j THEN amount ELSE 0)
      BY <1>6, <1>7, <2>1 DEF i, amount
    <3> QED
      BY <1>2, <3>1, <3>2, <3>3
  <2> QED
    BY <1>7, <2>2, <2>3 DEF Books, DebtsHeld
<1>10. OneOpenCheckout'
  BY <1>1, <1>2, <1>5, SessionEnds
<1>11. BookedOnce'
  <2> SUFFICES ASSUME NEW u \in TxIds
               PROVE  /\ tx'[u].status = "succeeded" <=> session'[u] = "completed"
                      /\ IF tx'[u].status = "succeeded"
                         THEN \E q \in PaymentIds :
                                 /\ BookedFor(u)' = {q}
                                 /\ payment'[q].status = "succeeded"
                                 /\ payment'[q].invoice = tx'[u].invoice
                                 /\ payment'[q].amount = tx'[u].amount
                         ELSE BookedFor(u)' = {}
    BY DEF BookedOnce
  <2>1. BookedFor(u)' = BookedFor(u) \cup IF u = t THEN {p} ELSE {}
    <3>1. \A q \in PaymentIds : payment'[q].webhook /\ payment'[q].ref = u <=>
                                  (payment[q].webhook /\ payment[q].ref = u) \/ (u = t /\ q = p)
      BY <1>7 DEF NoPayment
    <3> QED
      BY <3>1 DEF BookedFor
  <2>2. CASE u = t
    <3>1. BookedFor(u) = {}
      BY <1>1, <1>2, <1>3, <2>2 DEF BookedOnce
    <3> QED
      BY <1>5, <1>7, <2>1, <2>2, <3>1
  <2>3. CASE u # t
    <3>1. tx'[u] = tx[u] /\ session'[u] = session[u] /\ BookedFor(u)' = BookedFor(u)
      BY <1>5, <2>1, <2>3
    <3>2. \A q \in BookedFor(u) : payment'[q] = payment[q]
      BY <1>7 DEF BookedFor, NoPayment
    <3>3. /\ tx[u].status = "succeeded" <=> session[u] = "completed"
          /\ IF tx[u].status = "succeeded"
             THEN \E q \in PaymentIds :
                     /\ BookedFor(u) = {q}
                     /\ payment[q].status = "succeeded"
                     /\ payment[q].invoice = tx[u].invoice
                     /\ payment[q].amount = tx[u].amount
             ELSE BookedFor(u) = {}
      BY <1>1 DEF BookedOnce
    <3> QED
      BY <3>1, <3>2, <3>3
  <2> QED
    BY <2>2, <2>3
<1> QED
  BY <1>8, <1>9, <1>10, <1>11 DEF BooksInv, Checkouts
\* A payment event closes its transaction, credits it or leaves it to staff.
LEMMA EventStep ==
    ASSUME BooksInv, NEW e \in InvoiceEvents, NEW res, SettleInvoiceProviderEvent(e, res)
    PROVE  BooksInv'
<1>1. /\ e.tx \in TxIds /\ tx[e.tx].status # "none" /\ InvoiceTypeOK /\ RowsStand
      /\ tx \in [TxIds -> TxRow] /\ session \in [TxIds -> SessionStatus] /\ BookedOnce
  BY TypesByRow DEF InvoiceEvents, SettleInvoiceProviderEvent, BooksInv, Rows, Checkouts
<1>2. ASSUME SettleMismatch(e, res)
      PROVE  BooksInv'
  <2>1. CASE tx[e.tx].status = "pending"
    <3> DEFINE ended == IF session[e.tx] = "open" THEN "failed" ELSE session[e.tx]
    <3>1. ended \in SessionStatus \ {"open", "completed"}
      BY <1>1, <2>1 DEF BookedOnce, SessionStatus
    <3>2. /\ tx' = [tx EXCEPT ![e.tx].status = "failed"]
          /\ session' = [session EXCEPT ![e.tx] = ended]
          /\ UNCHANGED <<invoice, payment, credit, stripeRefund>>
      BY <1>1, <1>2, <2>1 DEF SettleMismatch
    <3> HIDE DEF ended
    <3> QED
      BY <1>1, <2>1, <3>1, <3>2, TxCloses
  <2>2. CASE tx[e.tx].status # "pending"
    <3>1. /\ tx' = [tx EXCEPT ![e.tx].status = tx[e.tx].status]
          /\ session' = [session EXCEPT ![e.tx] = session[e.tx]]
          /\ UNCHANGED <<invoice, payment, credit, stripeRefund>>
      BY <1>2, <2>2 DEF SettleMismatch
    <3>2. UNCHANGED invoiceVars
      BY <1>1, <3>1 DEF invoiceVars, TxRow
    <3> QED
      BY <3>2, StutterStep
  <2> QED
    BY <2>1, <2>2
<1>3. ASSUME SettleNotPaid(e, res)
      PROVE  BooksInv'
  <2>1. CASE tx[e.tx].status = "pending"
    <3>1. /\ e.outcome \in {"failed", "cancelled"}
          /\ e.outcome \in SessionStatus \ {"open", "completed"}
          /\ tx' = [tx EXCEPT ![e.tx].status = e.outcome]
          /\ session' = [session EXCEPT ![e.tx] = e.outcome]
          /\ UNCHANGED <<invoice, payment, credit, stripeRefund>>
      BY <1>3, <2>1 DEF SettleNotPaid, SessionStatus
    <3> QED
      BY <1>1, <2>1, <3>1, TxCloses
  <2>2. CASE tx[e.tx].status # "pending"
    <3>1. UNCHANGED invoiceVars
      BY <1>3, <2>2 DEF SettleNotPaid, invoiceVars
    <3> QED
      BY <3>1, StutterStep
  <2> QED
    BY <2>1, <2>2
<1>4. ASSUME SettleIgnored(e, res) \/ SettleRepeated(e, res)
      PROVE  BooksInv'
  BY <1>4, StutterStep DEF SettleIgnored, SettleRepeated
<1>5. ASSUME SettleRefused(e, res)
      PROVE  BooksInv'
  <2>1. tx[e.tx].invoice \in InvoiceIds /\ invoice[tx[e.tx].invoice].status # "none"
    BY <1>1 DEF RowsStand
  <2>2. /\ invoice' = RefreshedInvoice(tx[e.tx].invoice)
        /\ UNCHANGED <<payment, credit, tx, session, stripeRefund>>
    BY <1>5 DEF SettleRefused
  <2> QED
    BY <2>1, <2>2, LoadStep
<1>6. ASSUME SettleCredit(e, res)
      PROVE  BooksInv'
  BY <1>1, <1>6, SettleCreditStep
<1> QED
  BY <1>2, <1>3, <1>4, <1>5, <1>6 DEF SettleInvoiceProviderEvent

\* A refund event credits a refund that is awaited, once.
LEMMA RefundStep ==
    ASSUME BooksInv, NEW r \in RefundIds, NEW res, SettleRefund(r, res)
    PROVE  BooksInv'
<1> DEFINE i == tx[stripeRefund[r].tx].invoice
           amount == stripeRefund[r].amount
<1>1. /\ Rows /\ Books /\ InvoiceTypeOK /\ RowsStand /\ DebtsHeld /\ RefundsHeld
      /\ stripeRefund \in [RefundIds -> RefundRow] /\ stripeRefund[r].tx # None
      /\ UNCHANGED <<payment, tx, session, stripeRefund>>
  BY TypesByRow DEF BooksInv, Rows, Books, SettleRefund
<1>2. stripeRefund[r].tx \in TxIds /\ amount \in Nat
  BY <1>1 DEF RefundRow
<1>3. i \in InvoiceIds /\ invoice[i].status # "none"
  BY <1>1, <1>2 DEF RowsStand
<1>4. \/ UNCHANGED <<invoice, credit>>
      \/ ~CreditedRefund(r) /\ ApplyCredit(i, "refund", amount, r)
      \/ invoice' = RefreshedInvoice(i) /\ UNCHANGED credit
  BY DEF SettleRefund
<1> HIDE DEF i, amount
<1>5. ASSUME UNCHANGED <<invoice, credit>>
      PROVE  BooksInv'
  BY <1>1, <1>5, StutterStep DEF invoiceVars
<1>6. ASSUME invoice' = RefreshedInvoice(i), UNCHANGED credit
      PROVE  BooksInv'
  <2>1. UNCHANGED <<payment, credit, tx, session, stripeRefund>>
    BY <1>1, <1>6
  <2> QED
    BY <1>3, <1>6, <2>1, LoadStep
<1>7. ASSUME ~CreditedRefund(r), ApplyCredit(i, "refund", amount, r)
      PROVE  BooksInv'
  <2> DEFINE kind == "refund"
  <2>1. /\ kind \in {"note", "refund"} /\ r \in RefundIds \cup {None} /\ r # None
        /\ kind # "note" /\ ApplyCredit(i, kind, amount, r)
    BY <1>7, InvoiceAssumption DEF RefundIds
  <2> HIDE DEF kind
  <2>2. /\ Rows' /\ Statuses' /\ Checkouts' /\ TotalsKept'
        /\ \E d \in CreditIds :
             /\ credit[d].kind = "none"
             /\ credit' = [credit EXCEPT ![d] = [kind |-> kind, invoice |-> i, amount |-> amount,
                                                 refund |-> r]]
             /\ [kind |-> kind, invoice |-> i, amount |-> amount, refund |-> r] \in CreditRow
        /\ \A j \in InvoiceIds :
             /\ invoice'[j].paid + Notes(j)' <= invoice'[j].total
             /\ invoice'[j].credits <= invoice'[j].total
             /\ Card(j)' > 0 => Card(j)' + Notes(j)' + Local(j)' <= invoice'[j].total
             /\ Card(j)' = Card(j)
             /\ GivenBack(j)' = GivenBack(j) + IF j = i /\ r # None THEN amount ELSE 0
    BY <1>1, <1>2, <1>3, <2>1, CreditTotals
  <2>3. /\ \A j : Refundable(j)' = Refundable(j)
        /\ \A t \in TxIds : RefundedOf(t)' = RefundedOf(t)
        /\ \A j : Awaited(j)' = Awaited(j) - IF i = j THEN amount ELSE 0
    <3>1. PICK d \in CreditIds :
             /\ credit[d].kind = "none"
             /\ credit' = [credit EXCEPT ![d] = [kind |-> kind, invoice |-> i, amount |-> amount,
                                                 refund |-> r]]
             /\ [kind |-> kind, invoice |-> i, amount |-> amount, refund |-> r] \in CreditRow
      BY <2>2
    <3> DEFINE row == [kind |-> kind, invoice |-> i, amount |-> amount, refund |-> r]
    <3>2. row.refund = r /\ row \in CreditRow /\ credit' = [credit EXCEPT ![d] = row]
      BY <3>1
    <3> HIDE DEF row
    <3>3. UNCHANGED <<tx, stripeRefund>>
      BY <1>1
    <3>4. /\ \A j : Refundable(j)' = Refundable(j)
          /\ \A t \in TxIds : RefundedOf(t)' = RefundedOf(t)
          /\ \A q \in RefundIds : \A j :
               row.refund = q /\ ~CreditedRefund(q) /\ stripeRefund[q].tx # None =>
                 Awaited(j)' = Awaited(j) - IF tx[stripeRefund[q].tx].invoice = j
                                            THEN stripeRefund[q].amount ELSE 0
      BY <1>1, <3>1, <3>2, <3>3, RefundCredited
    <3>5. ASSUME NEW j
          PROVE  Awaited(j)' = Awaited(j) - IF i = j THEN amount ELSE 0
      <4>1. Awaited(j)' = Awaited(j) - IF tx[stripeRefund[r].tx].invoice = j
                                       THEN stripeRefund[r].amount ELSE 0
        BY <1>1, <1>7, <3>2, <3>4
      <4> QED
        BY <4>1 DEF i, amount
    <3> QED
      BY <3>4, <3>5
  <2>4. RefundsHeld'
    BY <1>1, <2>3 DEF RefundsHeld
  <2>5. ASSUME NEW j \in InvoiceIds
        PROVE  GivenBack(j)' + Awaited(j)' + Refundable(j)' <= Card(j)'
    <3>1. /\ GivenBack(j) \in Nat /\ Awaited(j) \in Nat /\ Refundable(j) \in Nat
          /\ GivenBack(j) + Awaited(j) + Refundable(j) <= Card(j) /\ Card(j) \in Nat
      BY <1>1, SumsOfCode, LeftType DEF DebtsHeld
    <3>2. /\ Refundable(j)' = Refundable(j) /\ Card(j)' = Card(j)
          /\ Awaited(j)' = Awaited(j) - (IF i = j THEN amount ELSE 0)
          /\ GivenBack(j)' = GivenBack(j) + (IF i = j THEN amount ELSE 0)
      BY <2>1, <2>2, <2>3
    <3> QED
      BY <1>2, <3>1, <3>2 DEF amount
  <2> QED
    BY <2>2, <2>4, <2>5 DEF BooksInv, Books, DebtsHeld
<1> QED
  BY <1>4, <1>5, <1>6, <1>7

-----------------------------------------------------------------------------
(* The invariant holds.                                                     *)

\* No invoice, no payment, no credit and no refund: every sum is zero.
LEMMA NothingOpen ==
    ASSUME InvoiceInit, NEW i
    PROVE  /\ Card(i) = 0 /\ Cash(i) = 0
           /\ Notes(i) = 0 /\ Local(i) = 0 /\ GivenBack(i) = 0
           /\ Refundable(i) = 0 /\ Awaited(i) = 0
<1>1. \A p \in PaymentIds : payment[p] = NoPayment
  BY DEF InvoiceInit
<1>2. \A d \in CreditIds : credit[d] = NoCredit
  BY DEF InvoiceInit
<1>3. \A t \in TxIds : tx[t] = NoTx
  BY DEF InvoiceInit
<1>4. \A r \in RefundIds : stripeRefund[r] = NoRefund
  BY DEF InvoiceInit
<1>5. Card(i) = 0
  <2> DEFINE f == [p \in PaymentIds |-> CardWorth(payment[p], i)]
  <2>1. \A p \in PaymentIds : f[p] = 0
    BY <1>1 DEF CardWorth, NoPayment
  <2> QED
    BY <2>1, TotalOfZeros DEF Card
<1>6. Cash(i) = 0
  <2> DEFINE f == [p \in PaymentIds |-> CashWorth(payment[p], i)]
  <2>1. \A p \in PaymentIds : f[p] = 0
    BY <1>1 DEF CashWorth, NoPayment
  <2> QED
    BY <2>1, TotalOfZeros DEF Cash
<1>7. Notes(i) = 0
  <2> DEFINE f == [d \in CreditIds |-> NoteWorth(credit[d], i)]
  <2>1. \A d \in CreditIds : f[d] = 0
    BY <1>2 DEF NoteWorth, NoCredit
  <2> QED
    BY <2>1, TotalOfZeros DEF Notes
<1>8. Local(i) = 0
  <2> DEFINE f == [d \in CreditIds |-> LocalWorth(credit[d], i)]
  <2>1. \A d \in CreditIds : f[d] = 0
    BY <1>2 DEF LocalWorth, NoCredit
  <2> QED
    BY <2>1, TotalOfZeros DEF Local
<1>9. GivenBack(i) = 0
  <2> DEFINE f == [d \in CreditIds |-> BackWorth(credit[d], i)]
  <2>1. \A d \in CreditIds : f[d] = 0
    BY <1>2 DEF BackWorth, NoCredit
  <2> QED
    BY <2>1, TotalOfZeros DEF GivenBack
<1>10. Refundable(i) = 0
  <2> DEFINE f == [t \in TxIds |-> IF tx[t].invoice = i THEN Left(t) ELSE 0]
  <2>1. \A t \in TxIds : f[t] = 0
    BY <1>3 DEF Left, NoTx
  <2> QED
    BY <2>1, TotalOfZeros DEF Refundable
<1>11. Awaited(i) = 0
  <2> DEFINE f == [r \in RefundIds |-> IF Awaits(r, i) THEN stripeRefund[r].amount ELSE 0]
  <2>1. \A r \in RefundIds : f[r] = 0
    BY <1>4 DEF Awaits, NoRefund
  <2> QED
    BY <2>1, TotalOfZeros DEF Awaited
<1> QED
  BY <1>5, <1>6, <1>7, <1>8, <1>9, <1>10, <1>11

\* The school starts with empty books.
LEMMA BooksOpen ==
    ASSUME InvoiceInit
    PROVE  BooksInv
<1>1. Rows
  <2>1. InvoiceTypeOK
    BY DEF InvoiceInit, InvoiceTypeOK, NoInvoice, NoPayment, NoCredit, NoTx, NoRefund,
           InvoiceStatus, TxStatus, SessionStatus
  <2>2. RowsStand
    BY InvoiceAssumption
    DEF RowsStand, InvoiceInit, NoInvoice, NoPayment, NoCredit, NoTx, NoRefund
  <2> QED
    BY <2>1, <2>2 DEF Rows
<1>2. \A i \in InvoiceIds : invoice[i] = NoInvoice
  BY DEF InvoiceInit
<1>3. TotalsKept
  BY <1>2, NothingOpen DEF TotalsKept, NoInvoice
<1>4. DebtsHeld
  BY <1>2, NothingOpen DEF DebtsHeld, NoInvoice
<1>5. RefundsHeld
  BY DEF RefundsHeld, InvoiceInit, NoTx
<1>6. Statuses
  BY <1>2 DEF Statuses, StatusTellsTheBalance, BalanceFits, OneLiveInvoicePerPeriod, NoInvoice,
              Open, InvoiceOutstandingMinor
<1>7. Checkouts
  <2>1. \A t \in TxIds : tx[t].status = "none" /\ session[t] = "none"
    BY DEF InvoiceInit, NoTx
  <2>2. \A t \in TxIds : BookedFor(t) = {}
    BY DEF InvoiceInit, NoPayment, BookedFor
  <2> QED
    BY <2>1, <2>2 DEF Checkouts, OneOpenCheckout, BookedOnce
<1> QED
  BY <1>1, <1>3, <1>4, <1>5, <1>6, <1>7 DEF BooksInv, Books

\* Every operation and every event keeps the books.
LEMMA BooksStep ==
    ASSUME BooksInv, [InvoiceNext]_invoiceVars
    PROVE  BooksInv'
<1>1. ASSUME NEW i \in InvoiceIds, NEW period \in Periods, NEW total \in GrossTotals,
             NEW late \in BOOLEAN, IssueInvoice(i, period, total, late)
      PROVE  BooksInv'
  BY <1>1, IssueStep
<1>2. ASSUME NEW i \in InvoiceIds, LoadInvoice(i) \/ TurnCalendar(i) \/ VoidInvoice(i)
      PROVE  BooksInv'
  BY <1>2, LoadStep, CalendarStep, VoidStep DEF LoadInvoice
<1>3. ASSUME SyncOverdueInvoiceStatuses
      PROVE  BooksInv'
  BY <1>3, SyncStep
<1>4. ASSUME NEW i \in InvoiceIds, NEW amount \in Amounts, NEW ref \in TxIds \cup {None},
             RecordInvoicePayment(i, amount, ref)
      PROVE  BooksInv'
  BY <1>4, RecordStep
<1>5. ASSUME NEW p \in PaymentIds, ReverseInvoicePayment(p)
      PROVE  BooksInv'
  BY <1>5, ReverseStep
<1>6. ASSUME NEW i \in InvoiceIds, NEW kind \in {"note", "refund"}, NEW amount \in Amounts,
             CreateInvoiceCredit(i, kind, amount)
      PROVE  BooksInv'
  BY <1>6, CreditStep
<1>7. ASSUME NEW i \in InvoiceIds, NEW amount \in Amounts, NEW ended \in {"failed", "expired"},
             CreateInvoiceCheckoutSession(i, amount, ended)
      PROVE  BooksInv'
  BY <1>7, CheckoutStep
<1>8. ASSUME NEW r \in RefundIds, NEW t \in TxIds, NEW amount \in Amounts,
             RefundInDashboard(r, t, amount)
      PROVE  BooksInv'
  BY <1>8, DashboardStep
<1>9. ASSUME NEW e \in InvoiceEvents, NEW res, SettleInvoiceProviderEvent(e, res)
      PROVE  BooksInv'
  BY <1>9, EventStep
<1>10. ASSUME NEW r \in RefundIds, NEW res, SettleRefund(r, res)
       PROVE  BooksInv'
  BY <1>10, RefundStep
<1>11. ASSUME UNCHANGED invoiceVars
       PROVE  BooksInv'
  BY <1>11, StutterStep
<1>12. ASSUME InvoiceSchoolStep
       PROVE  BooksInv'
  BY <1>1, <1>2, <1>3, <1>4, <1>5, <1>6, <1>7, <1>12 DEF InvoiceSchoolStep
<1> QED
  BY <1>8, <1>9, <1>10, <1>11, <1>12 DEF InvoiceNext

\* The books are kept throughout.
LEMMA BooksHold == InvoiceSpec => []BooksInv
<1>1. InvoiceInit => BooksInv
  BY BooksOpen
<1>2. BooksInv /\ [InvoiceNext]_invoiceVars => BooksInv'
  BY BooksStep
<1> QED
  BY <1>1, <1>2, PTL DEF InvoiceSpec

-----------------------------------------------------------------------------
(* What follows from it.                                                    *)

\* What Stripe has given back of an invoice and it does not show yet fits what the
\* invoice can still be credited: it is card money, and card money has its room.
LEMMA RefundsFit ==
    ASSUME BooksInv
    PROVE  StripeRefundsFit
<1>1. /\ InvoiceTypeOK /\ RowsStand /\ TotalsKept /\ DebtsHeld /\ RefundsHeld
      /\ invoice \in [InvoiceIds -> InvoiceRow] /\ stripeRefund \in [RefundIds -> RefundRow]
  BY TypesByRow DEF BooksInv, Rows, Books
<1> SUFFICES ASSUME NEW r \in RefundIds, stripeRefund[r].tx # None, ~CreditedRefund(r)
             PROVE  LET i == tx[stripeRefund[r].tx].invoice IN
                    stripeRefund[r].amount <= invoice[i].total - invoice[i].credits
  BY DEF StripeRefundsFit
<1> DEFINE i == tx[stripeRefund[r].tx].invoice
           f == [q \in RefundIds |-> IF Awaits(q, i) THEN stripeRefund[q].amount ELSE 0]
<1>2. stripeRefund[r].tx \in TxIds /\ stripeRefund[r].amount \in Nat
  BY <1>1 DEF RefundRow
<1>3. i \in InvoiceIds
  BY <1>1, <1>2 DEF RowsStand
<1>4. stripeRefund[r].amount <= Awaited(i)
  <2>1. f \in [RefundIds -> Nat]
    BY <1>1 DEF RefundRow
  <2>2. f[r] = stripeRefund[r].amount
    BY DEF Awaits
  <2>3. Awaited(i) = Total(f)
    BY DEF Awaited
  <2> HIDE DEF f
  <2> QED
    BY <2>1, <2>2, <2>3, TablesFinite, RowAtMostTotal
<1> HIDE DEF i, f
<1>5. /\ Card(i) \in Nat /\ Notes(i) \in Nat /\ Local(i) \in Nat /\ GivenBack(i) \in Nat
      /\ Awaited(i) \in Nat /\ Refundable(i) \in Nat
  BY <1>1, SumsOfCode, LeftType
<1>6. /\ invoice[i].credits = Notes(i) + Local(i) + GivenBack(i)
      /\ invoice[i].credits <= invoice[i].total
      /\ Card(i) > 0 => Card(i) + Notes(i) + Local(i) <= invoice[i].total
      /\ GivenBack(i) + Awaited(i) + Refundable(i) <= Card(i)
  BY <1>1, <1>3 DEF TotalsKept, DebtsHeld
<1>7. invoice[i].total \in Nat /\ invoice[i].credits \in Nat
  BY <1>1, <1>3 DEF InvoiceRow
<1>8. stripeRefund[r].amount <= invoice[i].total - invoice[i].credits
  BY <1>2, <1>4, <1>5, <1>6, <1>7
<1> QED
  BY <1>8 DEF i

\* The books of every invoice agree with its rows, no debt is settled twice by a
\* checkout, a late webhook, staff or a credit, and a refund made in Stripe always
\* fits: InvoiceInv for every number of invoices, rows and refunds.
THEOREM BooksAlwaysAgree == InvoiceSpec => []InvoiceInv
<1>1. ASSUME BooksInv
      PROVE  InvoiceInv
  <2>1. InvoiceTypeOK /\ TotalsKept /\ DebtsHeld
    BY <1>1 DEF BooksInv, Rows, Books
  <2>2. InvoiceBooksAgree
    BY <2>1, SumsOfCode DEF InvoiceBooksAgree, TotalsKept
  <2>3. NeverOversettled
    BY <2>1, SumsOfCode DEF NeverOversettled, DebtsHeld
  <2> QED
    BY <1>1, <2>1, <2>2, <2>3, RefundsFit DEF InvoiceInv
<1> QED
  BY <1>1, BooksHold, PTL

\* The outstanding amount and the status of an invoice tell its balance, whichever
\* operation wrote them last.
THEOREM StatusAlwaysTells == InvoiceSpec => []StatusTellsTheBalance
<1>1. BooksInv => StatusTellsTheBalance
  BY DEF BooksInv, Statuses
<1> QED
  BY <1>1, BooksHold, PTL

\* A period is invoiced once, a family is at one checkout of an invoice at a time,
\* and what it pays is booked once.
THEOREM AlwaysAskedAndBookedOnce == InvoiceSpec => []AskedAndBookedOnce
<1>1. BooksInv => AskedAndBookedOnce
  BY DEF BooksInv, Statuses, Checkouts, AskedAndBookedOnce
<1> QED
  BY <1>1, BooksHold, PTL
\* A payment row that is written is a fresh one, or one that is no card payment.
LEMMA CardRowsStand ==
    ASSUME BooksInv, InvoiceNext, NEW p \in PaymentIds, payment[p].ref # None,
           payment[p].status # "none"
    PROVE  payment'[p] = payment[p]
<1>1. payment \in [PaymentIds -> PaymentRow]
  BY TypesByRow DEF BooksInv, Rows
<1>2. ASSUME NEW q \in PaymentIds, NEW i, NEW amount, NEW ref, NEW webhook,
             BookPayment(q, i, amount, ref, webhook)
      PROVE  payment'[p] = payment[p]
  BY <1>1, <1>2 DEF BookPayment, FreshPayment, NextRow
<1>3. ASSUME NEW q \in PaymentIds, ReverseInvoicePayment(q)
      PROVE  payment'[p] = payment[p]
  BY <1>1, <1>3 DEF ReverseInvoicePayment, InvoicePaymentIsStripeCard
<1>4. ASSUME NEW e \in InvoiceEvents, NEW res, SettleInvoiceProviderEvent(e, res)
      PROVE  payment'[p] = payment[p]
  BY <1>2, <1>4 DEF SettleInvoiceProviderEvent, SettleMismatch, SettleIgnored, SettleNotPaid,
     SettleRepeated, SettleRefused, SettleCredit, invoiceVars
<1>5. ASSUME InvoiceSchoolStep
      PROVE  payment'[p] = payment[p]
  BY <1>2, <1>3, <1>5 DEF InvoiceSchoolStep, IssueInvoice, LoadInvoice, TurnCalendar, VoidInvoice,
     SyncOverdueInvoiceStatuses, RecordInvoicePayment, CreateInvoiceCredit,
     CreateInvoiceCheckoutSession
<1>6. ASSUME NEW r \in RefundIds, NEW res, SettleRefund(r, res)
      PROVE  payment'[p] = payment[p]
  BY <1>6 DEF SettleRefund
<1> QED
  BY <1>4, <1>5, <1>6 DEF InvoiceNext, RefundInDashboard

\* A transaction that is written is a fresh one, or one that has not succeeded.
LEMMA SucceededStand ==
    ASSUME BooksInv, InvoiceNext, NEW t \in TxIds, tx[t].status = "succeeded"
    PROVE  tx'[t] = tx[t]
<1>1. /\ tx \in [TxIds -> TxRow] /\ RowsStand /\ BookedOnce
  BY TypesByRow DEF BooksInv, Rows, Checkouts
<1>2. ASSUME NEW i \in InvoiceIds, NEW amount \in Amounts, NEW ended \in {"failed", "expired"},
             CreateInvoiceCheckoutSession(i, amount, ended)
      PROVE  tx'[t] = tx[t]
  <2>1. PICK u \in TxIds :
           /\ FreshTx(u)
           /\ tx' = [CheckoutClosed(i, ended).tx EXCEPT ![u] =
                       [status |-> "pending", invoice |-> i, amount |-> amount]]
    BY <1>2 DEF CreateInvoiceCheckoutSession
  <2>2. u # t
    BY <2>1 DEF FreshTx, NextRow
  <2>3. CheckoutClosed(i, ended).tx[t] = tx[t]
    BY DEF CheckoutClosed
  <2>4. DOMAIN CheckoutClosed(i, ended).tx = TxIds
    BY DEF CheckoutClosed
  <2> QED
    BY <2>1, <2>2, <2>3, <2>4
<1>3. ASSUME NEW e \in InvoiceEvents, NEW res, SettleInvoiceProviderEvent(e, res)
      PROVE  tx'[t] = tx[t]
  <2>1. e.tx \in TxIds
    BY DEF InvoiceEvents
  <2>2. CASE SettleMismatch(e, res)
    <3>1. tx'[t] = IF e.tx = t THEN [tx[t] EXCEPT !.status = tx[t].status] ELSE tx[t]
      BY <1>1, <2>1, <2>2 DEF SettleMismatch
    <3>2. [tx[t] EXCEPT !.status = tx[t].status] = tx[t]
      BY <1>1 DEF TxRow
    <3> QED
      BY <3>1, <3>2
  <2>3. CASE SettleNotPaid(e, res)
    BY <1>1, <2>1, <2>3 DEF SettleNotPaid
  <2>4. CASE SettleCredit(e, res)
    <3>1. ~AlreadyBooked(e.tx) /\ tx' = [tx EXCEPT ![e.tx].status = "succeeded"]
      BY <2>4 DEF SettleCredit
    <3>2. e.tx # t
      BY <3>1 DEF AlreadyBooked
    <3> QED
      BY <1>1, <2>1, <3>1, <3>2
  <2>5. CASE SettleIgnored(e, res) \/ SettleRepeated(e, res) \/ SettleRefused(e, res)
    BY <2>5, Zenon DEF SettleIgnored, SettleRepeated, SettleRefused, invoiceVars
  <2> QED
    BY <1>3, <2>2, <2>3, <2>4, <2>5 DEF SettleInvoiceProviderEvent
<1>4. ASSUME InvoiceSchoolStep
      PROVE  tx'[t] = tx[t]
  BY <1>2, <1>4, Zenon DEF InvoiceSchoolStep, IssueInvoice, LoadInvoice, TurnCalendar, VoidInvoice,
     SyncOverdueInvoiceStatuses, RecordInvoicePayment, ReverseInvoicePayment, CreateInvoiceCredit
<1>5. ASSUME NEW r \in RefundIds, NEW res, SettleRefund(r, res)
      PROVE  tx'[t] = tx[t]
  BY <1>5 DEF SettleRefund
<1> QED
  BY <1>3, <1>4, <1>5 DEF InvoiceNext, RefundInDashboard

\* Money paid by card leaves an invoice through Stripe only, whatever staff,
\* families and events do.
THEOREM CardPaymentsAlwaysStand == InvoiceSpec => CardPaymentsStand
<1> DEFINE A == /\ \A p \in PaymentIds :
                     payment[p].ref # None /\ payment[p].status # "none" => payment'[p] = payment[p]
                /\ \A t \in TxIds : tx[t].status = "succeeded" => tx'[t] = tx[t]
<1>1. ASSUME BooksInv, [InvoiceNext]_invoiceVars
      PROVE  [A]_invoiceVars
  BY <1>1, CardRowsStand, SucceededStand
<1>2. InvoiceSpec => [][A]_invoiceVars
  BY <1>1, BooksHold, PTL DEF InvoiceSpec
<1> QED
  BY <1>2 DEF CardPaymentsStand
=============================================================================
