----------------------- MODULE TuitionAndPlacesProofs -----------------------
(***************************************************************************)
(* Theorems about BillingRuns, for every number of pupils, runs, schedules *)
(* and accounts: a run charges a pupil once, two runs charge a pupil twice *)
(* only if they overlapped, and a run that nothing came across charges     *)
(* exactly who is due.                                                     *)
(*                                                                         *)
(* Theorems about TuitionQuotes, for every amount: the parts that a fee is *)
(* divided into make it up again.                                          *)
(*                                                                         *)
(* Theorems about ActivityPlaces, for every number of pupils and requests: *)
(* no place is given twice, one that is given up is passed on, and charges *)
(* follow the places.  The three share no state.                           *)
(***************************************************************************)
EXTENDS BillingRuns, TuitionQuotes, ActivityPlaces, TotalsTheorems, WellFoundedInduction

\* A set of natural numbers that is not empty has a least one.
LEMMA LeastNumber ==
    ASSUME NEW T \in SUBSET Nat, T # {}
    PROVE  \E m \in T : \A n \in T : m <= n
<1> DEFINE R == OpToRel(<, Nat)
<1>1. IsWellFoundedOn(R, Nat) BY NatLessThanWellFounded
<1>2. \A x, y \in Nat : <<y, x>> \in R <=> y < x BY DEF OpToRel
<1> HIDE DEF R
<1>3. PICK m \in T : \A n \in T : <<n, m>> \notin R
  BY <1>1, WFMin
<1>4. ASSUME NEW n \in T PROVE m <= n
  <2>1. m \in Nat /\ n \in Nat OBVIOUS
  <2>2. ~ (n < m) BY <1>2, <1>3, <2>1
  <2> QED BY <2>1, <2>2
<1> QED BY <1>4

-----------------------------------------------------------------------------
(* The inductive invariant.                                                 *)

\* What is to be charged is charged by a schedule.
Priced(quotes) ==
    /\ quotes \in Quotes
    /\ \A p \in Chargeable(quotes) :
          quotes[p].schedule \in Schedules /\ quotes[p].amount \in Prices

\* So is what every run has read, saved and is about to charge.
QuotesArePriced ==
    \A r \in Runs :
        /\ Priced(run[r].quotes)
        /\ preview[r] # None => Priced(preview[r].quotes)
        /\ tx[r] # None => Priced(tx[r].quotes)

\* No invoice of the run r has a line for the pupil p by the schedule s.
NotInvoiced(r, p, s) ==
    \A i \in invoices : i.run = r =>
        \A l \in i.lines : ~(l.pupil = p /\ l.schedule = s)

\* Whoever holds the lock of a run is about to charge what the run has not
\* charged, and what was not billed when it looked; and if nothing came across
\* it, it would read the same quotes again.
WhatTheHolderKnows(r) ==
    /\ tx[r].kind = "confirm" => tx[r].quotes = run[r].quotes
    /\ tx[r].quiet => tx[r].quotes = QuotesNow(r)
    /\ \A p \in Chargeable(tx[r].quotes) :
          /\ <<p, tx[r].quotes[p].schedule>> \notin tx[r].billed
          /\ NotInvoiced(r, p, tx[r].quotes[p].schedule)

\* Of every run whose lock is held.
HoldersAreRight == \A r \in Runs : tx[r] # None => WhatTheHolderKnows(r)

\* A run has one line for a pupil by a schedule.
OneInvoiceEach ==
    \A i, j \in invoices : i.run = j.run =>
        \A l \in i.lines, m \in j.lines :
            l.pupil = m.pupil /\ l.schedule = m.schedule => i = j

\* A pupil has one catch-up in the period.
OneCatchUpEach ==
    \A i, j \in invoices : i.pupil = j.pupil /\ i.pupil # None => i = j

\* The conjunction is inductive.
BillingIsSound ==
    /\ BillingTypeOK
    /\ QuotesArePriced
    /\ HoldersAreRight
    /\ OneInvoiceEach
    /\ OneCatchUpEach

-----------------------------------------------------------------------------
(* Quotes.                                                                  *)

\* The schedule a pupil is quoted by is in force.
LEMMA QuotedByActiveSchedule ==
    ASSUME BillingTypeOK, NEW p \in Pupils, NEW r \in Runs
    PROVE  ScheduleFor(p, r) \in Active \cup {None}
<1> DEFINE matching == {s \in Active \cap Fits[p] : Only[r] \in {None, s}}
<1>1. matching \in SUBSET Active /\ Active \in SUBSET Schedules BY DEF Active
<1>2. ASSUME matching # {}
      PROVE  (CHOOSE s \in matching : \A t \in matching : Rank[s] <= Rank[t]) \in matching
  <2> DEFINE T == {Rank[s] : s \in matching}
  <2>1. T \in SUBSET Nat /\ T # {} BY <1>1, <1>2, BillingAssumption DEF BillingAssumption
  <2> HIDE DEF T
  <2>2. PICK m \in T : \A n \in T : m <= n BY <2>1, LeastNumber
  <2> USE DEF T
  <2>3. PICK s \in matching : m = Rank[s] OBVIOUS
  <2>4. \A t \in matching : Rank[s] <= Rank[t] BY <2>2, <2>3
  <2> HIDE DEF matching
  <2> QED BY <2>4
<1>3. ScheduleFor(p, r) =
        IF plan[p] # None /\ Only[r] \notin {None, plan[p]} THEN None
        ELSE CASE plan[p] \in Active -> plan[p]
               [] plan[p] \notin Active /\ matching # {} ->
                     CHOOSE s \in matching : \A t \in matching : Rank[s] <= Rank[t]
               [] OTHER -> None
  BY DEF ScheduleFor
<1> HIDE DEF matching
<1> QED BY <1>1, <1>2, <1>3

\* What is quoted now is charged at the price of a schedule, and not billed yet.
LEMMA FreshQuotes ==
    ASSUME BillingTypeOK, NEW r \in Runs
    PROVE  /\ Priced(QuotesNow(r))
           /\ \A p \in Chargeable(QuotesNow(r)) :
                 <<p, QuotesNow(r)[p].schedule>> \notin Billed
<1>1. ASSUME NEW p \in Pupils
      PROVE  /\ QuoteOf(p, r) \in Quote \cup {None}
             /\ QuoteOf(p, r) # None /\ QuoteOf(p, r).amount > 0 =>
                   /\ QuoteOf(p, r).schedule \in Schedules
                   /\ QuoteOf(p, r).amount \in Prices
                   /\ <<p, QuoteOf(p, r).schedule>> \notin Billed
  <2> DEFINE s == ScheduleFor(p, r)
  <2>1. s \in Active \cup {None} BY QuotedByActiveSchedule
  <2>2. s \in Active => s \in Schedules /\ price[s] \in Prices
    BY <2>1 DEF Active, BillingTypeOK
  <2>3. Prices \subseteq Nat \ {0} /\ None \notin Schedules
    BY BillingAssumption DEF BillingAssumption
  <2>4. QuoteOf(p, r) =
          CASE p \notin enrolled \/ (s = None /\ Only[r] # None) -> None
            [] p \in enrolled /\ s = None /\ Only[r] = None -> [schedule |-> None, amount |-> 0]
            [] OTHER ->
                  [schedule |-> s, amount |-> IF <<p, s>> \in Billed THEN 0 ELSE price[s]]
    BY DEF QuoteOf
  <2> HIDE DEF s
  <2>5. CASE p \notin enrolled \/ (s = None /\ Only[r] # None)
    BY <2>4, <2>5
  <2>6. CASE p \in enrolled /\ s = None /\ Only[r] = None
    <3>1. QuoteOf(p, r) = [schedule |-> None, amount |-> 0] BY <2>4, <2>6
    <3> QED BY <3>1 DEF Quote
  <2>7. CASE p \in enrolled /\ s # None
    <3>1. QuoteOf(p, r) =
            [schedule |-> s, amount |-> IF <<p, s>> \in Billed THEN 0 ELSE price[s]]
      BY <2>4, <2>7
    <3>2. s \in Schedules /\ price[s] \in Prices BY <2>1, <2>2, <2>7
    <3> QED BY <3>1, <3>2 DEF Quote
  <2> QED BY <2>5, <2>6, <2>7
<1> QED BY <1>1 DEF Priced, Quotes, QuotesNow, Chargeable

\* Nothing that quotes depend on but the office and the invoices.
LEMMA SameQuotes ==
    ASSUME UNCHANGED <<office, invoices>>, NEW r \in Runs
    PROVE  QuotesNow(r)' = QuotesNow(r) /\ Billed' = Billed
<1>1. Billed' = Billed BY DEF Billed
<1>2. Active' = Active BY DEF Active, office
<1>3. ASSUME NEW p \in Pupils PROVE ScheduleFor(p, r)' = ScheduleFor(p, r)
  BY <1>2 DEF ScheduleFor, office
<1>4. ASSUME NEW p \in Pupils PROVE QuoteOf(p, r)' = QuoteOf(p, r)
  BY <1>1, <1>3 DEF QuoteOf, office
<1> QED BY <1>1, <1>4 DEF QuotesNow

\* What is not billed has no invoice, of whatever run.
LEMMA UnbilledIsNotInvoiced ==
    ASSUME NEW p, NEW s, <<p, s>> \notin Billed, NEW r
    PROVE  NotInvoiced(r, p, s)
<1>1. \A i \in invoices : \A l \in i.lines : <<l.pupil, l.schedule>> \in Billed
  BY DEF Billed
<1> QED BY <1>1 DEF NotInvoiced

-----------------------------------------------------------------------------
(* Steps.                                                                   *)

\* A step that bills again what was billed had not seen it when it looked.
NothingTwice ==
    \A i \in invoices' \ invoices : \A l \in i.lines :
        <<l.pupil, l.schedule>> \in Billed =>
            <<l.pupil, l.schedule>> \notin tx[i.run].billed

\* The lines of those whom the run may charge and does not pass over.
Charged(r) ==
    {LineFor(p, QuoteOf(p, r)) :
        p \in {q \in Chargeable(QuotesNow(r)) : ~PassedOver(r, q)}}

\* A step that nothing came across charges exactly who is due.
QuietChargesExactly ==
    \A r \in Runs :
        (tx[r] # None /\ tx[r].quiet /\ (ConfirmIssue(r) \/ CatchUpIssue(r))) =>
            UNION {i.lines : i \in invoices' \ invoices} =
                {LineFor(p, QuoteOf(p, r)) :
                    p \in {q \in Chargeable(QuotesNow(r)) : ~PassedOver(r, q)}}

\* Nothing is invoiced or held: a preview, a failure.
LEMMA PreviewKeepsBilling ==
    ASSUME BillingIsSound, NEW r \in Runs,
           PreviewRead(r) \/ PreviewSave(r) \/ PreviewFails(r)
    PROVE  BillingIsSound' /\ invoices' = invoices
<1> USE DEF BillingIsSound
<1>1. UNCHANGED <<office, tx, invoices, changes>>
  BY DEF PreviewRead, PreviewSave, PreviewFails
<1>2. \A q \in Runs : QuotesNow(q)' = QuotesNow(q)
  <2> TAKE q \in Runs
  <2> QED BY <1>1, SameQuotes
<1>3. /\ run \in [Runs -> [status : {"none", "previewed", "confirmed"}, quotes : Quotes,
                          accounts : [Pupils -> Accounts]]]
      /\ preview \in [Runs -> [found : BOOLEAN, quotes : Quotes] \cup {None}]
      /\ account \in [Pupils -> Accounts]
  BY DEF BillingTypeOK
<1>4. Priced(QuotesNow(r)) /\ QuotesNow(r) \in Quotes BY FreshQuotes DEF Priced
<1>5. preview[r] # None => Priced(preview[r].quotes) /\ preview[r].quotes \in Quotes
  BY DEF QuotesArePriced, Priced
<1>6. /\ run' \in [Runs -> [status : {"none", "previewed", "confirmed"}, quotes : Quotes,
                           accounts : [Pupils -> Accounts]]]
      /\ preview' \in [Runs -> [found : BOOLEAN, quotes : Quotes] \cup {None}]
      /\ \A q \in Runs : Priced(run'[q].quotes)
      /\ \A q \in Runs : preview'[q] # None => Priced(preview'[q].quotes)
      /\ \A q \in Runs : tx[q] # None => run'[q].quotes = run[q].quotes
  <2>1. CASE PreviewRead(r)
    <3>1. /\ run' = run
          /\ preview' = [preview EXCEPT ![r] =
                            [found |-> run[r].status # "none", quotes |-> QuotesNow(r)]]
      BY <2>1 DEF PreviewRead
    <3>2. \A q \in Runs : preview'[q] = IF q = r
                THEN [found |-> run[r].status # "none", quotes |-> QuotesNow(r)]
                ELSE preview[q]
      BY <1>3, <3>1
    <3>3. preview' \in [Runs -> [found : BOOLEAN, quotes : Quotes] \cup {None}]
      BY <1>3, <1>4, <3>1
    <3> QED BY <1>3, <1>4, <3>1, <3>2, <3>3 DEF QuotesArePriced
  <2>2. CASE PreviewSave(r)
    <3>1. /\ preview' = [preview EXCEPT ![r] = None]
          /\ run' = [run EXCEPT ![r] =
               [status |-> "previewed", quotes |-> preview[r].quotes, accounts |-> account]]
          /\ preview[r] # None
          /\ tx[r] = None
      BY <2>2 DEF PreviewSave
    <3>2. run' \in [Runs -> [status : {"none", "previewed", "confirmed"}, quotes : Quotes,
                             accounts : [Pupils -> Accounts]]]
      BY <1>3, <1>5, <3>1
    <3>3. \A q \in Runs : run'[q].quotes = IF q = r THEN preview[r].quotes ELSE run[q].quotes
      BY <1>3, <3>1
    <3> QED BY <1>3, <1>5, <3>1, <3>2, <3>3 DEF QuotesArePriced
  <2>3. CASE PreviewFails(r)
    <3>1. preview' = [preview EXCEPT ![r] = None] /\ run' = run
      BY <2>3 DEF PreviewFails
    <3> QED BY <1>3, <3>1 DEF QuotesArePriced
  <2> QED BY <2>1, <2>2, <2>3
<1>7. BillingTypeOK' BY <1>1, <1>6 DEF BillingTypeOK, office
<1>8. QuotesArePriced'
  BY <1>1, <1>6 DEF QuotesArePriced, Priced, Chargeable
<1>9. HoldersAreRight'
  BY <1>1, <1>2, <1>6 DEF HoldersAreRight, WhatTheHolderKnows, NotInvoiced, Chargeable
<1> QED BY <1>1, <1>7, <1>8, <1>9 DEF OneInvoiceEach, OneCatchUpEach

\* A transaction begins: what it reads is right.
LEMMA BeginKeepsBilling ==
    ASSUME BillingIsSound, NEW r \in Runs, ConfirmCheck(r) \/ CatchUpCheck(r)
    PROVE  BillingIsSound' /\ invoices' = invoices
<1> USE DEF BillingIsSound
<1>1. UNCHANGED <<office, run, preview, invoices, changes>>
  BY DEF ConfirmCheck, CatchUpCheck, Begin
<1>2. PICK kind \in {"confirm", "catch_up"} :
        /\ tx' = [tx EXCEPT ![r] =
                 [kind |-> kind, quotes |-> QuotesNow(r), billed |-> Billed, quiet |-> TRUE]]
        /\ kind = "confirm" => QuotesNow(r) = run[r].quotes
  BY DEF ConfirmCheck, CatchUpCheck, Begin, Stale
<1> DEFINE t == [kind |-> kind, quotes |-> QuotesNow(r), billed |-> Billed, quiet |-> TRUE]
<1>3. tx \in [Runs -> Tx \cup {None}] BY DEF BillingTypeOK
<1>4. /\ Priced(QuotesNow(r)) /\ QuotesNow(r) \in Quotes
      /\ \A p \in Chargeable(QuotesNow(r)) : <<p, QuotesNow(r)[p].schedule>> \notin Billed
  BY FreshQuotes DEF Priced
<1>5. Billed \in SUBSET (Pupils \X Schedules)
  BY DEF Billed, BillingTypeOK, Invoice, Line
<1>6. tx' \in [Runs -> Tx \cup {None}] BY <1>2, <1>3, <1>4, <1>5 DEF Tx
<1>7. \A q \in Runs : tx'[q] = IF q = r THEN t ELSE tx[q] BY <1>2, <1>3
<1>8. \A q \in Runs : QuotesNow(q)' = QuotesNow(q)
  <2> TAKE q \in Runs
  <2> QED BY <1>1, SameQuotes
<1>9. BillingTypeOK' BY <1>1, <1>6 DEF BillingTypeOK, office
<1>10. QuotesArePriced'
  BY <1>1, <1>4, <1>7 DEF QuotesArePriced, Priced, Chargeable
<1>11. ASSUME NEW q \in Runs, tx'[q] # None PROVE WhatTheHolderKnows(q)'
  <2>1. CASE q = r
    <3>1. tx'[q] = t BY <1>7, <2>1
    <3>2. ASSUME NEW p \in Chargeable(QuotesNow(r))
          PROVE  NotInvoiced(r, p, QuotesNow(r)[p].schedule)
      BY <1>4, UnbilledIsNotInvoiced
    <3>3. ASSUME NEW p \in Chargeable(QuotesNow(r))
          PROVE  NotInvoiced(r, p, QuotesNow(r)[p].schedule)'
      BY <1>1, <1>8, <3>2 DEF NotInvoiced
    <3> QED BY <1>1, <1>2, <1>4, <1>8, <2>1, <3>1, <3>3
               DEF WhatTheHolderKnows, Chargeable, NotInvoiced
  <2>2. CASE q # r
    <3>1. tx'[q] = tx[q] BY <1>7, <2>2
    <3> QED BY <1>1, <1>8, <1>11, <3>1
               DEF HoldersAreRight, WhatTheHolderKnows, NotInvoiced, Chargeable
  <2> QED BY <2>1, <2>2
<1>12. HoldersAreRight' BY <1>11 DEF HoldersAreRight
<1> QED BY <1>1, <1>9, <1>10, <1>12 DEF OneInvoiceEach, OneCatchUpEach

\* Fewer invoices or other circumstances, and no holder takes its quotes for
\* fresh: a rollback ends one, and the office comes across all.
LEMMA OfficeKeepsBilling ==
    ASSUME BillingIsSound, UNCHANGED <<run, preview>>, invoices' \subseteq invoices,
           BillingTypeOK',
           \A q \in Runs : tx'[q] # None =>
              /\ tx[q] # None
              /\ tx'[q].kind = tx[q].kind /\ tx'[q].quotes = tx[q].quotes
              /\ tx'[q].billed = tx[q].billed
              /\ tx'[q].quiet => tx[q].quiet /\ UNCHANGED <<office, invoices>>
    PROVE  BillingIsSound'
<1> USE DEF BillingIsSound
<1>1. QuotesArePriced' BY DEF QuotesArePriced, Priced, Chargeable
<1>2. ASSUME NEW q \in Runs, tx'[q] # None PROVE WhatTheHolderKnows(q)'
  <2>1. WhatTheHolderKnows(q) BY <1>2 DEF HoldersAreRight
  <2>2. tx'[q].quiet => tx'[q].quotes = QuotesNow(q)'
    <3>1. ASSUME tx'[q].quiet PROVE tx'[q].quotes = QuotesNow(q)'
      <4>1. QuotesNow(q)' = QuotesNow(q) BY <1>2, <3>1, SameQuotes
      <4> QED BY <1>2, <2>1, <3>1, <4>1 DEF WhatTheHolderKnows
    <3> QED BY <3>1
  <2> QED BY <1>2, <2>1, <2>2 DEF WhatTheHolderKnows, NotInvoiced, Chargeable
<1>3. HoldersAreRight' BY <1>2 DEF HoldersAreRight
<1> QED BY <1>1, <1>3 DEF OneInvoiceEach, OneCatchUpEach

\* The office enrols, reprices, replans, regroups or voids, and a transaction
\* that fails leaves nothing.
LEMMA OtherStepsKeepBilling ==
    ASSUME BillingIsSound,
           \/ \E r \in Runs : Rollback(r)
           \/ \E p \in Pupils : Enrol(p)
           \/ \E p \in Pupils, s \in Schedules : ChangePlan(p, s)
           \/ \E p \in Pupils, a \in Accounts : Regroup(p, a)
           \/ \E s \in Schedules, amount \in Prices \cup {None} : Reprice(s, amount)
           \/ \E i \in invoices : VoidInvoice(i)
    PROVE  BillingIsSound' /\ invoices' \subseteq invoices
<1> USE DEF BillingIsSound
<1> DEFINE Fewer ==
        \A q \in Runs : tx'[q] # None =>
              /\ tx[q] # None
              /\ tx'[q].kind = tx[q].kind /\ tx'[q].quotes = tx[q].quotes
              /\ tx'[q].billed = tx[q].billed
              /\ tx'[q].quiet => tx[q].quiet /\ UNCHANGED <<office, invoices>>
<1>1. tx \in [Runs -> Tx \cup {None}] BY DEF BillingTypeOK
<1>2. ASSUME NEW r \in Runs, Rollback(r)
      PROVE  /\ UNCHANGED <<run, preview>> /\ invoices' \subseteq invoices
             /\ BillingTypeOK' /\ Fewer
  <2>1. /\ tx' = [tx EXCEPT ![r] = None]
        /\ UNCHANGED <<office, run, preview, invoices, changes>>
    BY <1>2 DEF Rollback
  <2>2. tx' \in [Runs -> Tx \cup {None}] BY <1>1, <2>1
  <2>3. \A q \in Runs : tx'[q] = IF q = r THEN None ELSE tx[q] BY <1>1, <2>1
  <2>4. BillingTypeOK' BY <2>1, <2>2 DEF BillingTypeOK, office
  <2> QED BY <2>1, <2>3, <2>4
<1>3. ASSUME OfficeChange PROVE /\ tx' \in [Runs -> Tx \cup {None}] /\ Fewer
                                /\ UNCHANGED <<run, preview>> /\ changes' \in 0 .. MaxChanges
  <2>1. /\ tx' = [q \in Runs |-> IF tx[q] = None THEN None ELSE [tx[q] EXCEPT !.quiet = FALSE]]
        /\ changes < MaxChanges /\ changes' = changes + 1
        /\ UNCHANGED <<run, preview>>
    BY <1>3 DEF OfficeChange
  <2>2. ASSUME NEW q \in Runs, tx[q] # None
        PROVE  /\ tx'[q] = [tx[q] EXCEPT !.quiet = FALSE]
               /\ tx[q] \in Tx
               /\ [tx[q] EXCEPT !.quiet = FALSE] \in Tx
    <3>1. tx[q] \in Tx BY <1>1, <2>2
    <3>2. [tx[q] EXCEPT !.quiet = FALSE] \in Tx BY <3>1 DEF Tx
    <3> QED BY <2>1, <2>2, <3>1, <3>2
  <2>3. \A q \in Runs : tx[q] = None => tx'[q] = None BY <2>1
  <2>4. tx' \in [Runs -> Tx \cup {None}] BY <2>1, <2>2, <2>3
  <2>5. ASSUME NEW q \in Runs, tx'[q] # None
        PROVE  /\ tx[q] # None
               /\ tx'[q].kind = tx[q].kind /\ tx'[q].quotes = tx[q].quotes
               /\ tx'[q].billed = tx[q].billed
               /\ tx'[q].quiet = FALSE
    <3>1. tx[q] # None BY <2>3, <2>5
    <3> QED BY <2>2, <3>1 DEF Tx
  <2>6. changes' \in 0 .. MaxChanges
    BY <2>1, BillingAssumption DEF BillingAssumption, BillingTypeOK
  <2> QED BY <2>1, <2>4, <2>5, <2>6
<1>4. ASSUME NEW p \in Pupils, Enrol(p) PROVE BillingTypeOK' /\ OfficeChange /\ invoices' = invoices
  <2>1. OfficeChange /\ UNCHANGED <<price, plan, account, invoices>>
        /\ enrolled' \subseteq Pupils
    BY <1>4 DEF Enrol, BillingTypeOK
  <2> QED BY <2>1, <1>3 DEF BillingTypeOK
<1>5. ASSUME NEW p \in Pupils, NEW s \in Schedules, ChangePlan(p, s)
      PROVE  BillingTypeOK' /\ OfficeChange /\ invoices' = invoices
  <2>1. OfficeChange /\ UNCHANGED <<enrolled, price, account, invoices>>
        /\ plan' \in [Pupils -> Schedules \cup {None}]
    BY <1>5 DEF ChangePlan, BillingTypeOK
  <2> QED BY <2>1, <1>3 DEF BillingTypeOK
<1>6. ASSUME NEW p \in Pupils, NEW a \in Accounts, Regroup(p, a)
      PROVE  BillingTypeOK' /\ OfficeChange /\ invoices' = invoices
  <2>1. OfficeChange /\ UNCHANGED <<enrolled, price, plan, invoices>>
        /\ account' \in [Pupils -> Accounts]
    BY <1>6 DEF Regroup, BillingTypeOK
  <2> QED BY <2>1, <1>3 DEF BillingTypeOK
<1>7. ASSUME NEW s \in Schedules, NEW amount \in Prices \cup {None}, Reprice(s, amount)
      PROVE  BillingTypeOK' /\ OfficeChange /\ invoices' = invoices
  <2>1. OfficeChange /\ UNCHANGED <<enrolled, plan, account, invoices>>
        /\ price' \in [Schedules -> Prices \cup {None}]
    BY <1>7 DEF Reprice, BillingTypeOK
  <2> QED BY <2>1, <1>3 DEF BillingTypeOK
<1>8. ASSUME NEW i \in invoices, VoidInvoice(i)
      PROVE  BillingTypeOK' /\ OfficeChange /\ invoices' \subseteq invoices
  <2>1. OfficeChange /\ UNCHANGED <<enrolled, price, plan, account>> /\ invoices' \subseteq invoices
    BY <1>8 DEF VoidInvoice, office
  <2> QED BY <2>1, <1>3 DEF BillingTypeOK
<1>9. /\ UNCHANGED <<run, preview>> /\ invoices' \subseteq invoices
      /\ BillingTypeOK' /\ Fewer
  BY <1>2, <1>3, <1>4, <1>5, <1>6, <1>7, <1>8
<1> HIDE DEF Fewer, BillingIsSound
<1> QED
  <2> USE DEF Fewer
  <2> QED BY <1>9, OfficeKeepsBilling

-----------------------------------------------------------------------------
(* Issuing.                                                                 *)

\* What may be issued under the lock of run r: invoices of r, each for what its
\* holder has found chargeable, no pupil on two of them, and a catch-up only
\* for a pupil without one.
Issuable(r, new) ==
    /\ \A i \in new :
          /\ i \in Invoice /\ i.lines # {} /\ i.run = r
          /\ \A l \in i.lines :
                /\ l.pupil \in Chargeable(tx[r].quotes)
                /\ l = LineFor(l.pupil, tx[r].quotes[l.pupil])
          /\ i.pupil # None =>
                /\ \A l \in i.lines : l.pupil = i.pupil
                /\ \A j \in invoices : j.pupil # i.pupil
    /\ \A i, j \in new : \A l \in i.lines, m \in j.lines : l.pupil = m.pupil => i = j

\* New invoices that meet the conditions keep what is known of the old ones.
LEMMA IssueKeepsBilling ==
    ASSUME BillingIsSound, NEW r \in Runs, tx[r] # None,
           NEW new, Issuable(r, new),
           invoices' = invoices \cup new, Ended(r),
           UNCHANGED <<office, preview, changes>>,
           run' \in [Runs -> [status : {"none", "previewed", "confirmed"}, quotes : Quotes,
                              accounts : [Pupils -> Accounts]]],
           \A q \in Runs : run'[q].quotes = run[q].quotes
    PROVE  BillingIsSound' /\ NothingTwice
<1> USE DEF BillingIsSound
<1>1. tx \in [Runs -> Tx \cup {None}] BY DEF BillingTypeOK
<1>2. WhatTheHolderKnows(r) BY DEF HoldersAreRight
<1>3. ASSUME NEW i \in new, NEW l \in i.lines
      PROVE  /\ i.run = r
             /\ l.pupil \in Chargeable(tx[r].quotes)
             /\ l.schedule = tx[r].quotes[l.pupil].schedule
  BY <1>3 DEF Issuable, LineFor
<1>4. NothingTwice BY <1>2, <1>3 DEF NothingTwice, WhatTheHolderKnows
<1>5. ASSUME NEW q \in Runs, tx'[q] # None
      PROVE  /\ q # r /\ tx[q] # None /\ tx'[q] \in Tx
             /\ tx'[q].kind = tx[q].kind /\ tx'[q].quotes = tx[q].quotes
             /\ tx'[q].billed = tx[q].billed
             /\ tx'[q].quiet = FALSE
  <2>1. tx'[q] = IF q = r \/ tx[q] = None THEN None ELSE [tx[q] EXCEPT !.quiet = FALSE]
    BY DEF Ended
  <2>2. q # r /\ tx[q] # None /\ tx'[q] = [tx[q] EXCEPT !.quiet = FALSE] BY <1>5, <2>1
  <2>3. tx[q] \in Tx BY <1>1, <2>2
  <2>4. [tx[q] EXCEPT !.quiet = FALSE] \in Tx BY <2>3 DEF Tx
  <2> QED BY <2>2, <2>3, <2>4 DEF Tx
<1>6. tx' \in [Runs -> Tx \cup {None}]
  <2>1. tx' = [q \in Runs |->
              IF q = r \/ tx[q] = None THEN None ELSE [tx[q] EXCEPT !.quiet = FALSE]]
    BY DEF Ended
  <2>2. \A q \in Runs : tx'[q] \in Tx \cup {None} BY <1>5
  <2> QED BY <2>1, <2>2
<1>7. BillingTypeOK'
  <2>1. \A i \in invoices' : i \in Invoice /\ i.lines # {}
    BY DEF BillingTypeOK, Issuable
  <2> QED BY <1>6, <2>1 DEF BillingTypeOK, office
<1>8. QuotesArePriced' BY <1>5 DEF QuotesArePriced, Priced, Chargeable
<1>9. ASSUME NEW q \in Runs, tx'[q] # None PROVE WhatTheHolderKnows(q)'
  <2>1. WhatTheHolderKnows(q) BY <1>5, <1>9 DEF HoldersAreRight
  <2>2. ASSUME NEW p \in Chargeable(tx[q].quotes)
        PROVE  NotInvoiced(q, p, tx[q].quotes[p].schedule)'
    <3>1. NotInvoiced(q, p, tx[q].quotes[p].schedule) BY <2>1 DEF WhatTheHolderKnows
    <3>2. tx'[q].quotes = tx[q].quotes /\ q # r BY <1>5, <1>9
    <3>3. \A i \in new : i.run # q BY <3>2 DEF Issuable
    <3> QED BY <3>1, <3>2, <3>3 DEF NotInvoiced
  <2> QED BY <1>5, <1>9, <2>1, <2>2 DEF WhatTheHolderKnows, Chargeable
<1>10. HoldersAreRight' BY <1>9 DEF HoldersAreRight
<1>11. ASSUME NEW i \in invoices', NEW j \in invoices', i.run = j.run,
              NEW l \in i.lines, NEW m \in j.lines,
              l.pupil = m.pupil, l.schedule = m.schedule
       PROVE  i = j
  <2>1. CASE i \in invoices /\ j \in invoices
    BY <1>11, <2>1 DEF OneInvoiceEach
  <2>2. CASE i \in new /\ j \in new BY <1>11, <2>2 DEF Issuable
  <2>3. CASE i \in new /\ j \in invoices
    <3>1. NotInvoiced(r, l.pupil, l.schedule) BY <1>2, <1>3, <2>3 DEF WhatTheHolderKnows
    <3> QED BY <1>3, <1>11, <2>3, <3>1 DEF NotInvoiced
  <2>4. CASE j \in new /\ i \in invoices
    <3>1. NotInvoiced(r, m.pupil, m.schedule) BY <1>2, <1>3, <2>4 DEF WhatTheHolderKnows
    <3> QED BY <1>3, <1>11, <2>4, <3>1 DEF NotInvoiced
  <2> QED BY <2>1, <2>2, <2>3, <2>4
<1>12. ASSUME NEW i \in invoices', NEW j \in invoices', i.pupil = j.pupil, i.pupil # None
       PROVE  i = j
  <2>1. CASE i \in invoices /\ j \in invoices BY <1>12, <2>1 DEF OneCatchUpEach
  <2>2. CASE i \in new /\ j \in new
    <3>1. PICK l \in i.lines, m \in j.lines : l.pupil = i.pupil /\ m.pupil = j.pupil
      BY <1>12, <2>2 DEF Issuable
    <3> QED BY <1>12, <2>2, <3>1 DEF Issuable
  <2>3. CASE ~(i \in invoices /\ j \in invoices) /\ ~(i \in new /\ j \in new)
    BY <1>12, <2>3 DEF Issuable
  <2> QED BY <2>1, <2>2, <2>3
<1> QED BY <1>4, <1>7, <1>8, <1>10, <1>11, <1>12 DEF OneInvoiceEach, OneCatchUpEach

\* The lines of what is chargeable are lines.
LEMMA ChargedLine ==
    ASSUME NEW quotes, Priced(quotes), NEW p \in Chargeable(quotes)
    PROVE  /\ LineFor(p, quotes[p]) \in Line
           /\ LineFor(p, quotes[p]).pupil = p
           /\ p \in Pupils
BY DEF Priced, Chargeable, LineFor, Line

\* The invoices of a confirmation, one for each account without one.
LEMMA RunInvoicesAreIssuable ==
    ASSUME BillingIsSound, NEW r \in Runs, tx[r] # None, tx[r].kind = "confirm"
    PROVE  Issuable(r, RunInvoices(r))
<1> USE DEF BillingIsSound
<1> DEFINE quotes   == tx[r].quotes
           accounts == run[r].accounts
           linesOf(a) == {LineFor(p, quotes[p]) : p \in {q \in Chargeable(quotes) : accounts[q] = a}}
<1>1. run[r].quotes = quotes BY DEF HoldersAreRight, WhatTheHolderKnows
<1>2. Priced(quotes) BY DEF QuotesArePriced
<1>3. accounts \in [Pupils -> Accounts] BY DEF BillingTypeOK
<1>4. ASSUME NEW i \in RunInvoices(r)
      PROVE  \E a \in {accounts[p] : p \in Chargeable(quotes)} :
                i = [run |-> r, pupil |-> None, account |-> a, lines |-> linesOf(a)]
  BY <1>1, <1>4 DEF RunInvoices
<1>5. ASSUME NEW a, NEW l \in linesOf(a)
      PROVE  /\ l \in Line /\ l.pupil \in Chargeable(quotes)
             /\ l = LineFor(l.pupil, quotes[l.pupil])
             /\ accounts[l.pupil] = a
  <2>1. PICK p \in Chargeable(quotes) : accounts[p] = a /\ l = LineFor(p, quotes[p])
    BY <1>5
  <2>2. l \in Line /\ l.pupil = p BY <1>2, <2>1, ChargedLine
  <2> QED BY <2>1, <2>2
<1>6. ASSUME NEW i \in RunInvoices(r)
      PROVE  /\ i \in Invoice /\ i.lines # {} /\ i.run = r /\ i.pupil = None
             /\ i.lines = linesOf(i.account)
             /\ i = [run |-> r, pupil |-> None, account |-> i.account, lines |-> linesOf(i.account)]
  <2>1. PICK p \in Chargeable(quotes) :
          i = [run |-> r, pupil |-> None, account |-> accounts[p], lines |-> linesOf(accounts[p])]
    BY <1>4
  <2>2. accounts[p] \in Accounts BY <1>3 DEF Chargeable
  <2>3. linesOf(accounts[p]) \in SUBSET Line /\ linesOf(accounts[p]) # {}
    <3>1. LineFor(p, quotes[p]) \in linesOf(accounts[p]) OBVIOUS
    <3>2. \A l \in linesOf(accounts[p]) : l \in Line BY <1>5
    <3> HIDE DEF linesOf
    <3> QED BY <3>1, <3>2
  <2> HIDE DEF linesOf, accounts, quotes
  <2> QED BY <2>1, <2>2, <2>3 DEF Invoice
<1>7. ASSUME NEW i \in RunInvoices(r), NEW l \in i.lines
      PROVE  /\ l.pupil \in Chargeable(quotes)
             /\ l = LineFor(l.pupil, quotes[l.pupil])
             /\ accounts[l.pupil] = i.account
  <2>1. l \in linesOf(i.account) BY <1>6, <1>7
  <2> HIDE DEF linesOf
  <2> QED BY <2>1, <1>5
<1>8. ASSUME NEW i \in RunInvoices(r), NEW j \in RunInvoices(r),
             NEW l \in i.lines, NEW m \in j.lines, l.pupil = m.pupil
      PROVE  i = j
  <2>1. i.account = j.account BY <1>7, <1>8
  <2> HIDE DEF linesOf
  <2> QED BY <1>6, <2>1
<1> HIDE DEF linesOf, accounts
<1> QED BY <1>6, <1>7, <1>8 DEF Issuable

\* The invoices of a catch-up, one for each pupil without one.
LEMMA CatchUpsAreIssuable ==
    ASSUME BillingIsSound, NEW r \in Runs, tx[r] # None
    PROVE  Issuable(r, CatchUpInvoices(r))
<1> USE DEF BillingIsSound
<1> DEFINE quotes == tx[r].quotes
           invoiceOf(p) == [run |-> r, pupil |-> p, account |-> account[p],
                            lines |-> {LineFor(p, quotes[p])}]
<1>1. Priced(quotes) BY DEF QuotesArePriced
<1>2. ASSUME NEW i \in CatchUpInvoices(r)
      PROVE  \E p \in Chargeable(quotes) :
                i = invoiceOf(p) /\ \A j \in invoices : j.pupil # p
  BY <1>2 DEF CatchUpInvoices
<1>3. ASSUME NEW i \in CatchUpInvoices(r)
      PROVE  /\ i \in Invoice /\ i.lines # {} /\ i.run = r
             /\ i.pupil \in Chargeable(quotes)
             /\ i = invoiceOf(i.pupil)
             /\ \A l \in i.lines : l = LineFor(i.pupil, quotes[i.pupil]) /\ l.pupil = i.pupil
             /\ \A j \in invoices : j.pupil # i.pupil
  <2>1. PICK p \in Chargeable(quotes) :
          i = invoiceOf(p) /\ \A j \in invoices : j.pupil # p
    BY <1>2
  <2>2. p \in Pupils /\ LineFor(p, quotes[p]) \in Line /\ LineFor(p, quotes[p]).pupil = p
    BY <1>1, ChargedLine
  <2>3. account[p] \in Accounts BY <2>2 DEF BillingTypeOK
  <2> HIDE DEF quotes
  <2>4. i \in Invoice BY <2>1, <2>2, <2>3 DEF Invoice
  <2> QED BY <2>1, <2>2, <2>4
<1>4. ASSUME NEW i \in CatchUpInvoices(r), NEW j \in CatchUpInvoices(r),
             NEW l \in i.lines, NEW m \in j.lines, l.pupil = m.pupil
      PROVE  i = j
  <2>1. i.pupil = j.pupil BY <1>3, <1>4
  <2> HIDE DEF quotes
  <2> QED BY <1>3, <2>1
<1> QED BY <1>3, <1>4 DEF Issuable

\* A run issues its invoices.
LEMMA ConfirmKeepsBilling ==
    ASSUME BillingIsSound, NEW r \in Runs, ConfirmIssue(r)
    PROVE  BillingIsSound' /\ NothingTwice
<1>1. /\ tx[r] # None /\ tx[r].kind = "confirm" /\ Ended(r)
      /\ invoices' = invoices \cup RunInvoices(r)
      /\ UNCHANGED <<office, preview, changes>>
      /\ run' = [run EXCEPT ![r].status = "confirmed"]
  BY DEF ConfirmIssue
<1>2. Issuable(r, RunInvoices(r)) BY <1>1, RunInvoicesAreIssuable
<1>3. run \in [Runs -> [status : {"none", "previewed", "confirmed"}, quotes : Quotes,
                         accounts : [Pupils -> Accounts]]]
  BY DEF BillingIsSound, BillingTypeOK
<1>4. run' \in [Runs -> [status : {"none", "previewed", "confirmed"}, quotes : Quotes,
                              accounts : [Pupils -> Accounts]]]
  BY <1>1, <1>3
<1>5. \A q \in Runs : run'[q].quotes = run[q].quotes BY <1>1, <1>3
<1> HIDE DEF Ended
<1> QED BY <1>1, <1>2, <1>4, <1>5, IssueKeepsBilling

\* A catch-up issues the invoices that the run did not.
LEMMA CatchUpKeepsBilling ==
    ASSUME BillingIsSound, NEW r \in Runs, CatchUpIssue(r)
    PROVE  BillingIsSound' /\ NothingTwice
<1>1. /\ tx[r] # None /\ Ended(r)
      /\ invoices' = invoices \cup CatchUpInvoices(r)
      /\ UNCHANGED <<office, run, preview, changes>>
  BY DEF CatchUpIssue
<1>2. Issuable(r, CatchUpInvoices(r)) BY <1>1, CatchUpsAreIssuable
<1>3. run' \in [Runs -> [status : {"none", "previewed", "confirmed"}, quotes : Quotes,
                              accounts : [Pupils -> Accounts]]]
  BY <1>1 DEF BillingIsSound, BillingTypeOK
<1>4. \A q \in Runs : run'[q].quotes = run[q].quotes BY <1>1
<1> QED BY <1>1, <1>2, <1>3, <1>4, IssueKeepsBilling

\* What a quiet holder issues is what is due today.
LEMMA QuietHoldersChargeExactly ==
    ASSUME BillingIsSound
    PROVE  QuietChargesExactly
<1> SUFFICES ASSUME NEW r \in Runs, tx[r] # None, tx[r].quiet,
                    ConfirmIssue(r) \/ CatchUpIssue(r)
             PROVE  UNION {i.lines : i \in invoices' \ invoices} = Charged(r)
  BY DEF QuietChargesExactly, Charged
<1> DEFINE quotes == tx[r].quotes
<1>1. quotes = QuotesNow(r) /\ WhatTheHolderKnows(r)
  BY DEF BillingIsSound, HoldersAreRight, WhatTheHolderKnows
<1>2. Charged(r) = {LineFor(p, quotes[p]) : p \in {q \in Chargeable(quotes) : ~PassedOver(r, q)}}
  BY <1>1 DEF Charged, Chargeable, QuotesNow
<1>3. ASSUME ConfirmIssue(r) PROVE UNION {i.lines : i \in invoices' \ invoices} = Charged(r)
  <2> DEFINE accounts == run[r].accounts
             free     == {a \in {accounts[p] : p \in Chargeable(quotes)} : ~HasInvoice(r, None, a)}
             linesOf(a) == {LineFor(p, quotes[p]) : p \in {q \in Chargeable(quotes) : accounts[q] = a}}
  <2>1. /\ tx[r].kind = "confirm" /\ run[r].quotes = quotes
        /\ invoices' = invoices \cup RunInvoices(r)
    BY <1>1, <1>3 DEF ConfirmIssue, WhatTheHolderKnows
  <2>2. RunInvoices(r) =
          {[run |-> r, pupil |-> None, account |-> a, lines |-> linesOf(a)] : a \in free}
    BY <2>1 DEF RunInvoices
  <2>3. \A i \in RunInvoices(r) : i \notin invoices BY <2>2 DEF HasInvoice
  <2>4. invoices' \ invoices = RunInvoices(r) BY <2>1, <2>3
  <2>5. \A q \in Pupils : PassedOver(r, q) <=> HasInvoice(r, None, accounts[q])
    BY <2>1 DEF PassedOver
  <2>6. ASSUME NEW l PROVE l \in UNION {i.lines : i \in RunInvoices(r)} <=>
                              \E a \in free : l \in linesOf(a)
    <3> DEFINE invoiceOf(a) ==
                  [run |-> r, pupil |-> None, account |-> a, lines |-> linesOf(a)]
    <3>1. \A a \in free : invoiceOf(a) \in RunInvoices(r) /\ invoiceOf(a).lines = linesOf(a)
      BY <2>2
    <3>2. \A i \in RunInvoices(r) : \E a \in free : i.lines = linesOf(a)
      BY <2>2
    <3> HIDE DEF linesOf, free, invoiceOf
    <3> QED BY <3>1, <3>2
  <2>7. ASSUME NEW l PROVE (\E a \in free : l \in linesOf(a)) <=> l \in Charged(r)
    BY <1>2, <2>5 DEF Chargeable
  <2> QED BY <2>4, <2>6, <2>7
<1>4. ASSUME CatchUpIssue(r) PROVE UNION {i.lines : i \in invoices' \ invoices} = Charged(r)
  <2> DEFINE missing == {p \in Chargeable(quotes) : \A i \in invoices : i.pupil # p}
  <2>1. tx[r].kind = "catch_up" /\ invoices' = invoices \cup CatchUpInvoices(r)
    BY <1>4 DEF CatchUpIssue
  <2>2. CatchUpInvoices(r) =
          {[run |-> r, pupil |-> p, account |-> account[p],
            lines |-> {LineFor(p, quotes[p])}] : p \in missing}
    BY DEF CatchUpInvoices
  <2>3. \A i \in CatchUpInvoices(r) : i \notin invoices BY <2>2
  <2>4. invoices' \ invoices = CatchUpInvoices(r) BY <2>1, <2>3
  <2>5. \A q \in Pupils : PassedOver(r, q) <=> \E i \in invoices : i.pupil = q
    BY <2>1 DEF PassedOver
  <2>6. ASSUME NEW l PROVE l \in UNION {i.lines : i \in CatchUpInvoices(r)} <=>
                              \E p \in missing : l = LineFor(p, quotes[p])
    <3> DEFINE invoiceOf(p) ==
                  [run |-> r, pupil |-> p, account |-> account[p],
                   lines |-> {LineFor(p, quotes[p])}]
    <3>1. \A p \in missing : /\ invoiceOf(p) \in CatchUpInvoices(r)
                             /\ invoiceOf(p).lines = {LineFor(p, quotes[p])}
      BY <2>2
    <3>2. \A i \in CatchUpInvoices(r) : \E p \in missing : i.lines = {LineFor(p, quotes[p])}
      BY <2>2
    <3> HIDE DEF missing, quotes, invoiceOf
    <3> QED BY <3>1, <3>2
  <2>7. ASSUME NEW l PROVE (\E p \in missing : l = LineFor(p, quotes[p])) <=> l \in Charged(r)
    BY <1>2, <2>5 DEF Chargeable
  <2> QED BY <2>4, <2>6, <2>7
<1> QED BY <1>3, <1>4

-----------------------------------------------------------------------------
(* Theorems.                                                                *)

\* Every step keeps the invariant, and bills as the two properties of steps say.
LEMMA BillingStep ==
    ASSUME BillingIsSound, [BillingNext]_billingVars
    PROVE  BillingIsSound' /\ NothingTwice /\ QuietChargesExactly
<1>1. CASE UNCHANGED billingVars
  <2>1. UNCHANGED <<office, enrolled, price, plan, account, run, preview, tx, invoices, changes>>
    BY <1>1 DEF billingVars, office
  <2>2. BillingTypeOK' BY <2>1 DEF BillingIsSound, BillingTypeOK
  <2> QED BY <2>1, <2>2, OfficeKeepsBilling, QuietHoldersChargeExactly DEF NothingTwice
<1>2. ASSUME NEW r \in Runs, PreviewRead(r) \/ PreviewSave(r) \/ PreviewFails(r)
      PROVE  BillingIsSound' /\ invoices' \subseteq invoices
  BY <1>2, PreviewKeepsBilling
<1>3. ASSUME NEW r \in Runs, ConfirmCheck(r) \/ CatchUpCheck(r)
      PROVE  BillingIsSound' /\ invoices' \subseteq invoices
  BY <1>3, BeginKeepsBilling
<1>4. ASSUME NEW r \in Runs, ConfirmIssue(r) \/ CatchUpIssue(r)
      PROVE  BillingIsSound' /\ NothingTwice
  BY <1>4, ConfirmKeepsBilling, CatchUpKeepsBilling
<1>5. ASSUME \/ \E r \in Runs : Rollback(r)
             \/ \E p \in Pupils : Enrol(p)
             \/ \E p \in Pupils, s \in Schedules : ChangePlan(p, s)
             \/ \E p \in Pupils, a \in Accounts : Regroup(p, a)
             \/ \E s \in Schedules, amount \in Prices \cup {None} : Reprice(s, amount)
             \/ \E i \in invoices : VoidInvoice(i)
      PROVE  BillingIsSound' /\ invoices' \subseteq invoices
  BY <1>5, OtherStepsKeepBilling
<1>6. invoices' \subseteq invoices => NothingTwice BY DEF NothingTwice
<1>7. BillingNext => BillingIsSound' /\ NothingTwice
  BY <1>2, <1>3, <1>4, <1>5, <1>6 DEF BillingNext
<1> QED BY <1>1, <1>7, QuietHoldersChargeExactly

\* An office that has billed nothing is sound.
LEMMA BillingStart == BillingInit => BillingIsSound
<1> SUFFICES ASSUME BillingInit PROVE BillingIsSound OBVIOUS
<1>1. NoQuotes \in Quotes /\ Chargeable(NoQuotes) = {}
  BY DEF NoQuotes, Quotes, Chargeable
<1>2. Priced(NoQuotes) BY <1>1 DEF Priced
<1>3. /\ \A r \in Runs : run[r].quotes = NoQuotes
      /\ run \in [Runs -> [status : {"none", "previewed", "confirmed"}, quotes : Quotes,
                         accounts : [Pupils -> Accounts]]]
  BY <1>1 DEF BillingInit
<1>4. BillingTypeOK BY <1>3, BillingAssumption DEF BillingInit, BillingTypeOK, BillingAssumption
<1> QED BY <1>2, <1>3, <1>4 DEF BillingIsSound, QuotesArePriced, HoldersAreRight,
           OneInvoiceEach, OneCatchUpEach, BillingInit

\* The invariant holds of every reachable state.
LEMMA BillingAlwaysSound == BillingSpec => []BillingIsSound
<1>1. BillingIsSound /\ [BillingNext]_billingVars => BillingIsSound' BY BillingStep
<1> QED BY <1>1, BillingStart, PTL DEF BillingSpec

\* A set whose members are all the same has at most one.
LEMMA AtMostOne ==
    ASSUME NEW S, \A x, y \in S : x = y
    PROVE  Cardinality(S) <= 1
<1>1. CASE S = {} BY <1>1, FS_EmptySet
<1>2. CASE S # {}
  <2>1. PICK x \in S : TRUE BY <1>2
  <2>2. S = {x} BY <2>1
  <2>3. Cardinality({x}) = 1 BY FS_Singleton
  <2> QED BY <2>2, <2>3
<1> QED BY <1>1, <1>2

\* One line for each pupil and schedule is one invoice of each.
LEMMA SoundBillsOnce == BillingIsSound => BilledOncePerRun
<1> SUFFICES ASSUME BillingIsSound, NEW p \in Pupils
             PROVE  /\ \A r \in Runs, s \in Schedules : Cardinality(InvoicesFor(r, p, s)) <= 1
                    /\ Cardinality({i \in invoices : i.pupil = p}) <= 1
  BY DEF BilledOncePerRun
<1>1. ASSUME NEW r \in Runs, NEW s \in Schedules PROVE Cardinality(InvoicesFor(r, p, s)) <= 1
  <2>1. \A i, j \in InvoicesFor(r, p, s) : i = j
    BY DEF BillingIsSound, OneInvoiceEach, InvoicesFor
  <2> QED BY <2>1, AtMostOne
<1>2. Cardinality({i \in invoices : i.pupil = p}) <= 1
  <2> DEFINE S == {i \in invoices : i.pupil = p}
  <2>1. p # None BY BillingAssumption DEF BillingAssumption
  <2>2. \A i, j \in S : i = j BY <2>1 DEF BillingIsSound, OneCatchUpEach
  <2>3. Cardinality(S) <= 1
    <3> HIDE DEF S
    <3> QED BY <2>2, AtMostOne
  <2> QED BY <2>3
<1> QED BY <1>1, <1>2

\* A run charges a pupil once by a schedule, and catch-ups charge a pupil once
\* in the period (previewBillingRun, confirmBillingRun and the catch-ups).
THEOREM PupilsAreBilledOnce == BillingSpec => []BillingInv
<1>1. BillingIsSound => BillingInv BY SoundBillsOnce DEF BillingInv, BillingIsSound
<1> QED BY <1>1, BillingAlwaysSound, PTL

\* The general run and the run of a schedule charge a pupil twice only if the
\* two were issued in overlapping transactions (confirmBillingRun).
THEOREM OnlyOverlapBillsTwice == BillingSpec => DoubleBillingNeedsOverlap
<1>1. BillingIsSound /\ [BillingNext]_billingVars => [NothingTwice]_billingVars
  BY BillingStep
<1>2. BillingSpec => [][NothingTwice]_billingVars
  BY <1>1, BillingAlwaysSound, PTL DEF BillingSpec
<1> QED BY <1>2 DEF DoubleBillingNeedsOverlap, NothingTwice

\* A run or a catch-up that nothing came across charges every pupil who is due
\* and nobody else (confirmBillingRun and the catch-ups).
THEOREM QuietRunsAreExact == BillingSpec => QuietRunsBillExactly
<1>1. BillingIsSound /\ [BillingNext]_billingVars => [QuietChargesExactly]_billingVars
  BY BillingStep
<1> QED BY <1>1, BillingAlwaysSound, PTL
           DEF BillingSpec, QuietRunsBillExactly, QuietChargesExactly

-----------------------------------------------------------------------------
(* The arithmetic of a quote: division and sums.                            *)

\* Division and remainder.
LEMMA Divided ==
    ASSUME NEW x \in Nat, NEW d \in Nat \ {0}
    PROVE  x \div d \in Nat /\ x % d \in 0 .. d - 1 /\ x = d * (x \div d) + (x % d)
OBVIOUS

\* A multiple that is smaller has a smaller factor.
LEMMA SmallerFactor ==
    ASSUME NEW d \in Nat \ {0}, NEW a \in Int, NEW b \in Int, d * a < d * b
    PROVE  a < b
OBVIOUS

\* Two parts of a multiple of d, divided by d and rounded down each, come to the
\* quotient or to one less.
LEMMA PartsRoundDown ==
    ASSUME NEW d \in Nat \ {0}, NEW q \in Nat, NEW x \in Nat, NEW y \in Nat, x + y = d * q
    PROVE  x \div d + y \div d \in q - 1 .. q
<1> DEFINE a == x \div d
           b == y \div d
           r == x % d
           s == y % d
<1>1. a \in Nat /\ b \in Nat /\ r \in 0 .. d - 1 /\ s \in 0 .. d - 1
      /\ x = d * a + r /\ y = d * b + s
  BY Divided
<1> HIDE DEF a, b, r, s
<1>2. d * a + d * b + r + s = d * q BY <1>1
<1>3. d * (a + b) = d * a + d * b BY <1>1
<1>4. d * (q + 1) = d * q + d /\ d * (a + b + 2) = d * (a + b) + 2 * d BY <1>1
<1>5. d * (a + b) < d * (q + 1) BY <1>1, <1>2, <1>3, <1>4
<1>6. d * q < d * (a + b + 2) BY <1>1, <1>2, <1>3, <1>4
<1>7. a + b < q + 1 BY <1>1, <1>5, SmallerFactor
<1>8. q < a + b + 2 BY <1>1, <1>6, SmallerFactor
<1> QED BY <1>1, <1>7, <1>8 DEF a, b

\* The sum of two amounts.
LEMMA TotalOfTwo ==
    ASSUME NEW f \in [1 .. 2 -> Nat]
    PROVE  Total(f) = f[1] + f[2]
<1> DEFINE S == 1 .. 2
           zeros == [i \in S |-> 0]
           first == [i \in S |-> IF i = 1 THEN f[1] ELSE 0]
<1>1. IsFiniteSet(S)
  <2>1. S = {1, 2} OBVIOUS
  <2>2. IsFiniteSet({1}) BY FS_Singleton
  <2>3. IsFiniteSet({1} \cup {2}) BY <2>2, FS_AddElement
  <2>4. S = {1} \cup {2} BY <2>1
  <2> QED BY <2>3, <2>4
<1>2. zeros \in [S -> Nat] /\ first \in [S -> Nat] /\ f \in [S -> Nat] OBVIOUS
<1>3. Total(zeros) = 0 BY <1>2, TotalOfZeros
<1>4. Total(first) = Total(zeros) - zeros[1] + first[1]
  <2>1. \A y \in S \ {1} : first[y] = zeros[y] OBVIOUS
  <2>2. 1 \in S OBVIOUS
  <2> HIDE DEF S, zeros, first
  <2> QED BY <1>1, <1>2, <2>1, <2>2, TotalChange
<1>5. Total(f) = Total(first) - first[2] + f[2]
  <2>1. \A y \in S \ {2} : f[y] = first[y] OBVIOUS
  <2>2. 2 \in S OBVIOUS
  <2> HIDE DEF S, zeros, first
  <2> QED BY <1>1, <1>2, <2>1, <2>2, TotalChange
<1>6. zeros[1] = 0 /\ first[1] = f[1] /\ first[2] = 0 OBVIOUS
<1>7. f[1] \in Nat /\ f[2] \in Nat OBVIOUS
<1> HIDE DEF zeros, first
<1> QED BY <1>3, <1>4, <1>5, <1>6, <1>7

\* The sum of equal amounts.
LEMMA TotalOfEquals ==
    ASSUME NEW n \in Nat, NEW amount \in Nat, NEW f \in [1 .. n -> Nat],
           \A i \in 1 .. n : f[i] = amount
    PROVE  Total(f) = n * amount
<1>1. Units(f) = (1 .. n) \X (1 .. amount)
  <2>1. Units(f) = {u \in (1 .. n) \X Nat : u[2] \in 1 .. f[u[1]]} BY UnitsMember
  <2> QED BY <2>1
<1>2. IsFiniteSet(1 .. n) /\ Cardinality(1 .. n) = n BY FS_Interval
<1>3. IsFiniteSet(1 .. amount) /\ Cardinality(1 .. amount) = amount BY FS_Interval
<1>4. Cardinality((1 .. n) \X (1 .. amount)) = n * amount
  <2> DEFINE A == 1 .. n
             B == 1 .. amount
  <2>1. IsFiniteSet(A) /\ Cardinality(A) = n /\ IsFiniteSet(B) /\ Cardinality(B) = amount
    BY <1>2, <1>3
  <2> HIDE DEF A, B
  <2>2. Cardinality(A \X B) = n * amount BY <2>1, FS_Product
  <2> QED BY <2>2 DEF A, B
<1> QED BY <1>1, <1>4 DEF Total

-----------------------------------------------------------------------------
(* Questions.                                                               *)

\* The amounts, the plans and the periods are numbers.
LEMMA QuestionsAreNumbers ==
    Amounts \in SUBSET Nat /\ Counts \in SUBSET (1 .. 24) /\ Months \in SUBSET Nat
    /\ Days \in SUBSET (Nat \ {0})
<1>1. Amounts \subseteq Nat BY QuotesAssumption
<1>2. Counts \subseteq 1 .. 24 BY QuotesAssumption
<1>3. Months \subseteq Nat BY QuotesAssumption
<1>4. Days \subseteq Nat \ {0} BY QuotesAssumption
<1> QED BY <1>1, <1>2, <1>3, <1>4

\* What is asked, by its kind.
LEMMA QuestionKinds ==
    ASSUME asked \in Questions
    PROVE  /\ asked.kind = "year" => asked.plan \in Plans
           /\ asked.kind = "parts" =>
                /\ asked.fee \in Amounts /\ asked.days \in Days
                /\ asked.cut \in 1 .. asked.days - 1 /\ asked.policy \in MidPeriodPolicies
           /\ asked.kind = "shares" =>
                \E a, b \in Amounts : asked.gross = <<a, b>> /\ asked.paid \in 0 .. a + b
<1>1. \A d : asked \in PartQuestions(d) =>
        /\ asked.kind = "parts" /\ asked.fee \in Amounts /\ asked.days = d
        /\ asked.cut \in 1 .. d - 1 /\ asked.policy \in MidPeriodPolicies
  BY DEF PartQuestions
<1>2. \A a, b : asked \in ShareQuestions(a, b) =>
        asked.kind = "shares" /\ asked.gross = <<a, b>> /\ asked.paid \in 0 .. a + b
  BY DEF ShareQuestions
<1>3. \/ asked \in [kind : {"quote"}, fee : Amounts, offered : SUBSET Candidates, mode : Modes,
                    rate : Rates, inclusive : BOOLEAN]
      \/ asked \in [kind : {"year"}, plan : Plans]
      \/ asked \in [kind : {"run"}, first : Plans, second : Plans, month : Months]
      \/ asked \in UNION {PartQuestions(d) : d \in Days}
      \/ asked \in UNION {ShareQuestions(a, b) : a \in Amounts, b \in Amounts}
  BY DEF Questions
<1>4. asked \in UNION {PartQuestions(d) : d \in Days} => \E d \in Days : asked \in PartQuestions(d) OBVIOUS
<1>5. asked \in UNION {ShareQuestions(a, b) : a \in Amounts, b \in Amounts}
        => \E a, b \in Amounts : asked \in ShareQuestions(a, b)
  OBVIOUS
<1> QED BY <1>1, <1>2, <1>3, <1>4, <1>5

\* The question stays, and only a question that has no answer is answered.
LEMMA AnswersOnce ==
    ASSUME QuotesNext
    PROVE  asked' = asked /\ answer = Nothing
BY DEF QuotesNext, AnswerQuote, AnswerYear, AnswerRun, AnswerParts, AnswerShares

-----------------------------------------------------------------------------
(* Answers.                                                                 *)

\* The instalments of a plan come to the fee of the year.
LEMMA YearIsWhole ==
    ASSUME asked \in Questions, AnswerYear
    PROVE  Total(answer') = asked.plan.annual
<1> DEFINE year == asked.plan
           n == year.count
           annual == year.annual
           base == annual \div n
           amounts == [i \in 1 .. n |-> IF i = n THEN annual - base * (n - 1) ELSE base]
           equals == [i \in 1 .. n |-> base]
<1>1. asked.kind = "year" BY DEF AnswerYear
<1>2. year \in Plans BY <1>1, QuestionKinds
<1>3. annual \in Nat /\ n \in 1 .. 24 /\ year.from \in Nat
  BY <1>2, QuestionsAreNumbers DEF Plans
<1>4. n \in Nat \ {0} BY <1>3
<1>5. base \in Nat /\ annual % n \in 0 .. n - 1 /\ annual = n * base + (annual % n)
  BY <1>3, <1>4, Divided
<1>6. ASSUME NEW i \in 1 .. n PROVE InstalmentNumber(year, year.from + i - 1) = i
  <2>1. i \in Int BY <1>4
  <2>2. (year.from + i - 1) - year.from + 1 = i BY <1>3, <2>1
  <2> QED BY <1>6, <2>2 DEF InstalmentNumber
<1>7. answer' = amounts
  <2>1. answer' = [i \in 1 .. n |->
                     Instalment(year, InstalmentNumber(year, year.from + i - 1))]
    BY DEF AnswerYear
  <2>2. \A i \in 1 .. n : Instalment(year, InstalmentNumber(year, year.from + i - 1)) = amounts[i]
    BY <1>6 DEF Instalment
  <2>3. [i \in 1 .. n |-> Instalment(year, InstalmentNumber(year, year.from + i - 1))] = amounts
    BY <2>2
  <2> QED BY <2>1, <2>3
<1> HIDE DEF base
<1>8. n * base = base * (n - 1) + base BY <1>4, <1>5
<1>9. annual - base * (n - 1) \in Nat
  <2> DEFINE most == base * (n - 1)
  <2>1. most \in Int /\ annual = most + base + (annual % n) /\ annual % n \in Nat
    BY <1>4, <1>5, <1>8
  <2> HIDE DEF most
  <2>2. annual - most = base + (annual % n) BY <1>5, <2>1
  <2> QED BY <1>5, <2>1, <2>2 DEF most
<1>10. equals \in [1 .. n -> Nat] /\ amounts \in [1 .. n -> Nat] BY <1>5, <1>9
<1>11. Total(equals) = n * base
  <2>1. \A i \in 1 .. n : equals[i] = base OBVIOUS
  <2> HIDE DEF equals, n
  <2> QED BY <1>4, <1>5, <1>10, <2>1, TotalOfEquals
<1>12. Total(amounts) = Total(equals) - equals[n] + amounts[n]
  <2> DEFINE S == 1 .. n
  <2>1. \A y \in S \ {n} : amounts[y] = equals[y] OBVIOUS
  <2>2. n \in S BY <1>4
  <2>3. IsFiniteSet(S) BY <1>4, FS_Interval
  <2>4. equals \in [S -> Nat] /\ amounts \in [S -> Nat] BY <1>10
  <2> HIDE DEF S, equals, amounts, n
  <2> QED BY <2>1, <2>2, <2>3, <2>4, TotalChange
<1>13. equals[n] = base /\ amounts[n] = annual - base * (n - 1) BY <1>4
<1>14. base * (n - 1) \in Int BY <1>4, <1>5
<1> HIDE DEF equals, amounts
<1> QED BY <1>3, <1>5, <1>7, <1>8, <1>11, <1>12, <1>13, <1>14

\* Two prorated parts of a period come to the fee, or to one unit less.
LEMMA PeriodIsWhole ==
    ASSUME asked \in Questions, AnswerParts, asked.policy = "prorate"
    PROVE  Total(answer') \in asked.fee - 1 .. asked.fee
<1> DEFINE fee == asked.fee
           d == asked.days
           cut == asked.cut
<1>1. asked.kind = "parts" BY DEF AnswerParts
<1>2. fee \in Nat /\ d \in Nat \ {0} /\ cut \in 1 .. d - 1
  BY <1>1, QuestionKinds, QuestionsAreNumbers
<1>3. answer' = <<PartOfPeriod(fee, asked.policy, cut, d),
                  PartOfPeriod(fee, asked.policy, d - cut, d)>>
  BY DEF AnswerParts
<1>4. \A days \in 1 .. d - 1 : PartOfPeriod(fee, asked.policy, days, d) = (fee * days) \div d
  BY <1>2 DEF PartOfPeriod, Prorate
<1>5. cut \in 1 .. d - 1 /\ d - cut \in 1 .. d - 1 BY <1>2
<1> HIDE DEF d, cut, fee
<1>6. answer' = <<(fee * cut) \div d, (fee * (d - cut)) \div d>> BY <1>3, <1>4, <1>5
<1>7. fee * cut \in Nat /\ fee * (d - cut) \in Nat /\ d * fee \in Nat BY <1>2, <1>5
<1>8. fee * cut + fee * (d - cut) = d * fee BY <1>2, <1>5
<1>9. (fee * cut) \div d \in Nat /\ (fee * (d - cut)) \div d \in Nat BY <1>2, <1>7, Divided
<1>10. (fee * cut) \div d + (fee * (d - cut)) \div d \in fee - 1 .. fee
  BY <1>2, <1>7, <1>8, PartsRoundDown
<1>11. Total(answer') = (fee * cut) \div d + (fee * (d - cut)) \div d
  <2> DEFINE a == (fee * cut) \div d
             b == (fee * (d - cut)) \div d
             f == <<a, b>>
  <2>1. a \in Nat /\ b \in Nat BY <1>9
  <2> HIDE DEF a, b
  <2>2. f \in [1 .. 2 -> Nat] /\ f[1] = a /\ f[2] = b BY <2>1
  <2>3. Total(f) = a + b
    <3> HIDE DEF f
    <3> QED BY <2>2, TotalOfTwo
  <2> QED BY <1>6, <2>3 DEF a, b
<1> QED BY <1>10, <1>11 DEF fee

\* A share of an amount, where there is any.
LEMMA ShareIs ==
    ASSUME NEW total \in Nat, NEW share \in Nat, NEW of \in Nat \ {0}
    PROVE  Share(total, share, of) = (total * share) \div of
<1>1. total = 0 \/ share = 0 => total * share = 0 OBVIOUS
<1>2. 0 \div of = 0
  <2>1. 0 \div of \in Nat /\ 0 % of \in 0 .. of - 1 /\ 0 = of * (0 \div of) + (0 % of)
    BY Divided
  <2> DEFINE q == 0 \div of
             r == 0 % of
  <2>2. q \in Nat /\ r \in Nat /\ 0 = of * q + r BY <2>1
  <2> HIDE DEF q, r
  <2>3. of * q < of * 1 BY <2>2
  <2>4. q < 1 BY <2>2, <2>3, SmallerFactor
  <2>5. q = 0 BY <2>2, <2>4
  <2> QED BY <2>5 DEF q
<1> QED BY <1>1, <1>2 DEF Share

\* The shares of an amount that two have in what they owe: together the amount, or
\* one unit less.
LEMMA SharesRoundDown ==
    ASSUME NEW a \in Nat, NEW b \in Nat, a + b # 0, NEW total \in Nat
    PROVE  /\ Share(total, a, a + b) \in Nat /\ Share(total, b, a + b) \in Nat
           /\ Share(total, a, a + b) + Share(total, b, a + b) \in total - 1 .. total
<1> DEFINE of == a + b
<1>1. of \in Nat \ {0} OBVIOUS
<1>2. total * a + total * b = of * total OBVIOUS
<1>3. total * a \in Nat /\ total * b \in Nat OBVIOUS
<1> HIDE DEF of
<1>4. (total * a) \div of \in Nat /\ (total * b) \div of \in Nat BY <1>1, <1>3, Divided
<1>5. (total * a) \div of + (total * b) \div of \in total - 1 .. total
  BY <1>1, <1>2, <1>3, PartsRoundDown
<1>6. Share(total, a, of) = (total * a) \div of /\ Share(total, b, of) = (total * b) \div of
  BY <1>1, ShareIs
<1> QED BY <1>4, <1>5, <1>6 DEF of

\* The shares that one has of what was paid and of what was not.
LEMMA ShareFitsTheLines ==
    ASSUME NEW of \in Nat \ {0}, NEW paid \in 0 .. of, NEW mine \in Nat
    PROVE  Share(paid, mine, of) + Share(of - paid, mine, of) <= mine
<1>1. paid \in Nat /\ of - paid \in Nat OBVIOUS
<1>2. paid * mine + (of - paid) * mine = of * mine BY <1>1
<1>3. paid * mine \in Nat /\ (of - paid) * mine \in Nat BY <1>1
<1> DEFINE left == of - paid
<1>4. left \in Nat BY <1>1
<1>5. Share(left, mine, of) = (left * mine) \div of /\ Share(paid, mine, of) = (paid * mine) \div of
  <2> HIDE DEF left
  <2> QED BY <1>1, <1>4, ShareIs
<1>6. (paid * mine) \div of + (left * mine) \div of \in mine - 1 .. mine
  BY <1>2, <1>3, PartsRoundDown
<1>7. (paid * mine) \div of \in Nat /\ (left * mine) \div of \in Nat BY <1>3, Divided
<1> QED BY <1>5, <1>6, <1>7

\* Of an invoice of nothing there are no shares.
LEMMA NoShares ==
    ASSUME NEW total, NEW share
    PROVE  Share(total, share, 0) = 0
BY DEF Share

\* The shares fit the invoice.
LEMMA SharesAreFit ==
    ASSUME asked \in Questions, AnswerShares
    PROVE  LET paid == answer'[1].paid + answer'[2].paid
               left == answer'[1].outstanding + answer'[2].outstanding
               of   == Total(asked.gross)
           IN  /\ paid \in asked.paid - 1 .. asked.paid
               /\ left \in of - asked.paid - 1 .. of - asked.paid
               /\ \A i \in 1 .. 2 : answer'[i].paid + answer'[i].outstanding <= asked.gross[i]
<1>1. PICK a, b \in Amounts : asked.gross = <<a, b>> /\ asked.paid \in 0 .. a + b
  BY QuestionKinds DEF AnswerShares
<1>2. a \in Nat /\ b \in Nat BY <1>1, QuestionsAreNumbers
<1>3. Total(asked.gross) = a + b
  <2> DEFINE f == <<a, b>>
  <2>1. f \in [1 .. 2 -> Nat] /\ f[1] = a /\ f[2] = b BY <1>2
  <2>2. Total(f) = a + b
    <3> HIDE DEF f
    <3> QED BY <2>1, TotalOfTwo
  <2> QED BY <1>1, <2>2
<1> DEFINE of == a + b
           paid == asked.paid
           left == of - paid
<1>4. of \in Nat /\ paid \in Nat /\ left \in Nat /\ paid \in 0 .. of BY <1>1, <1>2
<1>5. asked.gross[1] = a /\ asked.gross[2] = b BY <1>1
<1>6. answer' = [i \in 1 .. 2 |-> [paid |-> Share(paid, asked.gross[i], of),
                                   outstanding |-> Share(left, asked.gross[i], of)]]
  BY <1>3 DEF AnswerShares
<1>7. /\ answer'[1].paid = Share(paid, a, of) /\ answer'[1].outstanding = Share(left, a, of)
      /\ answer'[2].paid = Share(paid, b, of) /\ answer'[2].outstanding = Share(left, b, of)
  BY <1>5, <1>6
<1>8. /\ Share(paid, a, of) + Share(paid, b, of) \in paid - 1 .. paid
      /\ Share(left, a, of) + Share(left, b, of) \in left - 1 .. left
      /\ Share(paid, a, of) + Share(left, a, of) <= a
      /\ Share(paid, b, of) + Share(left, b, of) <= b
  <2>1. ASSUME of = 0
        PROVE  /\ Share(paid, a, of) + Share(paid, b, of) \in paid - 1 .. paid
               /\ Share(left, a, of) + Share(left, b, of) \in left - 1 .. left
               /\ Share(paid, a, of) + Share(left, a, of) <= a
               /\ Share(paid, b, of) + Share(left, b, of) <= b
    <3>1. paid = 0 /\ left = 0 BY <1>4, <2>1
    <3>2. \A total, share : Share(total, share, of) = 0 BY <2>1, NoShares
    <3> HIDE DEF paid, left, of
    <3> QED BY <1>2, <3>1, <3>2
  <2>2. ASSUME of # 0
        PROVE  /\ Share(paid, a, of) + Share(paid, b, of) \in paid - 1 .. paid
               /\ Share(left, a, of) + Share(left, b, of) \in left - 1 .. left
    <3>1. /\ Share(paid, a, of) + Share(paid, b, of) \in paid - 1 .. paid
      <4> HIDE DEF paid, left
      <4> QED BY <1>2, <1>4, <2>2, SharesRoundDown
    <3>2. /\ Share(left, a, of) + Share(left, b, of) \in left - 1 .. left
      <4> HIDE DEF paid, left
      <4> QED BY <1>2, <1>4, <2>2, SharesRoundDown
    <3> QED BY <3>1, <3>2
  <2>3. ASSUME of # 0
        PROVE  /\ Share(paid, a, of) + Share(left, a, of) <= a
               /\ Share(paid, b, of) + Share(left, b, of) <= b
    <3>1. of \in Nat \ {0} BY <1>4, <2>3
    <3>2. left = of - paid OBVIOUS
    <3> HIDE DEF of, paid, left
    <3> QED BY <1>2, <1>4, <3>1, <3>2, ShareFitsTheLines
  <2> QED BY <2>1, <2>2, <2>3
<1>9. \A i \in 1 .. 2 : answer'[i].paid + answer'[i].outstanding <= asked.gross[i]
  <2>1. \A i \in 1 .. 2 : i = 1 \/ i = 2 OBVIOUS
  <2> HIDE DEF of, paid, left
  <2> QED BY <1>5, <1>7, <1>8, <2>1
<1>10. Total(asked.gross) - asked.paid = left BY <1>3
<1>11. Total(asked.gross) - asked.paid - 1 .. Total(asked.gross) - asked.paid = left - 1 .. left
  BY <1>3
<1> HIDE DEF of, left
<1> QED BY <1>7, <1>8, <1>9, <1>11

-----------------------------------------------------------------------------
(* Every question.                                                          *)

\* Whatever the amounts, the plans and the periods: the instalments of a plan come to
\* the fee of the year, prorated parts of a period to the fee of the period, and the
\* shares of an invoice to what was paid and what was not, but for a unit that is
\* rounded away (PartsMakeTheWhole: instalmentAmount, prorateMinor and
\* allocateShareMinor).
THEOREM WholesArePaid == QuotesSpec => []PartsMakeTheWhole
<1> DEFINE Inv == asked \in Questions /\ PartsMakeTheWhole
<1>1. QuotesInit => Inv
  BY DEF QuotesInit, PartsMakeTheWhole, InstalmentsMakeTheYear, PartsMakeThePeriod,
         SharesFitTheInvoice, Answered
<1>2. ASSUME Inv, [QuotesNext]_quoteVars PROVE Inv'
  <2>1. ASSUME UNCHANGED quoteVars PROVE Inv'
    <3>1. asked' = asked /\ answer' = answer BY <2>1 DEF quoteVars
    <3> QED
      BY <1>2, <3>1 DEF PartsMakeTheWhole, InstalmentsMakeTheYear, PartsMakeThePeriod,
                        SharesFitTheInvoice, Answered
  <2>2. ASSUME QuotesNext PROVE Inv'
    <3>1. asked' = asked /\ asked' \in Questions BY <1>2, <2>2, AnswersOnce
    <3>2. asked.kind = "year" => Total(answer') = asked.plan.annual
      BY <1>2, <2>2, YearIsWhole
      DEF QuotesNext, AnswerQuote, AnswerRun, AnswerParts, AnswerShares
    <3>3. asked.kind = "parts" /\ asked.policy = "prorate" =>
            Total(answer') \in asked.fee - 1 .. asked.fee
      BY <1>2, <2>2, PeriodIsWhole
      DEF QuotesNext, AnswerQuote, AnswerRun, AnswerYear, AnswerShares
    <3>4. asked.kind = "shares" => AnswerShares
      BY <2>2 DEF QuotesNext, AnswerQuote, AnswerRun, AnswerYear, AnswerParts
    <3>5. InstalmentsMakeTheYear' BY <3>1, <3>2 DEF InstalmentsMakeTheYear, Answered, Total, Units, UnitsOf
    <3>6. PartsMakeThePeriod' BY <3>1, <3>3 DEF PartsMakeThePeriod, Answered
    <3>7. SharesFitTheInvoice' BY <1>2, <3>1, <3>4, SharesAreFit DEF SharesFitTheInvoice, Answered
    <3> QED BY <3>1, <3>5, <3>6, <3>7 DEF PartsMakeTheWhole
  <2> QED BY <1>2, <2>1, <2>2
<1>3. Inv => PartsMakeTheWhole OBVIOUS
<1> HIDE DEF Inv
<1> QED BY <1>1, <1>2, <1>3, PTL DEF QuotesSpec

-----------------------------------------------------------------------------
(* Places of an activity: numbers.                                          *)

\* A bounded set of natural numbers that is not empty has a largest one.
LEMMA LargestNumber ==
    ASSUME NEW S \in SUBSET Nat, S # {}, NEW m \in Nat, \A x \in S : x <= m
    PROVE  Max(S) \in S /\ \A x \in S : Max(S) >= x
<1> DEFINE T == {m - x : x \in S}
<1>1. T \in SUBSET Nat /\ T # {}
  <2>1. ASSUME NEW x \in S PROVE m - x \in Nat
    <3>1. x \in Nat /\ x <= m OBVIOUS
    <3> QED BY <3>1
  <2>2. PICK x \in S : TRUE OBVIOUS
  <2> QED BY <2>1, <2>2
<1>2. PICK t \in T : \A n \in T : t <= n
  <2> HIDE DEF T
  <2> QED BY <1>1, LeastNumber
<1>3. PICK x \in S : t = m - x BY <1>2
<1>4. ASSUME NEW y \in S PROVE x >= y
  <2>1. m - x <= m - y BY <1>2, <1>3
  <2>2. x \in Nat /\ y \in Nat OBVIOUS
  <2> QED BY <2>1, <2>2
<1> QED BY <1>4 DEF Max

-----------------------------------------------------------------------------
(* The inductive invariant of the places.                                                 *)

\* Who waits for a place, and nobody else, has a position, and no two the same.
InLine(rows) ==
    /\ \A p \in Eligible : rows.place[p] = "waitlisted" <=> rows.position[p] > 0
    /\ \A p, q \in Eligible :
          rows.place[p] = "waitlisted" /\ rows.position[p] = rows.position[q] => p = q

\* Neither who has a place nor who waits for one is without the consent that is
\* required, and nothing under way gives a place without it.
ConsentIsKept ==
    TRUE \notin ConsentEdits /\ consentRequired =>
        /\ \A p \in Eligible :
              place[p] \in {"confirmed", "waitlisted"} => response[p] = "consented"
        /\ \A p \in Eligible : \A kind \in {"signup", "staff_add"} :
              [kind |-> kind, pupil |-> p] \notin pending

\* The conjunction is inductive.
PlacesAreSound == PlacesTypeOK /\ InLine(Rows) /\ ConsentIsKept

-----------------------------------------------------------------------------
(* The operations on the rows.                                              *)

\* Rows of the participants and their charges.
RowsOf ==
    [place : [Eligible -> PlaceStatus], position : [Eligible -> Nat], charge : [Eligible -> ChargeState]]

\* No position is beyond some number, so that there is a last one.
Bounded(rows) == \E m \in Nat : \A p \in Eligible : rows.position[p] <= m

\* Rows that an operation is given and gives back.
RowsAreGood(rows) == rows \in RowsOf /\ Bounded(rows) /\ InLine(rows)

\* The rows `new` differ from `rows` in the pupil p, who loses no charge that
\* was paid.
OnlyMoves(p, rows, new) ==
    /\ RowsAreGood(new)
    /\ \A q \in Eligible \ {p} :
          /\ new.place[q] = rows.place[q]
          /\ new.position[q] = rows.position[q]
          /\ new.charge[q] = rows.charge[q]
    /\ rows.charge[p] \in {"paid", "refunded"} => new.charge[p] = rows.charge[p]

\* The next position is beyond every position.
LEMMA NextIsLast ==
    ASSUME NEW rows, RowsAreGood(rows)
    PROVE  /\ NextPosition(rows) \in Nat /\ NextPosition(rows) > 0
           /\ \A p \in Eligible : rows.position[p] < NextPosition(rows)
<1> DEFINE S == {0} \cup {rows.position[p] : p \in Eligible}
<1>1. \A p \in Eligible : rows.position[p] \in Nat BY DEF RowsAreGood, RowsOf
<1>2. PICK m \in Nat : \A p \in Eligible : rows.position[p] <= m BY DEF RowsAreGood, Bounded
<1>3. S \in SUBSET Nat /\ S # {} /\ \A x \in S : x <= m BY <1>1, <1>2
<1>4. /\ Max(S) \in S /\ \A x \in S : Max(S) >= x
      /\ \A p \in Eligible : rows.position[p] \in S
      /\ NextPosition(rows) = Max(S) + 1
  <2>1. NextPosition(rows) = Max(S) + 1 /\ \A p \in Eligible : rows.position[p] \in S
    BY DEF NextPosition
  <2> HIDE DEF S
  <2> QED BY <1>3, <2>1, LargestNumber
<1> HIDE DEF S
<1>5. Max(S) \in Nat BY <1>3, <1>4
<1>6. \A p \in Eligible : Max(S) >= rows.position[p] BY <1>4
<1> QED BY <1>1, <1>4, <1>5, <1>6

\* A pupil's place is written, at the end of the list if they wait.
LEMMA WriteMoves ==
    ASSUME NEW rows, RowsAreGood(rows), NEW p \in Eligible, NEW s \in PlaceStatus
    PROVE  /\ OnlyMoves(p, rows, WritePlace(rows, p, s))
           /\ WritePlace(rows, p, s).place = [rows.place EXCEPT ![p] = s]
           /\ WritePlace(rows, p, s).charge = rows.charge
<1> DEFINE new == WritePlace(rows, p, s)
           n   == IF s = "waitlisted" THEN NextPosition(rows) ELSE 0
<1>1. rows \in RowsOf BY DEF RowsAreGood
<1>2. /\ n \in Nat /\ (s = "waitlisted" <=> n > 0)
      /\ s = "waitlisted" => \A q \in Eligible : rows.position[q] < n
  BY NextIsLast
<1>3. /\ new.place = [rows.place EXCEPT ![p] = s]
      /\ new.position = [rows.position EXCEPT ![p] = n]
      /\ new.charge = rows.charge
      /\ new = [place |-> [rows.place EXCEPT ![p] = s],
                position |-> [rows.position EXCEPT ![p] = n], charge |-> rows.charge]
  <2>1. new = [rows EXCEPT !.place[p] = s, !.position[p] = n] BY DEF WritePlace
  <2> HIDE DEF new, n
  <2>2. new = [place |-> [rows.place EXCEPT ![p] = s],
                position |-> [rows.position EXCEPT ![p] = n], charge |-> rows.charge]
    BY <1>1, <2>1 DEF RowsOf
  <2> QED BY <2>2
<1> HIDE DEF new, n
<1>4. new \in RowsOf BY <1>1, <1>2, <1>3 DEF RowsOf
<1>5. /\ \A q \in Eligible : new.place[q] = IF q = p THEN s ELSE rows.place[q]
      /\ \A q \in Eligible : new.position[q] = IF q = p THEN n ELSE rows.position[q]
  BY <1>1, <1>3 DEF RowsOf
<1>6. Bounded(new)
  <2>1. PICK m \in Nat : \A q \in Eligible : rows.position[q] <= m BY DEF RowsAreGood, Bounded
  <2>2. \A q \in Eligible : rows.position[q] \in Nat BY <1>1 DEF RowsOf
  <2>3. m + n \in Nat /\ \A q \in Eligible : new.position[q] <= m + n
    BY <1>2, <1>5, <2>1, <2>2
  <2> QED BY <2>3 DEF Bounded
<1>7. InLine(new)
  <2>1. InLine(rows) BY DEF RowsAreGood
  <2>2. \A q \in Eligible : rows.position[q] \in Nat BY <1>1 DEF RowsOf
  <2>3. \A q \in Eligible : new.place[q] = "waitlisted" <=> new.position[q] > 0
    BY <1>2, <1>5, <2>1 DEF InLine
  <2>4. ASSUME NEW q \in Eligible, NEW r \in Eligible, new.place[q] = "waitlisted",
               new.position[q] = new.position[r]
        PROVE  q = r
    <3>1. CASE q = p /\ r # p
      <4>1. s = "waitlisted" /\ rows.position[r] = n BY <1>5, <2>4, <3>1
      <4> QED BY <1>2, <2>2, <4>1
    <3>2. CASE r = p /\ q # p
      <4>1. rows.place[q] = "waitlisted" /\ rows.position[q] = n BY <1>5, <2>4, <3>2
      <4>2. rows.position[q] > 0 BY <2>1, <4>1 DEF InLine
      <4>3. s = "waitlisted" BY <1>2, <4>1, <4>2
      <4> QED BY <1>2, <2>2, <4>1, <4>3
    <3>3. CASE q # p /\ r # p
      BY <1>5, <2>1, <2>4, <3>3 DEF InLine
    <3> QED BY <3>1, <3>2, <3>3
  <2> QED BY <2>3, <2>4 DEF InLine
<1>8. OnlyMoves(p, rows, new)
  BY <1>3, <1>4, <1>5, <1>6, <1>7 DEF OnlyMoves, RowsAreGood
<1> QED BY <1>3, <1>8 DEF new

\* A charge is brought in line with a place: nothing else changes.
LEMMA SyncMoves ==
    ASSUME NEW rows, RowsAreGood(rows), NEW p \in Eligible, NEW s, NEW decision
    PROVE  LET new == SyncCharge(rows, p, s, decision)
               c   == rows.charge[p]
           IN  /\ OnlyMoves(p, rows, new)
               /\ new.place = rows.place /\ new.position = rows.position
               /\ new.charge[p] =
                    IF c \in {"open", "paid", "refunded"}
                    THEN IF Cancels(s, c) THEN "cancelled" ELSE c
                    ELSE IF c = "none" /\ Generates(s, decision) THEN "open" ELSE c
<1> DEFINE c   == rows.charge[p]
           d   == IF c \in {"open", "paid", "refunded"}
                  THEN IF Cancels(s, c) THEN "cancelled" ELSE c
                  ELSE IF c = "none" /\ Generates(s, decision) THEN "open" ELSE c
           new == SyncCharge(rows, p, s, decision)
<1>1. rows \in RowsOf /\ c \in ChargeState BY DEF RowsAreGood, RowsOf
<1>2. d \in ChargeState /\ (c \in {"paid", "refunded"} => d = c)
  BY <1>1 DEF ChargeState, Cancels
<1>3. new = [place |-> rows.place, position |-> rows.position,
             charge |-> [rows.charge EXCEPT ![p] = d]]
  <2>1. new = [rows EXCEPT !.charge[p] = d] BY DEF SyncCharge
  <2> HIDE DEF new, d
  <2> QED BY <1>1, <2>1 DEF RowsOf
<1> HIDE DEF new, d
<1>4. new \in RowsOf BY <1>1, <1>2, <1>3 DEF RowsOf
<1>5. RowsAreGood(new) BY <1>3, <1>4 DEF RowsAreGood, Bounded, InLine
<1>6. \A q \in Eligible : new.charge[q] = IF q = p THEN d ELSE rows.charge[q]
  BY <1>1, <1>3 DEF RowsOf
<1>7. OnlyMoves(p, rows, new) BY <1>2, <1>3, <1>5, <1>6 DEF OnlyMoves
<1>8. /\ OnlyMoves(p, rows, new)
      /\ new.place = rows.place /\ new.position = rows.position
      /\ new.charge[p] = d
  BY <1>3, <1>6, <1>7
<1> QED BY <1>8 DEF new, d

\* What a place does to a charge that is due on confirmation.
ChargeFits(s, before, after) ==
    policy = "on_confirmed" =>
        /\ s = "confirmed" => after \in {"open", "paid", "refunded"} \/ before = "cancelled"
        /\ s \in {"declined", "withdrawn"} => after # "open"

\* A place is written and its charge brought in line.
LEMMA UpsertMoves ==
    ASSUME policy \in AllPolicies,
           NEW rows, RowsAreGood(rows), NEW p \in Eligible, NEW s \in PlaceStatus, NEW decision
    PROVE  /\ OnlyMoves(p, rows, Upsert(rows, p, s, decision))
           /\ Upsert(rows, p, s, decision).place[p] = s
           /\ ChargeFits(s, rows.charge[p], Upsert(rows, p, s, decision).charge[p])
<1> DEFINE mid == WritePlace(rows, p, s)
           new == SyncCharge(mid, p, s, decision)
           c   == mid.charge[p]
<1>1. /\ OnlyMoves(p, rows, mid)
      /\ mid.place = [rows.place EXCEPT ![p] = s] /\ mid.charge = rows.charge
  BY WriteMoves
<1>2. RowsAreGood(mid) BY <1>1 DEF OnlyMoves
<1> HIDE DEF mid
<1>3. /\ OnlyMoves(p, mid, new)
      /\ new.place = mid.place /\ new.position = mid.position
      /\ new.charge[p] =
            IF c \in {"open", "paid", "refunded"}
            THEN IF Cancels(s, c) THEN "cancelled" ELSE c
            ELSE IF c = "none" /\ Generates(s, decision) THEN "open" ELSE c
  BY <1>2, SyncMoves
<1> HIDE DEF new
<1>4. c = rows.charge[p] /\ c \in ChargeState BY <1>1, <1>2 DEF RowsAreGood, RowsOf
<1>5. OnlyMoves(p, rows, new) BY <1>1, <1>3 DEF OnlyMoves
<1>6. new.place[p] = s BY <1>1, <1>3 DEF RowsAreGood, RowsOf
<1>7. ChargeFits(s, rows.charge[p], new.charge[p])
  <2>1. policy = "on_confirmed" => (Generates(s, decision) <=> s = "confirmed")
    BY DEF Generates
  <2> HIDE DEF c
  <2> QED BY <1>3, <1>4, <2>1 DEF ChargeFits, Cancels, ChargeState
<1> QED BY <1>5, <1>6, <1>7 DEF Upsert, new, mid

-----------------------------------------------------------------------------
(* Promotion.                                                               *)

\* Whoever has waited longest is somebody, if anybody waits.
LEMMA SomebodyIsFirst ==
    ASSUME NEW rows, RowsAreGood(rows), In(rows, "waitlisted") # {}
    PROVE  FirstWaiting(rows) # {}
<1> DEFINE W == In(rows, "waitlisted")
           T == {rows.position[p] : p \in W}
<1>1. W \in SUBSET Eligible BY DEF In
<1>2. \A p \in Eligible : rows.position[p] \in Nat BY DEF RowsAreGood, RowsOf
<1>3. T \in SUBSET Nat /\ T # {} BY <1>1, <1>2
<1>4. PICK m \in T : \A n \in T : m <= n
  <2> HIDE DEF T
  <2> QED BY <1>3, LeastNumber
<1>5. PICK p \in W : rows.position[p] = m OBVIOUS
<1>6. \A q \in W : rows.position[p] <= rows.position[q] BY <1>4, <1>5
<1> QED BY <1>5, <1>6 DEF FirstWaiting

\* One pupil is promoted, the first who waits, or nobody is.
LEMMA PromotionMoves ==
    ASSUME policy \in AllPolicies, NEW rows, RowsAreGood(rows)
    PROVE  \/ /\ PromoteNext(rows) = rows
              /\ ~(/\ status \in Running /\ Allocate(rows) = "confirmed"
                   /\ In(rows, "waitlisted") # {})
           \/ /\ Allocate(rows) = "confirmed"
              /\ \E p \in FirstWaiting(rows) :
                    /\ p \in Eligible /\ rows.place[p] = "waitlisted"
                    /\ OnlyMoves(p, rows, PromoteNext(rows))
                    /\ PromoteNext(rows).place[p] = "confirmed"
                    /\ ChargeFits("confirmed", rows.charge[p], PromoteNext(rows).charge[p])
<1>1. CASE status \in Running /\ Allocate(rows) = "confirmed" /\ FirstWaiting(rows) # {}
  <2> DEFINE p == CHOOSE q \in FirstWaiting(rows) : TRUE
  <2>1. p \in FirstWaiting(rows) BY <1>1
  <2>2. p \in Eligible /\ rows.place[p] = "waitlisted" BY <2>1 DEF FirstWaiting, In
  <2>3. PromoteNext(rows) = Upsert(rows, p, "confirmed", "none") BY <1>1 DEF PromoteNext
  <2> HIDE DEF p
  <2>4. "confirmed" \in PlaceStatus BY DEF PlaceStatus
  <2>5. /\ OnlyMoves(p, rows, Upsert(rows, p, "confirmed", "none"))
        /\ Upsert(rows, p, "confirmed", "none").place[p] = "confirmed"
        /\ ChargeFits("confirmed", rows.charge[p],
                      Upsert(rows, p, "confirmed", "none").charge[p])
    BY <2>2, <2>4, UpsertMoves
  <2> QED BY <1>1, <2>1, <2>2, <2>3, <2>5
<1>2. CASE ~(status \in Running /\ Allocate(rows) = "confirmed" /\ FirstWaiting(rows) # {})
  BY <1>2, SomebodyIsFirst DEF PromoteNext
<1> QED BY <1>1, <1>2

-----------------------------------------------------------------------------
(* What a change of places keeps.                                           *)

\* Who has a place.
Confirmed(rows) == In(rows, "confirmed")

\* Nobody gets a place that is not free.
PlaceIsFree(new) ==
    \/ Confirmed(new) \subseteq Confirmed(Rows)
    \/ capacity = Unlimited
    \/ Cardinality(Confirmed(new)) <= capacity

\* A place that is given up goes to the first in line.
PassedOn(new) ==
    \A p \in Eligible :
        (/\ place[p] = "confirmed"
         /\ new.place[p] \in {"withdrawn", "declined"}
         /\ status \in Running
         /\ capacity = Unlimited \/ Cardinality(Confirmed(Rows)) <= capacity
         /\ In(Rows, "waitlisted") # {})
           => \E q \in FirstWaiting(Rows) : new.place[q] = "confirmed"

\* A charge that was paid is left.
PaidStands(new) ==
    \A p \in Eligible : charge[p] \in {"paid", "refunded"} => new.charge[p] = charge[p]

\* `exempt` are the pupils who withdraw themselves.
ChargesGo(new, exempt) ==
    \A p \in Eligible : new.place[p] # place[p] /\ policy = "on_confirmed" =>
        /\ new.place[p] = "confirmed" =>
              new.charge[p] \in {"open", "paid", "refunded"} \/ charge[p] = "cancelled"
        /\ new.place[p] \in {"declined", "withdrawn"} /\ new.charge[p] = "open" => p \in exempt

\* What every change of the rows under the lock does.
FairChange(new, exempt) ==
    /\ RowsAreGood(new)
    /\ PlaceIsFree(new) /\ PassedOn(new) /\ PaidStands(new) /\ ChargesGo(new, exempt)

\* The places that are taken are finitely many.
LEMMA ConfirmedAreCounted ==
    ASSUME PlacesTypeOK, NEW rows
    PROVE  /\ IsFiniteSet(Confirmed(rows)) /\ Cardinality(Confirmed(rows)) \in Nat
           /\ capacity \in Nat \cup {Unlimited}
           /\ policy \in AllPolicies
<1>1. IsFiniteSet(Eligible) /\ Confirmed(rows) \subseteq Eligible
  BY PlacesAssumption DEF PlacesAssumption, Confirmed, In
<1>2. IsFiniteSet(Confirmed(rows)) BY <1>1, FS_Subset
<1> QED BY <1>2, FS_CardinalityType, PlacesAssumption DEF PlacesAssumption, PlacesTypeOK

\* One more element is at most one more.
LEMMA OneMore ==
    ASSUME NEW S, NEW x, IsFiniteSet(S)
    PROVE  IsFiniteSet(S \cup {x}) /\ Cardinality(S \cup {x}) <= Cardinality(S) + 1
<1>1. /\ IsFiniteSet(S \cup {x})
      /\ Cardinality(S \cup {x}) = (IF x \in S THEN Cardinality(S) ELSE Cardinality(S) + 1)
  BY FS_AddElement
<1>2. Cardinality(S) \in Nat BY FS_CardinalityType
<1> QED BY <1>1, <1>2

\* Whoever is confirmed while there is room leaves no more than the capacity.
LEMMA RoomForOne ==
    ASSUME PlacesTypeOK, NEW rows, NEW new, NEW p \in Eligible,
           OnlyMoves(p, rows, new), Allocate(rows) = "confirmed"
    PROVE  capacity = Unlimited \/ Cardinality(Confirmed(new)) <= capacity
<1>1. CASE capacity = Unlimited BY <1>1
<1>2. CASE capacity # Unlimited
  <2>1. capacity \in Nat /\ Cardinality(Confirmed(rows)) < capacity
    BY <1>2, ConfirmedAreCounted DEF Allocate, Confirmed
  <2>2. Confirmed(new) \subseteq Confirmed(rows) \cup {p} BY DEF OnlyMoves, Confirmed, In
  <2>3. IsFiniteSet(Confirmed(rows)) /\ Cardinality(Confirmed(rows)) \in Nat
    BY ConfirmedAreCounted
  <2>4. /\ IsFiniteSet(Confirmed(rows) \cup {p})
        /\ Cardinality(Confirmed(rows) \cup {p}) <= Cardinality(Confirmed(rows)) + 1
    BY <2>3, OneMore
  <2>5. /\ Cardinality(Confirmed(new)) <= Cardinality(Confirmed(rows) \cup {p})
        /\ Cardinality(Confirmed(new)) \in Nat
        /\ Cardinality(Confirmed(rows) \cup {p}) \in Nat
    BY <2>2, <2>4, FS_Subset, FS_CardinalityType, ConfirmedAreCounted
  <2> QED BY <2>1, <2>3, <2>4, <2>5
<1> QED BY <1>1, <1>2

\* A pupil comes, to a place if there is one.
LEMMA ComingIsFair ==
    ASSUME PlacesTypeOK, NEW new, NEW p \in Eligible, OnlyMoves(p, Rows, new),
           new.place[p] \in {"confirmed", "waitlisted", "expected"},
           new.place[p] = "confirmed" => Allocate(Rows) = "confirmed",
           ChargeFits(new.place[p], charge[p], new.charge[p])
    PROVE  FairChange(new, {})
<1>1. Rows.place = place /\ Rows.charge = charge BY DEF Rows
<1>2. PlaceIsFree(new)
  <2>1. CASE new.place[p] = "confirmed" BY <2>1, RoomForOne DEF PlaceIsFree
  <2>2. CASE new.place[p] # "confirmed"
    BY <2>2 DEF PlaceIsFree, OnlyMoves, Confirmed, In
  <2> QED BY <2>1, <2>2
<1>3. PassedOn(new) BY <1>1 DEF PassedOn, OnlyMoves
<1>4. PaidStands(new) BY <1>1 DEF PaidStands, OnlyMoves
<1>5. ChargesGo(new, {}) BY <1>1 DEF ChargesGo, OnlyMoves, ChargeFits
<1> QED BY <1>2, <1>3, <1>4, <1>5 DEF FairChange, OnlyMoves

\* A pupil leaves, if they were there, and the place is passed on.
LEMMA LeavingIsFair ==
    ASSUME PlacesTypeOK, RowsAreGood(Rows), NEW mid, NEW p \in Eligible, OnlyMoves(p, Rows, mid),
           mid.place[p] \in {"none", "declined", "withdrawn"},
           NEW exempt,
           mid.place[p] # place[p] =>
              p \in exempt \/ ChargeFits(mid.place[p], charge[p], mid.charge[p])
    PROVE  /\ FairChange(PromoteNext(mid), exempt)
           /\ PromoteNext(mid).place[p] = mid.place[p]
           /\ \A q \in Eligible \ {p} :
                 PromoteNext(mid).place[q] \in {"confirmed", "waitlisted"} =>
                    place[q] \in {"confirmed", "waitlisted"}
<1> DEFINE new == PromoteNext(mid)
<1>1. Rows.place = place /\ Rows.charge = charge /\ Rows.position = position BY DEF Rows
<1>2. RowsAreGood(mid) BY DEF OnlyMoves
<1>3. Confirmed(mid) \subseteq Confirmed(Rows) BY DEF OnlyMoves, Confirmed, In
<1>4. policy \in AllPolicies BY ConfirmedAreCounted
<1>5. PaidStands(mid) BY <1>1 DEF PaidStands, OnlyMoves
<1>6. ChargesGo(mid, exempt) BY <1>1 DEF ChargesGo, OnlyMoves, ChargeFits
<1>7. \/ /\ new = mid
         /\ ~(/\ status \in Running /\ Allocate(mid) = "confirmed"
              /\ In(mid, "waitlisted") # {})
      \/ /\ Allocate(mid) = "confirmed"
         /\ \E q \in FirstWaiting(mid) :
               /\ q \in Eligible /\ mid.place[q] = "waitlisted"
               /\ OnlyMoves(q, mid, new)
               /\ new.place[q] = "confirmed"
               /\ ChargeFits("confirmed", mid.charge[q], new.charge[q])
  BY <1>2, <1>4, PromotionMoves
<1> HIDE DEF new
<1>8. ASSUME NEW x \in Eligible,
             place[x] = "confirmed",
             mid.place[x] \in {"withdrawn", "declined"},
             capacity = Unlimited \/ Cardinality(Confirmed(Rows)) <= capacity
      PROVE  /\ x = p /\ Allocate(mid) = "confirmed"
             /\ In(mid, "waitlisted") = In(Rows, "waitlisted")
             /\ FirstWaiting(mid) = FirstWaiting(Rows)
  <2>1. x = p BY <1>1, <1>8 DEF OnlyMoves
  <2>2. In(mid, "waitlisted") = In(Rows, "waitlisted")
    BY <1>1, <1>8, <2>1 DEF OnlyMoves, In
  <2>3. \A q \in In(Rows, "waitlisted") : mid.position[q] = Rows.position[q]
    BY <1>1, <1>8, <2>1 DEF OnlyMoves, In
  <2>4. FirstWaiting(mid) = FirstWaiting(Rows) BY <2>2, <2>3 DEF FirstWaiting
  <2>5. Allocate(mid) = "confirmed"
    <3>1. CASE capacity = Unlimited BY <3>1 DEF Allocate
    <3>2. CASE capacity # Unlimited
      <4>1. capacity \in Nat /\ Cardinality(Confirmed(Rows)) <= capacity
        BY <1>8, <3>2, ConfirmedAreCounted
      <4>2. Confirmed(mid) \subseteq Confirmed(Rows) \ {p}
        BY <1>3, <1>8, <2>1 DEF Confirmed, In
      <4>3. p \in Confirmed(Rows) BY <1>1, <1>8, <2>1 DEF Confirmed, In
      <4>4. IsFiniteSet(Confirmed(Rows)) /\ Cardinality(Confirmed(Rows)) \in Nat
        BY ConfirmedAreCounted
      <4>5. /\ IsFiniteSet(Confirmed(Rows) \ {p})
            /\ Cardinality(Confirmed(Rows) \ {p}) = Cardinality(Confirmed(Rows)) - 1
        BY <4>3, <4>4, FS_RemoveElement
      <4>6. /\ Cardinality(Confirmed(mid)) <= Cardinality(Confirmed(Rows) \ {p})
            /\ Cardinality(Confirmed(mid)) \in Nat
        BY <4>2, <4>5, FS_Subset, ConfirmedAreCounted
      <4>7. Cardinality(Confirmed(mid)) < capacity BY <4>1, <4>4, <4>5, <4>6
      <4> QED BY <4>7 DEF Allocate, Confirmed
    <3> QED BY <3>1, <3>2
  <2> QED BY <2>1, <2>2, <2>4, <2>5
<1>9. CASE /\ new = mid
           /\ ~(/\ status \in Running /\ Allocate(mid) = "confirmed"
                /\ In(mid, "waitlisted") # {})
  <2>1. PassedOn(mid) BY <1>8, <1>9 DEF PassedOn
  <2>2. PlaceIsFree(mid) BY <1>3 DEF PlaceIsFree
  <2>3. FairChange(mid, exempt) BY <1>2, <1>5, <1>6, <2>1, <2>2 DEF FairChange
  <2>4. \A q \in Eligible \ {p} : mid.place[q] = place[q] BY <1>1 DEF OnlyMoves
  <2> QED BY <1>9, <2>3, <2>4 DEF new
<1>10. ASSUME Allocate(mid) = "confirmed",
              NEW q \in FirstWaiting(mid), q \in Eligible, mid.place[q] = "waitlisted",
              OnlyMoves(q, mid, new), new.place[q] = "confirmed",
              ChargeFits("confirmed", mid.charge[q], new.charge[q])
       PROVE  /\ FairChange(new, exempt)
              /\ new.place[p] = mid.place[p]
              /\ \A x \in Eligible \ {p} : new.place[x] \in {"confirmed", "waitlisted"} =>
                    place[x] \in {"confirmed", "waitlisted"}
  <2>1. q # p /\ place[q] = "waitlisted" /\ mid.charge[q] = charge[q]
    BY <1>1, <1>10 DEF OnlyMoves
  <2>2. PlaceIsFree(new) BY <1>10, RoomForOne DEF PlaceIsFree
  <2>3. \A x \in Eligible \ {q} : new.place[x] = mid.place[x] /\ new.charge[x] = mid.charge[x]
    BY <1>10 DEF OnlyMoves
  <2>4. PassedOn(new)
    <3> SUFFICES ASSUME NEW x \in Eligible, place[x] = "confirmed",
                        new.place[x] \in {"withdrawn", "declined"},
                        capacity = Unlimited \/ Cardinality(Confirmed(Rows)) <= capacity
                 PROVE  \E y \in FirstWaiting(Rows) : new.place[y] = "confirmed"
      BY DEF PassedOn
    <3>1. mid.place[x] \in {"withdrawn", "declined"} BY <1>10, <2>3
    <3>2. FirstWaiting(mid) = FirstWaiting(Rows) BY <1>8, <3>1
    <3> QED BY <1>10, <3>2
  <2>5. PaidStands(new)
    <3>1. mid.charge[q] \in {"paid", "refunded"} => new.charge[q] = mid.charge[q]
      BY <1>10 DEF OnlyMoves
    <3> QED BY <1>5, <2>1, <2>3, <3>1 DEF PaidStands
  <2>6. ChargesGo(new, exempt)
    BY <1>6, <1>10, <2>1, <2>3 DEF ChargesGo, ChargeFits
  <2>7. RowsAreGood(new) BY <1>10 DEF OnlyMoves
  <2>8. \A x \in Eligible \ {p} : mid.place[x] = place[x] BY <1>1 DEF OnlyMoves
  <2>9. \A x \in Eligible \ {p} : new.place[x] \in {"confirmed", "waitlisted"} =>
                    place[x] \in {"confirmed", "waitlisted"}
    BY <2>1, <2>3, <2>8
  <2> QED BY <2>1, <2>2, <2>3, <2>4, <2>5, <2>6, <2>7, <2>9 DEF FairChange
<1> QED BY <1>7, <1>9, <1>10 DEF new

-----------------------------------------------------------------------------
(* Steps.                                                                   *)

\* The bodies of the properties of steps: nobody gets a place that is not free,
NotOverbooked ==
    \/ In([place |-> place'], "confirmed") \subseteq In(Rows, "confirmed")
    \/ capacity' = Unlimited
    \/ Cardinality(In([place |-> place'], "confirmed")) <= capacity'

\* a place that is given up goes to the first in line,
GoesToTheFirst ==
    \A p \in Eligible :
          (/\ place[p] = "confirmed"
           /\ place'[p] \in {"withdrawn", "declined"}
           /\ status \in Running
           /\ capacity = Unlimited \/ Cardinality(In(Rows, "confirmed")) <= capacity
           /\ In(Rows, "waitlisted") # {})
             => \E q \in FirstWaiting(Rows) : place'[q] = "confirmed"

\* a charge that was paid is left,
PaidIsLeft ==
    \A p \in Eligible : charge[p] \in {"paid", "refunded"} /\ place' # place
          => charge'[p] = charge[p]

\* and one that is due on confirmation comes and goes with the place.
ChargeGoesAlong ==
    \A p \in Eligible : place'[p] # place[p] /\ policy = "on_confirmed" =>
          /\ place'[p] = "confirmed" =>
                charge'[p] \in {"open", "paid", "refunded"} \/ charge[p] = "cancelled"
          /\ place'[p] \in {"declined", "withdrawn"} /\ charge'[p] = "open" =>
                [kind |-> "student_withdraw", pupil |-> p] \in pending \ pending'

\* All four.
FairStep == NotOverbooked /\ GoesToTheFirst /\ PaidIsLeft /\ ChargeGoesAlong

\* A step that moves nobody is fair.
LEMMA StillIsFair ==
    ASSUME place' = place
    PROVE  FairStep
BY DEF FairStep, NotOverbooked, GoesToTheFirst, PaidIsLeft, ChargeGoesAlong, In, Rows

\* The rows of the activity are good rows.
LEMMA RowsAreRows == PlacesAreSound => RowsAreGood(Rows)
<1> SUFFICES ASSUME PlacesAreSound PROVE RowsAreGood(Rows) OBVIOUS
<1>1. /\ place \in [Eligible -> PlaceStatus] /\ position \in [Eligible -> 0 .. MaxPosition]
      /\ charge \in [Eligible -> ChargeState] /\ MaxPosition \in Nat
  BY PlacesAssumption DEF PlacesAreSound, PlacesTypeOK, PlacesAssumption
<1>2. Rows \in RowsOf BY <1>1 DEF Rows, RowsOf
<1>3. Bounded(Rows) BY <1>1 DEF Bounded, Rows
<1> QED BY <1>2, <1>3 DEF RowsAreGood, PlacesAreSound

\* A request changes the places as it should, and answers for consent.
LEMMA ChangeIsSound ==
    ASSUME PlacesAreSound, NEW kind, NEW p \in Eligible, NEW rows, NEW exempt,
           Change(kind, p, rows), FairChange(rows, exempt),
           \A q \in exempt : q = p /\ kind = "student_withdraw",
           response' \in [Eligible -> Decisions \cup {"none"}],
           TRUE \notin ConsentEdits /\ consentRequired =>
              \A q \in Eligible :
                 rows.place[q] \in {"confirmed", "waitlisted"} => response'[q] = "consented"
    PROVE  PlacesAreSound' /\ FairStep
<1>1. /\ [kind |-> kind, pupil |-> p] \in pending
      /\ pending' = pending \ {[kind |-> kind, pupil |-> p]}
      /\ place' = rows.place /\ position' = rows.position /\ charge' = rows.charge
      /\ \A q \in Eligible : rows.position[q] <= MaxPosition
      /\ UNCHANGED <<status, capacity, consentRequired, policy>>
  BY DEF Change, activityVars
<1>2. Rows.place = place /\ Rows.charge = charge BY DEF Rows
<1>3. /\ place' \in [Eligible -> PlaceStatus] /\ position' \in [Eligible -> 0 .. MaxPosition]
      /\ charge' \in [Eligible -> ChargeState]
  <2>1. /\ rows.place \in [Eligible -> PlaceStatus] /\ rows.charge \in [Eligible -> ChargeState]
        /\ rows.position \in [Eligible -> Nat]
    BY DEF FairChange, RowsAreGood, RowsOf
  <2>2. \A q \in Eligible : rows.position[q] \in 0 .. MaxPosition
    BY <1>1, <2>1, PlacesAssumption DEF PlacesAssumption
  <2> QED BY <1>1, <2>1, <2>2
<1>4. PlacesTypeOK' BY <1>1, <1>3 DEF PlacesAreSound, PlacesTypeOK
<1>5. InLine(Rows)' BY <1>1 DEF FairChange, RowsAreGood, InLine, Rows
<1>6. ConsentIsKept' BY <1>1 DEF PlacesAreSound, ConsentIsKept
<1>7. NotOverbooked
  <2>1. In([place |-> place'], "confirmed") = Confirmed(rows) BY <1>1 DEF In, Confirmed
  <2> QED BY <1>1, <2>1 DEF NotOverbooked, FairChange, PlaceIsFree, Confirmed
<1>8. GoesToTheFirst BY <1>1 DEF GoesToTheFirst, FairChange, PassedOn, Confirmed
<1>9. PaidIsLeft BY <1>1 DEF PaidIsLeft, FairChange, PaidStands
<1>10. ChargeGoesAlong
  <2> SUFFICES ASSUME NEW q \in Eligible, place'[q] # place[q], policy = "on_confirmed"
               PROVE  /\ place'[q] = "confirmed" =>
                            charge'[q] \in {"open", "paid", "refunded"} \/ charge[q] = "cancelled"
                      /\ place'[q] \in {"declined", "withdrawn"} /\ charge'[q] = "open" =>
                            [kind |-> "student_withdraw", pupil |-> q] \in pending \ pending'
    BY DEF ChargeGoesAlong
  <2>1. /\ place'[q] = "confirmed" =>
              charge'[q] \in {"open", "paid", "refunded"} \/ charge[q] = "cancelled"
        /\ place'[q] \in {"declined", "withdrawn"} /\ charge'[q] = "open" => q \in exempt
    BY <1>1 DEF FairChange, ChargesGo
  <2>2. q \in exempt => [kind |-> "student_withdraw", pupil |-> q] \in pending \ pending'
    BY <1>1
  <2> QED BY <2>1, <2>2
<1> QED BY <1>4, <1>5, <1>6, <1>7, <1>8, <1>9, <1>10 DEF PlacesAreSound, FairStep

\* Somebody comes: by consent, by sign-up or by staff.
LEMMA UpsertIsSound ==
    ASSUME PlacesAreSound, NEW kind, NEW p \in Eligible,
           NEW s \in {"confirmed", "waitlisted", "expected"}, NEW decision,
           s = "confirmed" => Allocate(Rows) = "confirmed",
           Change(kind, p, Upsert(Rows, p, s, decision)),
           response' \in [Eligible -> Decisions \cup {"none"}],
           TRUE \notin ConsentEdits /\ consentRequired =>
              \A q \in Eligible :
                 (IF q = p THEN s ELSE place[q]) \in {"confirmed", "waitlisted"} =>
                    response'[q] = "consented"
    PROVE  PlacesAreSound' /\ FairStep
<1> DEFINE new    == Upsert(Rows, p, s, decision)
           nobody == {}
<1>1. PlacesTypeOK /\ RowsAreGood(Rows) /\ policy \in AllPolicies /\ s \in PlaceStatus
  BY RowsAreRows, ConfirmedAreCounted DEF PlacesAreSound, PlaceStatus
<1>2. /\ OnlyMoves(p, Rows, new) /\ new.place[p] = s
      /\ ChargeFits(s, charge[p], new.charge[p])
  <2>1. Rows.charge = charge BY DEF Rows
  <2> QED BY <1>1, <2>1, UpsertMoves
<1> HIDE DEF new
<1>3. FairChange(new, nobody) BY <1>1, <1>2, ComingIsFair
<1>4. \A q \in Eligible : new.place[q] = IF q = p THEN s ELSE place[q]
  BY <1>2 DEF OnlyMoves, Rows
<1>5. Change(kind, p, new) BY DEF new
<1>6. \A q \in nobody : q = p /\ kind = "student_withdraw" OBVIOUS
<1>7. TRUE \notin ConsentEdits /\ consentRequired =>
        \A q \in Eligible :
           new.place[q] \in {"confirmed", "waitlisted"} => response'[q] = "consented"
  BY <1>4
<1> HIDE DEF nobody
<1> QED BY <1>3, <1>5, <1>6, <1>7, ChangeIsSound

\* Somebody leaves: by the guardian's decision, by themselves or by staff.
LEMMA LeaveIsSound ==
    ASSUME PlacesAreSound, NEW kind, NEW p \in Eligible, NEW mid, OnlyMoves(p, Rows, mid),
           mid.place[p] \in {"none", "declined", "withdrawn"},
           NEW exempt, \A q \in exempt : q = p /\ kind = "student_withdraw",
           mid.place[p] # place[p] =>
              p \in exempt \/ ChargeFits(mid.place[p], charge[p], mid.charge[p]),
           Change(kind, p, PromoteNext(mid)),
           response' \in [Eligible -> Decisions \cup {"none"}],
           \A q \in Eligible \ {p} : response'[q] = response[q]
    PROVE  PlacesAreSound' /\ FairStep
<1> DEFINE new == PromoteNext(mid)
<1>1. PlacesTypeOK /\ RowsAreGood(Rows)
  BY RowsAreRows DEF PlacesAreSound
<1>2. /\ FairChange(new, exempt) /\ new.place[p] = mid.place[p]
      /\ \A q \in Eligible \ {p} :
            new.place[q] \in {"confirmed", "waitlisted"} =>
               place[q] \in {"confirmed", "waitlisted"}
  BY <1>1, LeavingIsFair
<1>3. Change(kind, p, new) OBVIOUS
<1> HIDE DEF new
<1>4. TRUE \notin ConsentEdits /\ consentRequired =>
              \A q \in Eligible :
                 new.place[q] \in {"confirmed", "waitlisted"} => response'[q] = "consented"
  BY <1>2 DEF PlacesAreSound, ConsentIsKept
<1> QED BY <1>2, <1>3, <1>4, ChangeIsSound

\* A guardian consents, declines or withdraws.
LEMMA DecisionIsSound ==
    ASSUME PlacesAreSound, NEW p \in Eligible, NEW decision \in Decisions, Decide(p, decision)
    PROVE  PlacesAreSound' /\ FairStep
<1>1. /\ response \in [Eligible -> Decisions \cup {"none"}]
      /\ response' = [response EXCEPT ![p] = decision]
  BY DEF Decide, PlacesAreSound, PlacesTypeOK
<1>2. response' \in [Eligible -> Decisions \cup {"none"}] BY <1>1
<1>3. \A q \in Eligible : response'[q] = IF q = p THEN decision ELSE response[q] BY <1>1
<1>4. CASE decision = "consented"
  <2>1. Change(decision, p, Upsert(Rows, p, Allocate(Rows), decision)) BY <1>4 DEF Decide
  <2>2. Allocate(Rows) \in {"confirmed", "waitlisted", "expected"} BY DEF Allocate
  <2>3. TRUE \notin ConsentEdits /\ consentRequired =>
              \A q \in Eligible :
                 (IF q = p THEN Allocate(Rows) ELSE place[q]) \in {"confirmed", "waitlisted"} =>
                    response'[q] = "consented"
    BY <1>3, <1>4 DEF PlacesAreSound, ConsentIsKept
  <2> QED BY <1>2, <2>1, <2>2, <2>3, UpsertIsSound
<1>5. CASE decision # "consented"
  <2> DEFINE mid    == Upsert(Rows, p, decision, decision)
             nobody == {}
  <2>1. Change(decision, p, PromoteNext(mid)) BY <1>5 DEF Decide
  <2>2. decision \in {"declined", "withdrawn"} /\ decision \in PlaceStatus
    BY <1>5 DEF Decisions, PlaceStatus
  <2>3. /\ OnlyMoves(p, Rows, mid) /\ mid.place[p] = decision
        /\ ChargeFits(decision, charge[p], mid.charge[p])
    <3>1. Rows.charge = charge BY DEF Rows
    <3>2. RowsAreGood(Rows) /\ policy \in AllPolicies
      BY RowsAreRows, ConfirmedAreCounted DEF PlacesAreSound
    <3> QED BY <2>2, <3>1, <3>2, UpsertMoves
  <2> HIDE DEF mid
  <2>4. /\ mid.place[p] \in {"none", "declined", "withdrawn"}
        /\ mid.place[p] # place[p] =>
              p \in nobody \/ ChargeFits(mid.place[p], charge[p], mid.charge[p])
        /\ \A q \in Eligible \ {p} : response'[q] = response[q]
    BY <1>3, <2>2, <2>3
  <2>5. \A q \in nobody : q = p /\ decision = "student_withdraw" OBVIOUS
  <2> HIDE DEF nobody
  <2> QED BY <1>2, <2>1, <2>3, <2>4, <2>5, LeaveIsSound
<1> QED BY <1>4, <1>5

\* A pupil signs up, or staff add one.
LEMMA SignUpIsSound ==
    ASSUME PlacesAreSound, NEW p \in Eligible, SignUp(p) \/ StaffAdd(p) \/ StaffPromote(p)
    PROVE  PlacesAreSound' /\ FairStep
<1>1. /\ response' = response
      /\ response' \in [Eligible -> Decisions \cup {"none"}]
  BY DEF SignUp, StaffAdd, StaffPromote, PlacesAreSound, PlacesTypeOK
<1>2. Allocate(Rows) \in {"confirmed", "waitlisted", "expected"} BY DEF Allocate
<1>3. ASSUME NEW kind \in {"signup", "staff_add"},
             Change(kind, p, Upsert(Rows, p, Allocate(Rows), "none"))
      PROVE  PlacesAreSound' /\ FairStep
  <2>1. [kind |-> kind, pupil |-> p] \in pending BY <1>3 DEF Change
  <2>2. ~(TRUE \notin ConsentEdits /\ consentRequired)
    BY <2>1 DEF PlacesAreSound, ConsentIsKept
  <2> QED BY <1>1, <1>2, <1>3, <2>2, UpsertIsSound
<1>4. ASSUME Change("staff_expect", p, Upsert(Rows, p, "expected", "none"))
      PROVE  PlacesAreSound' /\ FairStep
  <2>1. TRUE \notin ConsentEdits /\ consentRequired =>
              \A q \in Eligible :
                 (IF q = p THEN "expected" ELSE place[q]) \in {"confirmed", "waitlisted"} =>
                    response'[q] = "consented"
    BY <1>1 DEF PlacesAreSound, ConsentIsKept
  <2> QED BY <1>1, <1>4, <2>1, UpsertIsSound
<1>5. ASSUME StaffPromote(p) PROVE PlacesAreSound' /\ FairStep
  <2>1. /\ Allocate(Rows) = "confirmed" /\ place[p] = "waitlisted"
        /\ Change("staff_promote", p, Upsert(Rows, p, "confirmed", "none"))
    BY <1>5 DEF StaffPromote
  <2>2. TRUE \notin ConsentEdits /\ consentRequired =>
              \A q \in Eligible :
                 (IF q = p THEN "confirmed" ELSE place[q]) \in {"confirmed", "waitlisted"} =>
                    response'[q] = "consented"
    BY <1>1, <2>1 DEF PlacesAreSound, ConsentIsKept
  <2> QED BY <1>1, <2>1, <2>2, UpsertIsSound
<1> QED BY <1>3, <1>4, <1>5 DEF SignUp, StaffAdd

\* A pupil leaves, by themselves or by staff.
LEMMA WithdrawalIsSound ==
    ASSUME PlacesAreSound, NEW p \in Eligible, StudentWithdraw(p) \/ StaffWithdraw(p)
    PROVE  PlacesAreSound' /\ FairStep
<1> DEFINE out == IF place[p] = "none" THEN Rows ELSE WritePlace(Rows, p, "withdrawn")
           relieved == SyncCharge(out, p, "withdrawn", "none")
<1>1. /\ response' = response
      /\ response' \in [Eligible -> Decisions \cup {"none"}]
  BY DEF StudentWithdraw, StaffWithdraw, PlacesAreSound, PlacesTypeOK
<1>2. RowsAreGood(Rows) /\ policy \in AllPolicies
  BY RowsAreRows, ConfirmedAreCounted DEF PlacesAreSound
<1>3. /\ OnlyMoves(p, Rows, out) /\ out.charge = charge
      /\ out.place[p] \in {"none", "withdrawn"}
      /\ out.place[p] = "none" => place[p] = "none"
  <2>1. CASE place[p] = "none"
    <3>1. OnlyMoves(p, Rows, Rows) BY <1>2 DEF OnlyMoves
    <3> QED BY <2>1, <3>1 DEF Rows
  <2>2. CASE place[p] # "none"
    <3>1. "withdrawn" \in PlaceStatus /\ Rows.place = place /\ Rows.charge = charge
          /\ place \in [Eligible -> PlaceStatus]
      BY DEF PlaceStatus, Rows, PlacesAreSound, PlacesTypeOK
    <3>2. /\ OnlyMoves(p, Rows, WritePlace(Rows, p, "withdrawn"))
          /\ WritePlace(Rows, p, "withdrawn").place = [Rows.place EXCEPT ![p] = "withdrawn"]
          /\ WritePlace(Rows, p, "withdrawn").charge = Rows.charge
      BY <1>2, <3>1, WriteMoves
    <3> QED BY <2>2, <3>1, <3>2
  <2> QED BY <2>1, <2>2
<1> HIDE DEF out
<1>4. /\ OnlyMoves(p, out, relieved) /\ relieved.place = out.place
      /\ relieved.charge[p] =
            IF charge[p] \in {"open", "paid", "refunded"}
            THEN IF Cancels("withdrawn", charge[p]) THEN "cancelled" ELSE charge[p]
            ELSE IF charge[p] = "none" /\ Generates("withdrawn", "none") THEN "open" ELSE charge[p]
  <2>1. RowsAreGood(out) BY <1>3 DEF OnlyMoves
  <2> QED BY <1>3, <2>1, SyncMoves
<1> HIDE DEF relieved
<1>5. OnlyMoves(p, Rows, relieved)
  <2>1. Rows.charge = charge BY DEF Rows
  <2> QED BY <1>3, <1>4, <2>1 DEF OnlyMoves
<1>6. ChargeFits("withdrawn", charge[p], relieved.charge[p])
  <2>1. policy = "on_confirmed" => ~Generates("withdrawn", "none") BY DEF Generates
  <2> QED BY <1>4, <2>1 DEF ChargeFits, Cancels
<1>7. CASE StudentWithdraw(p)
  <2> DEFINE self == {p}
  <2>1. Change("student_withdraw", p, PromoteNext(out)) BY <1>7 DEF StudentWithdraw, out
  <2>2. \A q \in self : q = p /\ "student_withdraw" = "student_withdraw" OBVIOUS
  <2>3. out.place[p] \in {"none", "declined", "withdrawn"} BY <1>3
  <2>4. out.place[p] # place[p] => p \in self \/ ChargeFits(out.place[p], charge[p], out.charge[p])
    OBVIOUS
  <2>5. \A q \in Eligible \ {p} : response'[q] = response[q] BY <1>1
  <2>6. OnlyMoves(p, Rows, out) BY <1>3
  <2> HIDE DEF self
  <2> QED BY <1>1, <2>1, <2>2, <2>3, <2>4, <2>5, <2>6, LeaveIsSound
<1>8. CASE StaffWithdraw(p)
  <2> DEFINE nobody == {}
  <2>1. Change("staff_withdraw", p, PromoteNext(relieved))
    BY <1>8 DEF StaffWithdraw, relieved, out
  <2>2. /\ relieved.place[p] \in {"none", "declined", "withdrawn"}
        /\ relieved.place[p] # place[p] =>
              p \in nobody \/ ChargeFits(relieved.place[p], charge[p], relieved.charge[p])
    BY <1>3, <1>4, <1>6
  <2>3. \A q \in Eligible \ {p} : response'[q] = response[q] BY <1>1
  <2>4. \A q \in nobody : q = p /\ "staff_withdraw" = "student_withdraw" OBVIOUS
  <2> HIDE DEF nobody
  <2> QED BY <1>1, <1>5, <2>1, <2>2, <2>3, <2>4, LeaveIsSound
<1> QED BY <1>7, <1>8

\* A request that passes its checks asks for no place without consent while it
\* is required.
LEMMA AdmitIsSound ==
    ASSUME PlacesAreSound, NEW r \in Requests, Admit(r) \/ Abandon(r)
    PROVE  PlacesAreSound' /\ place' = place
<1>1. /\ UNCHANGED <<status, capacity, consentRequired, policy, place, position, response, charge>>
      /\ pending' \subseteq pending \cup {r}
      /\ r \notin pending => Admit(r)
  BY DEF Admit, Abandon, activityVars
<1>2. PlacesTypeOK' BY <1>1 DEF PlacesAreSound, PlacesTypeOK
<1>3. InLine(Rows)' BY <1>1 DEF PlacesAreSound, InLine, Rows
<1>4. ConsentIsKept'
  <2> SUFFICES ASSUME TRUE \notin ConsentEdits, consentRequired,
                      NEW p \in Eligible, NEW kind \in {"signup", "staff_add"},
                      [kind |-> kind, pupil |-> p] \in pending'
               PROVE  FALSE
    BY <1>1 DEF PlacesAreSound, ConsentIsKept
  <2> DEFINE x == [kind |-> kind, pupil |-> p]
  <2>1. x \notin pending BY DEF PlacesAreSound, ConsentIsKept
  <2>2. x = r BY <1>1, <2>1
  <2>3. Passes(r) BY <1>1, <2>1, <2>2 DEF Admit
  <2>4. x \notin Edits
    <3>1. DOMAIN x = {"kind", "pupil"} OBVIOUS
    <3>2. \A e \in Edits : "kind" \notin DOMAIN e BY DEF Edits
    <3> HIDE DEF x
    <3> QED BY <3>1, <3>2
  <2>5. x.kind = kind OBVIOUS
  <2> HIDE DEF x
  <2> QED BY <2>2, <2>3, <2>4, <2>5 DEF Passes
<1> QED BY <1>1, <1>2, <1>3, <1>4 DEF PlacesAreSound

\* The activity is changed, or goes on to its next status, or is paid for.
LEMMA CircumstancesAreSound ==
    ASSUME PlacesAreSound,
           \/ \E r \in Edits : UpdateActivity(r)
           \/ \E to \in ActivityStatus : Transition(to)
           \/ \E p \in Eligible : FinanceStep(p)
    PROVE  PlacesAreSound' /\ place' = place
<1> USE DEF PlacesAreSound
<1>1. UNCHANGED <<place, position, response>> /\ pending' \subseteq pending
  BY DEF UpdateActivity, Transition, FinanceStep
<1>2. InLine(Rows)' BY <1>1 DEF InLine, Rows
<1>3. ASSUME NEW r \in Edits, UpdateActivity(r) PROVE PlacesTypeOK' /\ ConsentIsKept'
  <2>1. /\ capacity' = IF "capacity" \in DOMAIN r THEN r.capacity ELSE capacity
        /\ consentRequired' =
              IF "consentRequired" \in DOMAIN r THEN r.consentRequired ELSE consentRequired
        /\ policy' = IF "policy" \in DOMAIN r THEN r.policy ELSE policy
        /\ UNCHANGED <<status, charge>>
    BY <1>3 DEF UpdateActivity
  <2>2. /\ "capacity" \in DOMAIN r => r.capacity \in Capacities
        /\ "consentRequired" \in DOMAIN r => r.consentRequired \in ConsentEdits
        /\ "policy" \in DOMAIN r => r.policy \in Policies
    BY DEF Edits
  <2>3. PlacesTypeOK'
    <3>1. capacity' \in Capacities BY <2>1, <2>2 DEF PlacesTypeOK
    <3>2. consentRequired' \in ConsentRules \cup ConsentEdits BY <2>1, <2>2 DEF PlacesTypeOK
    <3>3. policy' \in Policies BY <2>1, <2>2 DEF PlacesTypeOK
    <3> QED BY <1>1, <2>1, <3>1, <3>2, <3>3 DEF PlacesTypeOK
  <2>4. TRUE \notin ConsentEdits /\ consentRequired' => consentRequired
    <3>1. ConsentEdits \subseteq BOOLEAN BY PlacesAssumption DEF PlacesAssumption
    <3>2. CASE "consentRequired" \in DOMAIN r
      <4>1. consentRequired' \in ConsentEdits /\ consentRequired' \in BOOLEAN
        BY <2>1, <2>2, <3>1, <3>2
      <4>2. consentRequired' => consentRequired' = TRUE BY <4>1
      <4> QED BY <4>1, <4>2
    <3>3. CASE "consentRequired" \notin DOMAIN r BY <2>1, <3>3
    <3> QED BY <3>2, <3>3
  <2> QED BY <1>1, <2>3, <2>4 DEF ConsentIsKept
<1>4. ASSUME NEW to \in ActivityStatus, Transition(to) PROVE PlacesTypeOK' /\ ConsentIsKept'
  BY <1>4 DEF Transition, PlacesTypeOK, ConsentIsKept
<1>5. ASSUME NEW p \in Eligible, FinanceStep(p) PROVE PlacesTypeOK' /\ ConsentIsKept'
  <2>1. charge' \in [Eligible -> ChargeState]
    BY <1>5 DEF FinanceStep, PlacesTypeOK, ChargeState
  <2>2. UNCHANGED <<status, capacity, consentRequired, policy, place, position, response, pending>>
    BY <1>5 DEF FinanceStep, activityVars
  <2> QED BY <2>1, <2>2 DEF PlacesTypeOK, ConsentIsKept
<1> QED BY <1>1, <1>2, <1>3, <1>4, <1>5

\* An activity without participants is sound.
LEMMA PlacesStart == PlacesInit => PlacesAreSound
<1> SUFFICES ASSUME PlacesInit PROVE PlacesAreSound OBVIOUS
<1>1. PlacesTypeOK
  BY PlacesAssumption DEF PlacesInit, PlacesTypeOK, PlacesAssumption, ActivityStatus,
     PlaceStatus, ChargeState
<1>2. InLine(Rows) BY DEF PlacesInit, InLine, Rows
<1>3. ConsentIsKept BY DEF PlacesInit, ConsentIsKept
<1> QED BY <1>1, <1>2, <1>3 DEF PlacesAreSound

\* Every step keeps the invariant and is fair.
LEMMA PlacesStep ==
    ASSUME PlacesAreSound, [PlacesNext]_placesVars
    PROVE  PlacesAreSound' /\ FairStep
<1>1. CASE UNCHANGED placesVars
  <2>1. UNCHANGED <<status, capacity, consentRequired, policy, place, position, response,
                    charge, pending>>
    BY <1>1 DEF placesVars
  <2> QED BY <2>1, StillIsFair DEF PlacesAreSound, PlacesTypeOK, InLine, Rows, ConsentIsKept
<1>2. CASE PlacesNext
  <2>1. ASSUME NEW r \in Requests, Admit(r) \/ Abandon(r) PROVE PlacesAreSound' /\ FairStep
    BY <2>1, AdmitIsSound, StillIsFair
  <2>2. ASSUME NEW p \in Eligible, NEW decision \in Decisions, Decide(p, decision)
        PROVE  PlacesAreSound' /\ FairStep
    BY <2>2, DecisionIsSound
  <2>3. ASSUME NEW p \in Eligible, SignUp(p) \/ StaffAdd(p) \/ StaffPromote(p)
        PROVE  PlacesAreSound' /\ FairStep
    BY <2>3, SignUpIsSound
  <2>4. ASSUME NEW p \in Eligible, StudentWithdraw(p) \/ StaffWithdraw(p)
        PROVE  PlacesAreSound' /\ FairStep
    BY <2>4, WithdrawalIsSound
  <2>5. ASSUME \/ \E r \in Edits : UpdateActivity(r)
               \/ \E to \in ActivityStatus : Transition(to)
               \/ \E p \in Eligible : FinanceStep(p)
        PROVE  PlacesAreSound' /\ FairStep
    BY <2>5, CircumstancesAreSound, StillIsFair
  <2> QED BY <1>2, <2>1, <2>2, <2>3, <2>4, <2>5 DEF PlacesNext
<1> QED BY <1>1, <1>2

-----------------------------------------------------------------------------
(* Theorems.                                                                *)

\* The invariant holds of every reachable state.
LEMMA PlacesAlwaysSound == PlacesSpec => []PlacesAreSound
<1>1. PlacesAreSound /\ [PlacesNext]_placesVars => PlacesAreSound' BY PlacesStep
<1> QED BY <1>1, PlacesStart, PTL DEF PlacesSpec

\* The rows of an activity are typed, its waiting list is a list, and nobody is
\* confirmed without the consent that is required (applyConsentDecision and the
\* other routes of activities-access.ts).
THEOREM PlacesInOrder == PlacesSpec => []PlacesInv
<1>1. PlacesAreSound => PlacesInv
  <2> SUFFICES ASSUME PlacesAreSound PROVE PlacesInv OBVIOUS
  <2>1. QueueInOrder BY DEF PlacesAreSound, InLine, QueueInOrder, Rows, In
  <2>2. ConsentBeforePlace BY DEF PlacesAreSound, ConsentIsKept, ConsentBeforePlace, Rows, In
  <2> QED BY <2>1, <2>2 DEF PlacesInv, PlacesAreSound
<1> QED BY <1>1, PlacesAlwaysSound, PTL

\* Whoever gets a place gets one that is free (allocateRegistrationStatus under
\* the lock of lockActivityCapacity).
THEOREM PlacesAreNeverOverbooked == PlacesSpec => NeverOverbooked
<1>1. PlacesAreSound /\ [PlacesNext]_placesVars => [NotOverbooked]_placesVars
  BY PlacesStep DEF FairStep
<1> QED BY <1>1, PlacesAlwaysSound, PTL DEF PlacesSpec, NeverOverbooked, NotOverbooked

\* A place that is given up goes to the pupil who has waited longest
\* (maybePromoteNextWaitlisted).
THEOREM PlacesArePassedOn == PlacesSpec => PlaceIsPassedOn
<1>1. PlacesAreSound /\ [PlacesNext]_placesVars => [GoesToTheFirst]_placesVars
  BY PlacesStep DEF FairStep
<1> QED BY <1>1, PlacesAlwaysSound, PTL DEF PlacesSpec, PlaceIsPassedOn, GoesToTheFirst

\* A charge that was paid stands, and one due on confirmation comes and goes
\* with the place (syncActivityCharge).
THEOREM ChargesFollowPlaces == PlacesSpec => ChargeFollowsPlace
<1>1. PlacesAreSound /\ [PlacesNext]_placesVars =>
        [PaidIsLeft]_placesVars /\ [ChargeGoesAlong]_placesVars
  BY PlacesStep DEF FairStep
<1> QED BY <1>1, PlacesAlwaysSound, PTL
           DEF PlacesSpec, ChargeFollowsPlace, PaidChargeStands, ChargeGoesWithPlace,
               PaidIsLeft, ChargeGoesAlong
=============================================================================
