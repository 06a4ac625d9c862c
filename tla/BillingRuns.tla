---------------------------- MODULE BillingRuns ----------------------------
(* The tuition billing runs of one billing period (previewBillingRun,       *)
(* confirmBillingRun and the catch-up invoices of                           *)
(* packages/core/src/tuition-access.ts).                                    *)
(*                                                                          *)
(* A period has one general run, which bills every pupil by the schedule    *)
(* that fits best, and may have runs for one schedule each.  Transactions   *)
(* are READ COMMITTED.  A confirmation and a catch-up lock the row of their *)
(* run, read the quotes, and issue what they read; a preview reads its      *)
(* quotes with no lock at all.  Each is therefore a reading and a writing   *)
(* step, with the office and the other runs in between.                     *)
EXTENDS Integers, FiniteSets

CONSTANTS
    Pupils,
    Schedules,
    Accounts,       \* the billing accounts of the families
    Runs,           \* rows of school_billing_runs for the period
    Only,           \* Only[r]: the schedule run r is restricted to, or None
    Fits,           \* Fits[p]: the schedules for p's class, year or the school
    Rank,           \* Rank[s]: how specific schedule s is (0 is a class's)
    Prices,         \* the amounts a schedule may ask
    MaxChanges,     \* bound on the changes the office makes
    None

ASSUME BillingAssumption ==
    /\ Only \in [Runs -> Schedules \cup {None}]
    /\ Fits \in [Pupils -> SUBSET Schedules]
    /\ Rank \in [Schedules -> Nat]
    /\ \A s, t \in Schedules : Rank[s] = Rank[t] => s = t
    /\ Prices \subseteq Nat \ {0}
    /\ MaxChanges \in Nat
    /\ None \notin Schedules \cup Pupils

VARIABLES
    enrolled,   \* the pupils on the roll during the period
    price,      \* price[s], None for a schedule that is archived or ended
    plan,       \* the schedule of each pupil's fee profile, or None
    account,    \* the account ensureBillingAccount finds for each pupil
    run,        \* school_billing_runs and school_billing_run_items
    preview,    \* preview[r]: what a preview under way has read, or None
    tx,         \* tx[r]: the transaction that holds the lock of run r, or None
    invoices,   \* the tuition invoices of the period that are not void
    changes     \* changes made by the office so far

office == <<enrolled, price, plan, account>>
billingVars == <<office, run, preview, tx, invoices, changes>>

\* A quote of amount 0 stands for "already invoiced".
Quote   == [schedule : Schedules \cup {None}, amount : Prices \cup {0}]
Quotes  == [Pupils -> Quote \cup {None}]
Line    == [pupil : Pupils, schedule : Schedules, amount : Prices]
\* `pupil` is the pupil of a catch-up invoice, None for an invoice of the run.
Invoice == [run : Runs, pupil : Pupils \cup {None}, account : Accounts, lines : SUBSET Line]
\* `billed` and `quiet` are history: what was billed when the transaction read
\* its quotes, and whether nothing that quotes depend on has changed since.
Tx ==
    [kind : {"confirm", "catch_up"}, quotes : Quotes,
     billed : SUBSET (Pupils \X Schedules), quiet : BOOLEAN]

BillingTypeOK ==
    /\ enrolled \subseteq Pupils
    /\ price \in [Schedules -> Prices \cup {None}]
    /\ plan \in [Pupils -> Schedules \cup {None}]
    /\ account \in [Pupils -> Accounts]
    /\ run \in [Runs -> [status : {"none", "previewed", "confirmed"}, quotes : Quotes,
                         accounts : [Pupils -> Accounts]]]
    /\ preview \in [Runs -> [found : BOOLEAN, quotes : Quotes] \cup {None}]
    /\ tx \in [Runs -> Tx \cup {None}]
    /\ \A i \in invoices : i \in Invoice /\ i.lines # {}
    /\ changes \in 0 .. MaxChanges

NoQuotes == [p \in Pupils |-> None]

BillingInit ==
    /\ enrolled \in SUBSET Pupils
    /\ price \in [Schedules -> Prices]
    /\ plan \in [Pupils -> Schedules \cup {None}]
    /\ account \in [Pupils -> Accounts]
    /\ run = [r \in Runs |-> [status |-> "none", quotes |-> NoQuotes, accounts |-> account]]
    /\ preview = [r \in Runs |-> None]
    /\ tx = [r \in Runs |-> None]
    /\ invoices = {}
    /\ changes = 0

-----------------------------------------------------------------------------
(* Quotes.                                                                  *)

Active == {s \in Schedules : price[s] # None}

\* The schedule a pupil is quoted by: that of the fee profile if it is in
\* force, else the most specific that fits; in a run of one schedule, that
\* one or none.
ScheduleFor(p, r) ==
    LET matching == {s \in Active \cap Fits[p] : Only[r] \in {None, s}}
    IN  IF plan[p] # None /\ Only[r] \notin {None, plan[p]}
        THEN None
        ELSE CASE plan[p] \in Active -> plan[p]
               [] plan[p] \notin Active /\ matching # {} ->
                     CHOOSE s \in matching : \A t \in matching : Rank[s] <= Rank[t]
               [] OTHER -> None

Billed == {<<l.pupil, l.schedule>> : l \in UNION {i.lines : i \in invoices}}

\* quotePupilTuition for one pupil.  A pupil without a schedule is listed with
\* a warning by the general run and left out by the others.
QuoteOf(p, r) ==
    LET s == ScheduleFor(p, r)
    IN  CASE p \notin enrolled \/ (s = None /\ Only[r] # None) -> None
          [] p \in enrolled /\ s = None /\ Only[r] = None -> [schedule |-> None, amount |-> 0]
          [] OTHER ->
                [schedule |-> s, amount |-> IF <<p, s>> \in Billed THEN 0 ELSE price[s]]

QuotesNow(r) == [p \in Pupils |-> QuoteOf(p, r)]

Chargeable(quotes) == {p \in Pupils : quotes[p] # None /\ quotes[p].amount > 0}

LineFor(p, quote) == [pupil |-> p, schedule |-> quote.schedule, amount |-> quote.amount]

-----------------------------------------------------------------------------
(* The preview of a run.                                                    *)

\* The status is read without a lock; a run that is issued is only shown.
PreviewRead(r) ==
    /\ preview[r] = None
    /\ run[r].status # "confirmed"
    /\ preview' = [preview EXCEPT ![r] =
                      [found |-> run[r].status # "none", quotes |-> QuotesNow(r)]]
    /\ UNCHANGED <<office, run, tx, invoices, changes>>

\* The row read is updated by its id, after waiting for its lock, whatever
\* its status is by then, and its items are replaced.
PreviewSave(r) ==
    /\ preview[r] # None
    /\ tx[r] = None
    /\ preview[r].found \/ run[r].status = "none"
    /\ run' = [run EXCEPT ![r] =
                  [status |-> "previewed", quotes |-> preview[r].quotes, accounts |-> account]]
    /\ preview' = [preview EXCEPT ![r] = None]
    /\ UNCHANGED <<office, tx, invoices, changes>>

\* The insert meets the unique index of the period key, or the request fails.
PreviewFails(r) ==
    /\ preview[r] # None
    /\ preview' = [preview EXCEPT ![r] = None]
    /\ UNCHANGED <<office, run, tx, invoices, changes>>

-----------------------------------------------------------------------------
(* Confirmation and catch-up.                                               *)

Begin(r, kind) ==
    /\ tx[r] = None
    /\ tx' = [tx EXCEPT ![r] =
                 [kind |-> kind, quotes |-> QuotesNow(r), billed |-> Billed, quiet |-> TRUE]]
    /\ UNCHANGED <<office, run, preview, invoices, changes>>

\* Mutant: the items of a preview are never out of date.
NeverStale(r) == FALSE

\* billingRunPreviewStaleReason: the fresh quotes differ from the items.
Stale(r) == QuotesNow(r) # run[r].quotes

ConfirmCheck(r) ==
    /\ run[r].status = "previewed"
    /\ ~Stale(r)
    /\ Begin(r, "confirm")

CatchUpCheck(r) ==
    /\ run[r].status = "confirmed"
    /\ Begin(r, "catch_up")

\* The live invoice with the period key of the run, or of the pupil's catch-up.
HasInvoice(r, p, a) == \E i \in invoices : i.run = r /\ i.pupil = p /\ i.account = a

\* issueTuitionInvoiceForAccount for each account of the items.  An account
\* that has an invoice of the run gets no other: its items are linked to it.
RunInvoices(r) ==
    LET charged == Chargeable(run[r].quotes)
        groups  == {a \in {run[r].accounts[p] : p \in charged} : ~HasInvoice(r, None, a)}
    IN  {[run |-> r, pupil |-> None, account |-> a,
          lines |-> {LineFor(p, run[r].quotes[p]) :
                        p \in {q \in charged : run[r].accounts[q] = a}}] : a \in groups}

\* Mutant: only the period key keeps a catch-up from being issued twice.
CatchUpByKey(r) ==
    LET missing == {p \in Chargeable(tx[r].quotes) : ~HasInvoice(r, p, account[p])}
    IN  {[run |-> r, pupil |-> p, account |-> account[p],
          lines |-> {LineFor(p, tx[r].quotes[p])}] : p \in missing}

\* One invoice for each missing pupil; the unique index allows a pupil one
\* catch-up in the period, whatever its run, and a refused one is skipped.
CatchUpInvoices(r) ==
    LET missing ==
            {p \in Chargeable(tx[r].quotes) : \A i \in invoices : i.pupil # p}
    IN  {[run |-> r, pupil |-> p, account |-> account[p],
          lines |-> {LineFor(p, tx[r].quotes[p])}] : p \in missing}

\* A commit that other transactions under way have not seen.
Ended(r) ==
    tx' = [q \in Runs |->
              IF q = r \/ tx[q] = None THEN None ELSE [tx[q] EXCEPT !.quiet = FALSE]]

ConfirmIssue(r) ==
    /\ tx[r] # None /\ tx[r].kind = "confirm"
    /\ invoices' = invoices \cup RunInvoices(r)
    /\ run' = [run EXCEPT ![r].status = "confirmed"]
    /\ Ended(r)
    /\ UNCHANGED <<office, preview, changes>>

CatchUpIssue(r) ==
    /\ tx[r] # None /\ tx[r].kind = "catch_up"
    /\ invoices' = invoices \cup CatchUpInvoices(r)
    /\ Ended(r)
    /\ UNCHANGED <<office, run, preview, changes>>

\* The transaction fails or the server dies.
Rollback(r) ==
    /\ tx[r] # None
    /\ tx' = [tx EXCEPT ![r] = None]
    /\ UNCHANGED <<office, run, preview, invoices, changes>>

-----------------------------------------------------------------------------
(* The office.                                                              *)

OfficeChange ==
    /\ changes < MaxChanges
    /\ changes' = changes + 1
    /\ tx' = [q \in Runs |-> IF tx[q] = None THEN None ELSE [tx[q] EXCEPT !.quiet = FALSE]]
    /\ UNCHANGED <<run, preview>>

\* A pupil joins or leaves the roll.
Enrol(p) ==
    /\ OfficeChange
    /\ enrolled' = IF p \in enrolled THEN enrolled \ {p} ELSE enrolled \cup {p}
    /\ UNCHANGED <<price, plan, account, invoices>>

\* updateFeeSchedule, endFeeSchedule.
Reprice(s, amount) ==
    /\ OfficeChange
    /\ amount # price[s]
    /\ price' = [price EXCEPT ![s] = amount]
    /\ UNCHANGED <<enrolled, plan, account, invoices>>

\* upsertPupilFeeProfile; a plan is replaced and never taken away.
ChangePlan(p, s) ==
    /\ OfficeChange
    /\ s # plan[p]
    /\ plan' = [plan EXCEPT ![p] = s]
    /\ UNCHANGED <<enrolled, price, account, invoices>>

\* A change of guardians joins the pupil to another family's account.
Regroup(p, a) ==
    /\ OfficeChange
    /\ a # account[p]
    /\ account' = [account EXCEPT ![p] = a]
    /\ UNCHANGED <<enrolled, price, plan, invoices>>

\* voidInvoice, of an invoice on which nothing is paid.
VoidInvoice(i) ==
    /\ OfficeChange
    /\ invoices' = invoices \ {i}
    /\ UNCHANGED office

-----------------------------------------------------------------------------

BillingNext ==
    \/ \E r \in Runs :
          \/ PreviewRead(r) \/ PreviewSave(r) \/ PreviewFails(r)
          \/ ConfirmCheck(r) \/ ConfirmIssue(r)
          \/ CatchUpCheck(r) \/ CatchUpIssue(r)
          \/ Rollback(r)
    \/ \E p \in Pupils :
          \/ Enrol(p)
          \/ \E s \in Schedules : ChangePlan(p, s)
          \/ \E a \in Accounts : Regroup(p, a)
    \/ \E s \in Schedules, amount \in Prices \cup {None} : Reprice(s, amount)
    \/ \E i \in invoices : VoidInvoice(i)

BillingSpec == BillingInit /\ [][BillingNext]_billingVars

-----------------------------------------------------------------------------
(* Properties.                                                              *)

InvoicesFor(r, p, s) ==
    {i \in invoices : i.run = r /\ \E l \in i.lines : l.pupil = p /\ l.schedule = s}

\* A run charges a pupil once by a schedule, its catch-ups included, however
\* often it is previewed, confirmed and caught up, and whatever account the
\* pupil is moved to; and catch-ups charge a pupil once in the period.
BilledOncePerRun ==
    \A p \in Pupils :
        /\ \A r \in Runs, s \in Schedules : Cardinality(InvoicesFor(r, p, s)) <= 1
        /\ Cardinality({i \in invoices : i.pupil = p}) <= 1

\* The general run and the run of a schedule charge a pupil twice by that
\* schedule only if the two were issued in overlapping transactions.
DoubleBillingNeedsOverlap ==
    [][\A i \in invoices' \ invoices : \A l \in i.lines :
            <<l.pupil, l.schedule>> \in Billed =>
                <<l.pupil, l.schedule>> \notin tx[i.run].billed]_billingVars

\* What keeps a pupil from being charged: the account has an invoice of the
\* run already, or the pupil has a catch-up.
PassedOver(r, p) ==
    IF tx[r].kind = "confirm" THEN HasInvoice(r, None, run[r].accounts[p])
    ELSE \E i \in invoices : i.pupil = p

\* A run or a catch-up that nothing came across charges every pupil on the
\* roll who has a schedule of the run and is not charged by it yet, at the
\* price of that schedule today, save those passed over, and nobody else.
QuietRunsBillExactly ==
    [][\A r \in Runs :
          (tx[r] # None /\ tx[r].quiet /\ (ConfirmIssue(r) \/ CatchUpIssue(r))) =>
              UNION {i.lines : i \in invoices' \ invoices} =
                  {LineFor(p, QuoteOf(p, r)) :
                      p \in {q \in Chargeable(QuotesNow(r)) : ~PassedOver(r, q)}}]_billingVars

\* The rows of billing have their types, and a run bills a pupil once.
BillingInv == BillingTypeOK /\ BilledOncePerRun
=============================================================================
