--------------------------- MODULE MCTuitionBilling ---------------------------
(* Billing runs and the arithmetic of their quotes on small instances for    *)
(* TLC.  BillingRuns takes the amount of a fee as given and TuitionQuotes    *)
(* computes amounts; they share no state.  "focus" names the one that moves, *)
(* the other stays where it starts.                                          *)
EXTENDS BillingRuns, MCTuitionQuotes, TLC

CONSTANTS general, single, s1, s2

VARIABLE focus

TwoRuns      == {general, single}
TwoSchedules == {s1, s2}
OnlyOne      == [r \in TwoRuns |-> IF r = single THEN s1 ELSE None]
FitsAll      == [p \in Pupils |-> {s1, s2}]
ByName       == [s \in TwoSchedules |-> IF s = s1 THEN 0 ELSE 1]
Symmetric    == Permutations(Pupils) \cup Permutations(Accounts)

AnyQuestion == CHOOSE q \in Questions : q.kind = "run"

\* An office without pupils, where no run has anything to bill.
EmptyOffice ==
    /\ BillingInit
    /\ enrolled = {}
    /\ plan = [p \in Pupils |-> None]
    /\ \E a \in Accounts : account = [p \in Pupils |-> a]

TuitionInit ==
    \/ focus = "runs" /\ BillingInit /\ asked = AnyQuestion /\ answer = Nothing
    \/ focus = "quotes" /\ EmptyOffice /\ QuotesInit

TuitionNext ==
    \/ focus = "runs" /\ BillingNext /\ UNCHANGED <<quoteVars, focus>>
    \/ focus = "quotes" /\ QuotesNext /\ UNCHANGED <<billingVars, focus>>

TuitionSpec == TuitionInit /\ [][TuitionNext]_<<billingVars, quoteVars, focus>>
===============================================================================
