---------------------------- MODULE ChargeAccount ----------------------------
(***************************************************************************)
(* What the ledger of charges promises a school and a parent, without      *)
(* transactions, sessions, events or rows: per charge an amount due and an *)
(* amount paid.  Money comes in only while the charge is open and only up  *)
(* to what is due, what is due never grows, and a closed account stays as  *)
(* it is.                                                                  *)
(***************************************************************************)
EXTENDS Integers

CONSTANT Accounts

VARIABLES
    state,  \* Accounts -> {"absent", "draft", "open", "waived", "closed"}
    due,    \* Accounts -> Nat
    paid    \* Accounts -> Nat, net of refunds

accountVars == <<state, due, paid>>

Init ==
    /\ state = [a \in Accounts |-> "absent"]
    /\ due   = [a \in Accounts |-> 0]
    /\ paid  = [a \in Accounts |-> 0]

Raise(a) ==
    /\ state[a] = "absent"
    /\ state'[a] \in {"draft", "open"}
    /\ due'[a] \in Nat \ {0}
    /\ state' = [state EXCEPT ![a] = state'[a]]
    /\ due' = [due EXCEPT ![a] = due'[a]]
    /\ UNCHANGED paid

Issue(a) ==
    /\ state[a] = "draft"
    /\ state' = [state EXCEPT ![a] = "open"]
    /\ UNCHANGED <<due, paid>>

\* A reduction stops at what is paid; reducing an unpaid charge to nothing
\* waives it.
Reduce(a) ==
    /\ state[a] \in {"draft", "open"}
    /\ \E n \in paid[a] .. due[a] - 1 :
         /\ due' = [due EXCEPT ![a] = n]
         /\ state' = [state EXCEPT ![a] = IF n = 0 THEN "waived" ELSE @]
    /\ UNCHANGED paid

Pay(a) ==
    /\ state[a] = "open"
    /\ \E n \in paid[a] + 1 .. due[a] : paid' = [paid EXCEPT ![a] = n]
    /\ UNCHANGED <<state, due>>

GiveBack(a) ==
    /\ state[a] = "open"
    /\ \E n \in 0 .. paid[a] - 1 : paid' = [paid EXCEPT ![a] = n]
    /\ UNCHANGED <<state, due>>

Close(a) ==
    /\ state[a] # "absent"
    /\ paid[a] = 0
    /\ state' = [state EXCEPT ![a] = "closed"]
    /\ UNCHANGED <<due, paid>>

Next ==
    \E a \in Accounts :
        Raise(a) \/ Issue(a) \/ Reduce(a) \/ Pay(a) \/ GiveBack(a) \/ Close(a)

Spec == Init /\ [][Next]_accountVars
=============================================================================
