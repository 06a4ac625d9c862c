-------------------------- MODULE MCActivityPlaces --------------------------
(* ActivityPlaces on small instances for TLC: two pupils who are charged,   *)
(* and three who are not, so that two can wait in line for the place of the *)
(* third.                                                                   *)
EXTENDS ActivityPlaces, TLC

Anyone == Permutations(Eligible)

\* Two requests at a time where consent is required, one where it is not.
OpenRequests == [required \in BOOLEAN |-> IF required THEN 2 ELSE 1]

\* The pupils who have anything to do with the activity.
Concerned ==
    {p \in Eligible :
        \/ place[p] # "none" \/ response[p] # "none" \/ charge[p] # "none"
        \/ \E r \in pending \ Edits : r.pupil = p}

\* Bound: how many pupils that may be at a time.
Crowd == IF policy = "none" THEN 3 ELSE 2

\* Bound: the activity without a price needs no consent, and neither becomes
\* the other.  The one with a price is published and completed: requests do not
\* tell published from closed, nor completed from cancelled or archived.
BoundedSpec ==
    /\ PlacesInit
    /\ policy = "none" => ~consentRequired
    /\ [][/\ PlacesNext
          /\ policy # "none" => status' \in {"draft", "published", "completed"}
          /\ \A r \in pending' : "policy" \notin DOMAIN r
          /\ \A p \in Eligible : position'[p] <= Crowd
          /\ Cardinality(Concerned') <= Crowd]_placesVars
=============================================================================
