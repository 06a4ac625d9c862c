--------------------------- MODULE ActivityPlaces ---------------------------
(***************************************************************************)
(* The places of one school activity: who is confirmed, who waits, what    *)
(* the guardians decided and what each pupil is charged                    *)
(* (packages/core/src/activities-access.ts, the routes and the portal that *)
(* call it, and syncActivityCharge of payments-access.ts).                 *)
(*                                                                         *)
(* A request reads the activity row and checks its status first, without a *)
(* lock; only then does it lock the row (lockActivityCapacity, `for        *)
(* update`) and change places.  Other requests may commit in between, so   *)
(* the check and the change are two steps.  The change itself, with the    *)
(* promotion and the charges it brings, runs under the lock: one step.     *)
(***************************************************************************)
EXTENDS Integers, FiniteSets, FiniteSetsExt

CONSTANTS
    Eligible,     \* the pupils the activity is for
    Capacities,   \* what staff may set as its capacity
    ConsentRules, \* what consent_required may be when the activity is created
    ConsentEdits, \* what staff may change it to
    Policies,     \* what staff may set as its charge policy
    MaxOpen,      \* bound: requests between their check and their change, for
                  \* an activity that requires consent and for one that does not
    MaxPosition,  \* bound: the largest waiting list position
    Unlimited     \* a capacity of null

\* "none" also stands for an activity without payment or without a price.
AllPolicies == {"none", "on_confirmed", "on_consent"}

ASSUME PlacesAssumption ==
    /\ Unlimited \notin Nat
    /\ IsFiniteSet(Eligible)
    /\ Capacities \subseteq Nat \cup {Unlimited}
    /\ ConsentRules \subseteq BOOLEAN
    /\ ConsentEdits \subseteq BOOLEAN
    /\ Policies \subseteq AllPolicies
    /\ MaxOpen \in [BOOLEAN -> Nat]
    /\ MaxPosition \in Nat

VARIABLES
    status,     \* school_activities.status
    capacity,   \* school_activities.capacity
    consentRequired,
    policy,     \* school_activities.charge_policy
    place,      \* school_activity_participants.registration_status
    position,   \* school_activity_participants.waiting_list_position, 0 for null
    response,   \* the effective row of school_activity_responses
    charge,     \* the row of school_charges with the activity's key for a pupil
    pending     \* requests that have passed their checks

placesVars == <<status, capacity, consentRequired, policy, place, position, response,
                charge, pending>>
activityVars == <<status, capacity, consentRequired, policy>>

ActivityStatus == {"draft", "published", "closed", "completed", "cancelled", "archived"}
PlaceStatus    == {"none", "expected", "confirmed", "waitlisted", "withdrawn", "declined"}
Decisions      == {"consented", "declined", "withdrawn"}

\* "open" is an issued or waived charge, "paid" one with money on it.
ChargeState == {"none", "open", "paid", "refunded", "cancelled"}

PupilRequests ==
    [kind : Decisions \cup {"signup", "student_withdraw", "staff_add", "staff_expect",
                            "staff_promote", "staff_withdraw"},
     pupil : Eligible]
Edits ==
    [capacity : Capacities \ {Unlimited}] \cup [consentRequired : ConsentEdits]
        \cup [policy : Policies]
Requests == PupilRequests \cup Edits

PlacesTypeOK ==
    /\ status \in ActivityStatus
    /\ capacity \in Capacities
    /\ consentRequired \in ConsentRules \cup ConsentEdits
    /\ policy \in Policies
    /\ place \in [Eligible -> PlaceStatus]
    /\ position \in [Eligible -> 0 .. MaxPosition]
    /\ response \in [Eligible -> Decisions \cup {"none"}]
    /\ charge \in [Eligible -> ChargeState]
    /\ pending \subseteq Requests

PlacesInit ==
    /\ status = "draft"
    /\ capacity \in Capacities
    /\ consentRequired \in ConsentRules
    /\ policy \in Policies
    /\ place    = [p \in Eligible |-> "none"]
    /\ position = [p \in Eligible |-> 0]
    /\ response = [p \in Eligible |-> "none"]
    /\ charge   = [p \in Eligible |-> "none"]
    /\ pending  = {}

-----------------------------------------------------------------------------
(* The rows of the participants and their charges, as a value that the      *)
(* operations under the lock pass from one to the next.                     *)

Rows == [place |-> place, position |-> position, charge |-> charge]

In(rows, s) == {p \in Eligible : rows.place[p] = s}

\* Mutant: the last place is given twice.
AllocateOneMore(rows) ==
    IF capacity = Unlimited \/ Cardinality(In(rows, "confirmed")) <= capacity
    THEN "confirmed" ELSE "waitlisted"

\* allocateRegistrationStatus
Allocate(rows) ==
    IF capacity = Unlimited \/ Cardinality(In(rows, "confirmed")) < capacity
    THEN "confirmed" ELSE "waitlisted"

\* Mutant: the next position is the length of the list, which repeats one
\* when a pupil has left it.
PositionByLength(rows) == Cardinality(In(rows, "waitlisted")) + 1

\* nextWaitingListPosition
NextPosition(rows) == Max({0} \cup {rows.position[p] : p \in Eligible}) + 1

\* shouldGenerateActivityCharge
Generates(s, decision) ==
    CASE policy = "none"         -> FALSE
      [] policy = "on_confirmed" -> s = "confirmed"
      [] policy = "on_consent"   -> decision = "consented"

\* Mutant: only a pupil who declines is relieved of the charge.
CancelsDeclined(s, c) == s = "declined" /\ c = "open"

\* shouldCancelActivityCharge
Cancels(s, c) == s \in {"declined", "withdrawn"} /\ c = "open"

\* syncActivityCharge, told a registration status and a decision.  The key of
\* the charge is the activity's and the pupil's, so createCharge returns a
\* cancelled charge as it is.
SyncCharge(rows, p, s, decision) ==
    LET c == rows.charge[p] IN
    [rows EXCEPT !.charge[p] =
        IF c \in {"open", "paid", "refunded"}
        THEN IF Cancels(s, c) THEN "cancelled" ELSE c
        ELSE IF c = "none" /\ Generates(s, decision) THEN "open" ELSE c]

WritePlace(rows, p, s) ==
    [rows EXCEPT !.place[p] = s,
                 !.position[p] = IF s = "waitlisted" THEN NextPosition(rows) ELSE 0]

Upsert(rows, p, s, decision) == SyncCharge(WritePlace(rows, p, s), p, s, decision)

FirstWaiting(rows) ==
    {p \in In(rows, "waitlisted") :
        \A q \in In(rows, "waitlisted") : rows.position[p] <= rows.position[q]}

Running == {"published", "closed"}

\* Mutant: the pupil who joined the list last is promoted.
PromoteNewest(rows) ==
    IF status \in Running /\ Allocate(rows) = "confirmed" /\ FirstWaiting(rows) # {}
    THEN LET p == CHOOSE q \in In(rows, "waitlisted") :
                     \A o \in In(rows, "waitlisted") : rows.position[o] <= rows.position[q]
         IN  Upsert(rows, p, "confirmed", "none")
    ELSE rows

\* maybePromoteNextWaitlisted reads the status again, under the lock.
PromoteNext(rows) ==
    IF status \in Running /\ Allocate(rows) = "confirmed" /\ FirstWaiting(rows) # {}
    THEN LET p == CHOOSE q \in FirstWaiting(rows) : TRUE
         IN  Upsert(rows, p, "confirmed", "none")
    ELSE rows

-----------------------------------------------------------------------------
(* Requests.                                                                *)

\* What the handlers check before they lock.  Eligible are eligible from the
\* first publication on, so staff find none in a draft.
Passes(r) ==
    IF r \in Edits
    THEN status \in Running \cup {"draft"}
    ELSE /\ status \in Running
         /\ r.kind \in {"signup", "staff_add"} => ~consentRequired
         /\ r.kind = "staff_expect"            => consentRequired

Admit(r) ==
    /\ Cardinality(pending) < MaxOpen[consentRequired]
    /\ r \notin pending
    /\ Passes(r)
    /\ pending' = pending \cup {r}
    /\ UNCHANGED <<activityVars, place, position, response, charge>>

\* A request that throws, or whose process dies, is rolled back.
Abandon(r) ==
    /\ r \in pending
    /\ pending' = pending \ {r}
    /\ UNCHANGED <<activityVars, place, position, response, charge>>

Change(kind, p, rows) ==
    /\ [kind |-> kind, pupil |-> p] \in pending
    /\ pending' = pending \ {[kind |-> kind, pupil |-> p]}
    /\ place' = rows.place
    /\ position' = rows.position
    /\ charge' = rows.charge
    /\ \A q \in Eligible : rows.position[q] <= MaxPosition
    /\ UNCHANGED activityVars

\* applyConsentDecision, for a guardian or entered by staff.  A pupil who is
\* confirmed already is allocated a place again like anybody else.
Decide(p, decision) ==
    /\ response' = [response EXCEPT ![p] = decision]
    /\ IF decision = "consented"
       THEN Change(decision, p, Upsert(Rows, p, Allocate(Rows), decision))
       ELSE Change(decision, p, PromoteNext(Upsert(Rows, p, decision, decision)))

\* studentSignupForActivity
SignUp(p) ==
    /\ Change("signup", p, Upsert(Rows, p, Allocate(Rows), "none"))
    /\ UNCHANGED response

\* studentSignupForActivity with `withdraw`; the charge is left as it is.
StudentWithdraw(p) ==
    /\ Change("student_withdraw", p,
              PromoteNext(IF place[p] = "none" THEN Rows ELSE WritePlace(Rows, p, "withdrawn")))
    /\ UNCHANGED response

\* The staff route that adds a participant; with consent required it only
\* expects the pupil.
StaffAdd(p) ==
    /\ \/ Change("staff_add", p, Upsert(Rows, p, Allocate(Rows), "none"))
       \/ Change("staff_expect", p, Upsert(Rows, p, "expected", "none"))
    /\ UNCHANGED response

StaffPromote(p) ==
    /\ Allocate(Rows) = "confirmed"
    /\ place[p] = "waitlisted"
    /\ Change("staff_promote", p, Upsert(Rows, p, "confirmed", "none"))
    /\ UNCHANGED response

\* The charge is cancelled even if the pupil never had a place.
StaffWithdraw(p) ==
    /\ Change("staff_withdraw", p,
              PromoteNext(SyncCharge(
                  IF place[p] = "none" THEN Rows ELSE WritePlace(Rows, p, "withdrawn"),
                  p, "withdrawn", "none")))
    /\ UNCHANGED response

\* The update of an activity changes the fields the request names; nobody is
\* promoted when the capacity grows, nobody loses a place when it shrinks.
UpdateActivity(r) ==
    /\ r \in pending \cap Edits
    /\ pending' = pending \ {r}
    /\ capacity' = IF "capacity" \in DOMAIN r THEN r.capacity ELSE capacity
    /\ consentRequired' =
            IF "consentRequired" \in DOMAIN r THEN r.consentRequired ELSE consentRequired
    /\ policy' = IF "policy" \in DOMAIN r THEN r.policy ELSE policy
    /\ UNCHANGED <<status, place, position, response, charge>>

\* isActivityStatusTransitionAllowed
Allowed(from, to) ==
    \/ from = "draft"     /\ to \in {"published", "cancelled", "archived"}
    \/ from = "published" /\ to \in {"closed", "completed", "cancelled", "archived"}
    \/ from = "closed"    /\ to \in {"published", "completed", "cancelled", "archived"}
    \/ from \in {"completed", "cancelled"} /\ to = "archived"

\* The trigger on the row checks the transition again, so that it is one step.
Transition(to) ==
    /\ Allowed(status, to)
    /\ status' = to
    /\ UNCHANGED <<capacity, consentRequired, policy, place, position, response, charge, pending>>

\* The finance office and the provider: a charge is paid (by a late payment
\* even after a refund), refunded in full, or cancelled while no money is on
\* it.  ChargeLedger has the operations themselves.
FinanceStep(p) ==
    /\ \/ charge[p] \in {"open", "refunded"} /\ charge' = [charge EXCEPT ![p] = "paid"]
       \/ charge[p] = "paid" /\ charge' = [charge EXCEPT ![p] = "refunded"]
       \/ charge[p] \in {"open", "refunded"} /\ charge' = [charge EXCEPT ![p] = "cancelled"]
    /\ UNCHANGED <<activityVars, place, position, response, pending>>

PlacesNext ==
    \/ \E r \in Requests : Admit(r) \/ Abandon(r)
    \/ \E p \in Eligible, decision \in Decisions : Decide(p, decision)
    \/ \E p \in Eligible : SignUp(p) \/ StudentWithdraw(p)
    \/ \E p \in Eligible : StaffAdd(p) \/ StaffPromote(p) \/ StaffWithdraw(p)
    \/ \E p \in Eligible : FinanceStep(p)
    \/ \E r \in Edits : UpdateActivity(r)
    \/ \E to \in ActivityStatus : Transition(to)

PlacesSpec == PlacesInit /\ [][PlacesNext]_placesVars

-----------------------------------------------------------------------------
(* Safety.                                                                  *)

\* Whoever gets a place gets one that is free: no step that confirms a pupil
\* leaves more confirmed than the capacity, although requests queue on the
\* last place, promotions follow withdrawals and staff change the capacity.
NeverOverbooked ==
    [][\/ In([place |-> place'], "confirmed") \subseteq In(Rows, "confirmed")
       \/ capacity' = Unlimited
       \/ Cardinality(In([place |-> place'], "confirmed")) <= capacity']_placesVars

\* The waiting list is a list: who waits, and nobody else, has a position, and
\* no two pupils have the same, although pupils leave it anywhere and join it
\* again.
QueueInOrder ==
    /\ \A p \in Eligible : place[p] = "waitlisted" <=> position[p] > 0
    /\ \A p, q \in In(Rows, "waitlisted") : position[p] = position[q] => p = q

\* A place that is given up while the activity runs goes at once to the pupil
\* who has waited longest, whoever gave it up and by whichever route.
PlaceIsPassedOn ==
    [][\A p \in Eligible :
          (/\ place[p] = "confirmed"
           /\ place'[p] \in {"withdrawn", "declined"}
           /\ status \in Running
           /\ capacity = Unlimited \/ Cardinality(In(Rows, "confirmed")) <= capacity
           /\ In(Rows, "waitlisted") # {})
             => \E q \in FirstWaiting(Rows) : place'[q] = "confirmed"]_placesVars

\* While consent is required, and was from the start (staff may drop the
\* requirement, not bring it in), nobody is confirmed whose effective response
\* is not consent: not by sign-up, by staff, or by being promoted from the list
\* after the guardian changed their mind.
ConsentBeforePlace ==
    TRUE \notin ConsentEdits /\ consentRequired =>
        \A p \in In(Rows, "confirmed") : response[p] = "consented"

\* Leaving an activity, by any route, never touches a charge that was paid.
PaidChargeStands ==
    [][\A p \in Eligible : charge[p] \in {"paid", "refunded"} /\ place' # place
          => charge'[p] = charge[p]]_placesVars

\* With a price due on confirmation the charge goes with the place, by every
\* route: who gets a place has a charge, unless theirs was cancelled before,
\* and who leaves keeps no unpaid charge, unless they withdraw themselves in
\* the portal (ADR 0024 promises both without the exceptions).
ChargeGoesWithPlace ==
    [][\A p \in Eligible : place'[p] # place[p] /\ policy = "on_confirmed" =>
          /\ place'[p] = "confirmed" =>
                charge'[p] \in {"open", "paid", "refunded"} \/ charge[p] = "cancelled"
          /\ place'[p] \in {"declined", "withdrawn"} /\ charge'[p] = "open" =>
                [kind |-> "student_withdraw", pupil |-> p] \in pending \ pending']_placesVars

\* The places of an activity: their types, the order of the waiting list, and
\* nobody confirmed without the consent that is required.
PlacesInv == PlacesTypeOK /\ QueueInOrder /\ ConsentBeforePlace

\* The charge comes and goes with the place, and money that was paid stands.
ChargeFollowsPlace == PaidChargeStands /\ ChargeGoesWithPlace
=============================================================================
