------------------------- MODULE AdmissionsWorkflow -------------------------
(* One application for a place at the school: its status, the offers made   *)
(* on it, its entries on the waiting list, its assessments, and the pupil   *)
(* it becomes (packages/api/src/routes/admissions.ts, the status machine of *)
(* packages/domain/src/admissions-workflow.ts, and the triggers of          *)
(* migrations 0013 and 0014).                                               *)
(*                                                                          *)
(* The handlers read the application and the offer without a lock, check    *)
(* what they read, and then write.  Only the triggers and unique indexes    *)
(* look at the rows again, so a request is a reading step and a writing     *)
(* step, and other requests come between them.                              *)
EXTENDS Integers, FiniteSets

CONSTANTS
    Sessions,   \* requests of members of staff that may be under way together
    Offers,     \* rows of admissions_offers
    Entries,    \* rows of admissions_waiting_list_entries
    NoRequest

ASSUME AdmissionsAssumption == IsFiniteSet(Offers) /\ IsFiniteSet(Entries)

VARIABLES
    application,    \* admissions_applications.status
    offer,          \* the status of each offer, "none" for no row
    entry,          \* the status of each waiting list entry, "none" for no row
    assessed,       \* whether an assessment has been scheduled
    students,       \* pupils made of the application
    request         \* the request of each session and what it has read

admissionsVars == <<application, offer, entry, assessed, students, request>>

ApplicationStatus ==
    {"enquiry", "draft", "submitted", "under_review", "information_required",
     "assessment_pending", "assessment_completed", "waiting_list", "offer_pending",
     "offer_made", "accepted", "deferred", "rejected", "withdrawn", "enrolled"}
OfferStatus  == {"made", "accepted", "declined", "expired", "withdrawn"}
EntryStatus  == {"active", "offered", "removed", "enrolled"}

\* What a request will write once its checks have passed.  `relist` says that
\* the waiting list route read an application that was on the list already,
\* `taken` are the offers it has withdrawn and not committed.
Requests ==
    [kind : {"status"}, to : ApplicationStatus]
        \cup [kind : {"assess"}, moves : BOOLEAN]
        \cup [kind : {"complete", "make_offer", "enrol"}]
        \cup [kind : {"list"}, relist : BOOLEAN]
        \cup [kind : {"listing"}, relist : BOOLEAN, taken : SUBSET Offers]
        \cup [kind : {"answer_read"}, offer : Offers, to : OfferStatus, waitlist : BOOLEAN]
        \cup [kind : {"answer"}, offer : Offers, to : OfferStatus, waitlist : BOOLEAN]

AdmissionsTypeOK ==
    /\ application \in ApplicationStatus
    /\ offer \in [Offers -> OfferStatus \cup {"none"}]
    /\ entry \in [Entries -> EntryStatus \cup {"none"}]
    /\ assessed \in BOOLEAN
    /\ students \in 0 .. 2
    /\ request \in [Sessions -> Requests \cup {NoRequest}]

\* Staff create applications in these states; public forms in the last two.
AdmissionsInit ==
    /\ application \in {"enquiry", "draft", "submitted"}
    /\ offer = [o \in Offers |-> "none"]
    /\ entry = [e \in Entries |-> "none"]
    /\ assessed = FALSE
    /\ students = 0
    /\ request = [s \in Sessions |-> NoRequest]

-----------------------------------------------------------------------------
(* The status machine.                                                      *)

\* Mutant: an acceptance may be turned into a rejection.
ForgivingTransitions(from) ==
    CASE from = "accepted" -> {"withdrawn", "rejected"}
      [] from = "offer_made" -> {"accepted", "rejected", "withdrawn", "waiting_list"}
      [] OTHER -> ApplicationStatus \ {"enrolled", "accepted"}

\* APPLICATION_STATUS_TRANSITIONS, and the same table in the database, which
\* adds the step to enrolled.
Transitions(from) ==
    CASE from = "enquiry" -> {"draft", "submitted", "withdrawn"}
      [] from = "draft" -> {"submitted", "withdrawn"}
      [] from = "submitted" ->
            {"under_review", "information_required", "assessment_pending", "withdrawn"}
      [] from = "under_review" ->
            {"information_required", "assessment_pending", "offer_pending", "offer_made",
             "waiting_list", "rejected", "withdrawn", "deferred"}
      [] from = "information_required" -> {"submitted", "under_review", "withdrawn"}
      [] from = "assessment_pending" ->
            {"assessment_completed", "under_review", "withdrawn", "rejected"}
      [] from = "assessment_completed" ->
            {"under_review", "offer_pending", "offer_made", "waiting_list", "rejected",
             "withdrawn"}
      [] from = "waiting_list" ->
            {"offer_pending", "offer_made", "under_review", "rejected", "withdrawn", "deferred"}
      [] from = "offer_pending" -> {"offer_made", "waiting_list", "withdrawn", "rejected"}
      [] from = "offer_made" -> {"accepted", "rejected", "withdrawn", "waiting_list"}
      [] from = "accepted" -> {"withdrawn"}
      [] from = "deferred" ->
            {"under_review", "waiting_list", "withdrawn", "rejected", "offer_pending"}
      [] from = "rejected" -> {"under_review"}
      [] from = "withdrawn" -> {"draft", "under_review"}
      [] from = "enrolled" -> {}

\* What a handler asks of the status it read; enrolment is never asked for so.
MayBecome(to) == to # "enrolled" /\ (to = application \/ to \in Transitions(application))

Open(o) == offer[o] = "made"

\* A row that a request has changed and not committed blocks other writers.
Locked(o) ==
    \E s \in Sessions :
        request[s] # NoRequest /\ request[s].kind = "listing" /\ o \in request[s].taken

-----------------------------------------------------------------------------
(* The writes of a request, as values of the rows.                          *)

NewEntry == {e \in Entries : entry[e] = "none"}

\* Mutant: only the route of the waiting list makes an entry.
LeavesEntries(to) == entry' = entry

\* admissions_waiting_list_sync_tg, after an update of the status to `to`.
SyncWaitingList(to) ==
    CASE to = "waiting_list" /\ (\A e \in Entries : entry[e] # "active") ->
            \E e \in NewEntry : entry' = [entry EXCEPT ![e] = "active"]
      [] to # "waiting_list" /\ application = "waiting_list" ->
            entry' = [e \in Entries |->
                         IF entry[e] # "active" THEN entry[e]
                         ELSE IF to \in {"offer_made", "offer_pending"} THEN "offered"
                         ELSE "removed"]
      [] OTHER -> entry' = entry

\* An update of the status, with the triggers: the new status must follow the
\* one the row has now, else the statement fails and the request is undone.
MoveTo(to) ==
    /\ to = application \/ to \in Transitions(application)
    /\ application' = to
    /\ SyncWaitingList(to)

\* An update with `and status in ...`, which may find no row.
MoveFrom(states, to) ==
    IF application \in states THEN MoveTo(to) ELSE UNCHANGED <<application, entry>>

Reads(s, r) ==
    /\ request[s] = NoRequest
    /\ request' = [request EXCEPT ![s] = r]
    /\ UNCHANGED <<application, offer, entry, assessed, students>>

Answered(s) == request' = [request EXCEPT ![s] = NoRequest]

\* A request that throws, or whose process dies, is rolled back.
Abort(s) ==
    /\ request[s] # NoRequest
    /\ Answered(s)
    /\ UNCHANGED <<application, offer, entry, assessed, students>>

-----------------------------------------------------------------------------
(* The handlers.                                                            *)

\* POST /admissions/applications/:id/status
AskStatus(s) == \E to \in ApplicationStatus :
    MayBecome(to) /\ Reads(s, [kind |-> "status", to |-> to])

ChangeStatus(s) ==
    /\ request[s] # NoRequest /\ request[s].kind = "status"
    /\ MoveTo(request[s].to)
    /\ Answered(s)
    /\ UNCHANGED <<offer, assessed, students>>

\* POST /admissions/applications/:id/assessments
AskAssessment(s) ==
    Reads(s, [kind |-> "assess", moves |-> application \in {"under_review", "submitted"}])

ScheduleAssessment(s) ==
    /\ request[s] # NoRequest /\ request[s].kind = "assess"
    /\ assessed' = TRUE
    /\ IF request[s].moves
       THEN MoveFrom({"under_review", "submitted"}, "assessment_pending")
       ELSE UNCHANGED <<application, entry>>
    /\ Answered(s)
    /\ UNCHANGED <<offer, students>>

\* PATCH /admissions/assessments/:id with status completed
AskCompletion(s) == assessed /\ Reads(s, [kind |-> "complete"])

CompleteAssessment(s) ==
    /\ request[s] # NoRequest /\ request[s].kind = "complete"
    /\ MoveFrom({"assessment_pending"}, "assessment_completed")
    /\ Answered(s)
    /\ UNCHANGED <<offer, assessed, students>>

\* POST /admissions/applications/:id/waiting-list
AskWaitingList(s) ==
    /\ MayBecome("waiting_list")
    /\ Reads(s, [kind |-> "list", relist |-> application = "waiting_list"])

\* Its first statement withdraws the open offers.  It does not see an offer
\* that another request is about to commit.
WithdrawOpenOffers(s) ==
    /\ request[s] # NoRequest /\ request[s].kind = "list"
    /\ \A o \in Offers : Open(o) => ~Locked(o)
    /\ request' = [request EXCEPT ![s] =
                      [kind |-> "listing", relist |-> request[s].relist,
                       taken |-> {o \in Offers : Open(o)}]]
    /\ UNCHANGED <<application, offer, entry, assessed, students>>

PlaceOnWaitingList(s) ==
    /\ request[s] # NoRequest /\ request[s].kind = "listing"
    /\ offer' = [o \in Offers |-> IF o \in request[s].taken THEN "withdrawn" ELSE offer[o]]
    /\ IF ~request[s].relist THEN MoveTo("waiting_list")
       ELSE /\ UNCHANGED application
            /\ IF \E e \in Entries : entry[e] = "active" THEN entry' = entry
               ELSE \E e \in NewEntry : entry' = [entry EXCEPT ![e] = "active"]
    /\ Answered(s)
    /\ UNCHANGED <<assessed, students>>

\* PATCH /admissions/waiting-list/:id, one statement; an index admits one
\* active entry.
EditEntry(e, status) ==
    /\ entry[e] \notin {"none", status}
    /\ status = "active" => \A d \in Entries : entry[d] # "active"
    /\ entry' = [entry EXCEPT ![e] = status]
    /\ UNCHANGED <<application, offer, assessed, students, request>>

\* POST /admissions/applications/:id/offers
AskOffer(s) ==
    /\ MayBecome("offer_made")
    /\ \A o \in Offers : ~Open(o)
    /\ Reads(s, [kind |-> "make_offer"])

\* admissions_offers_one_open admits one open offer and waits for writers of
\* a row that may be open.
MakeOffer(s) ==
    /\ request[s] # NoRequest /\ request[s].kind = "make_offer"
    /\ \A o \in Offers : ~Open(o)
    /\ \E o \in Offers :
          /\ offer[o] = "none"
          /\ offer' = [offer EXCEPT ![o] = "made"]
    /\ MoveTo("offer_made")
    /\ Answered(s)
    /\ UNCHANGED <<assessed, students>>

\* PATCH /admissions/offers/:id reads the offer and checks its status ...
AskAnswer(s) == \E o \in Offers, to \in OfferStatus, waitlist \in BOOLEAN :
    /\ offer[o] \notin {"none", to}
    /\ to # "made" => Open(o)
    /\ waitlist => to = "declined"
    /\ Reads(s, [kind |-> "answer_read", offer |-> o, to |-> to, waitlist |-> waitlist])

\* ... then reads the application and checks its status ...
DeclinedBecomes(r) == IF r.waitlist THEN "waiting_list" ELSE "rejected"

CheckAnswer(s) ==
    /\ request[s] # NoRequest /\ request[s].kind = "answer_read"
    /\ CASE request[s].to = "accepted" -> MayBecome("accepted")
         [] request[s].to = "declined" -> MayBecome(DeclinedBecomes(request[s]))
         [] request[s].to \in {"expired", "withdrawn"} ->
               application \notin {"accepted", "enrolled"}
         [] OTHER -> TRUE
    /\ request' = [request EXCEPT ![s].kind = "answer"]
    /\ UNCHANGED <<application, offer, entry, assessed, students>>

\* ... then writes both.  The update of the offer has no condition on its
\* status.
AnswerOffer(s) ==
    /\ request[s] # NoRequest /\ request[s].kind = "answer"
    /\ LET r == request[s] IN
       /\ ~Locked(r.offer)
       /\ r.to = "made" => \A o \in Offers \ {r.offer} : ~Open(o)
       /\ offer' = [offer EXCEPT ![r.offer] = r.to]
       /\ CASE r.to = "accepted" -> MoveTo("accepted")
            [] r.to = "declined" -> MoveTo(DeclinedBecomes(r))
            [] r.to \in {"expired", "withdrawn"} -> MoveFrom({"offer_made"}, "withdrawn")
            [] r.to = "made" -> UNCHANGED <<application, entry>>
    /\ Answered(s)
    /\ UNCHANGED <<assessed, students>>

\* POST /admissions/applications/:id/enrol
AskEnrolment(s) ==
    application \in {"accepted", "enrolled"} /\ Reads(s, [kind |-> "enrol"])

\* Mutant: the function asks what the handler has asked.
ConvertsAgain == application \in {"accepted", "enrolled"}

\* What enrol_admitted_applicant asks of the row it has locked, and the trigger
\* again, when no pupil was made of the application before.
MayConvert == application = "accepted"

\* The pupil is a new one or one the school has; the application is enrolled,
\* and so are its entries.  A second call finds the pupil and changes nothing.
Enrol(s) ==
    /\ request[s] # NoRequest /\ request[s].kind = "enrol"
    /\ \/ application = "enrolled" /\ UNCHANGED <<application, entry, students>>
       \/ /\ MayConvert
          /\ application' = "enrolled"
          /\ students' = students + 1
          /\ entry' = [e \in Entries |->
                          IF entry[e] \in {"active", "offered"} THEN "enrolled" ELSE entry[e]]
    /\ Answered(s)
    /\ UNCHANGED <<offer, assessed>>

Asks(s) ==
    \/ AskStatus(s) \/ AskAssessment(s) \/ AskCompletion(s) \/ AskWaitingList(s)
    \/ AskOffer(s) \/ AskAnswer(s) \/ AskEnrolment(s)

Writes(s) ==
    \/ ChangeStatus(s) \/ ScheduleAssessment(s) \/ CompleteAssessment(s)
    \/ WithdrawOpenOffers(s) \/ PlaceOnWaitingList(s)
    \/ MakeOffer(s) \/ CheckAnswer(s) \/ AnswerOffer(s) \/ Enrol(s)

AdmissionsNext ==
    \/ \E s \in Sessions : Asks(s) \/ Writes(s) \/ Abort(s)
    \/ \E e \in Entries, status \in EntryStatus : EditEntry(e, status)

AdmissionsSpec == AdmissionsInit /\ [][AdmissionsNext]_admissionsVars

-----------------------------------------------------------------------------
(* Safety.                                                                  *)

\* One pupil is made of an enrolled application and none of any other, although
\* requests to enrol repeat, and race with one another and with a withdrawal.
EnrolledOnce == students = IF application = "enrolled" THEN 1 ELSE 0

\* The parents' withdrawal counts: a request that read the application before
\* it was withdrawn neither enrols the child nor makes an offer nor lists it.
WithdrawnIsRespected ==
    [][application = "withdrawn"
          => application' \in {"withdrawn", "draft", "under_review"}]_admissionsVars

\* What is recorded on an offer and what it means for the application become
\* true together or not at all, also when the answer was checked against rows
\* that have changed since.
DecisionsAreJoint ==
    [][\A o \in Offers : offer'[o] # offer[o] =>
          CASE offer'[o] = "accepted" -> application' = "accepted"
            [] offer'[o] = "declined" -> application' \in {"rejected", "waiting_list"}
            [] offer'[o] = "expired"  -> application' # "offer_made"
            [] OTHER -> TRUE]_admissionsVars

\* Two members of staff record two answers of the family: while the application
\* stands accepted, its accepted offer is not declined.
AcceptanceIsNotDeclined ==
    [][\A o \in Offers :
          offer[o] = "accepted" /\ application \in {"accepted", "enrolled"}
             => offer'[o] # "declined"]_admissionsVars

\* By whichever route an application gets on the waiting list, by its status,
\* the list or a declined offer, it has an active entry then; and none when it
\* leaves the list.
WaitingListIsListed ==
    [][(application = "waiting_list") # (application' = "waiting_list")
          => (application' = "waiting_list" <=> \E e \in Entries : entry'[e] = "active")
      ]_admissionsVars

\* The rows of an admission have their types, and an application makes one pupil
\* when it is enrolled and none before.
AdmissionsInv == AdmissionsTypeOK /\ EnrolledOnce

\* What the family has answered is recorded on the offer and the application
\* together, and stands, whoever works on the application with a copy read before
\* the answer: a withdrawal, and the acceptance of an offer.
AnswersStand == DecisionsAreJoint /\ WithdrawnIsRespected /\ AcceptanceIsNotDeclined
=============================================================================
