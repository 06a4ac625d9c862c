------------------------- MODULE SchoolOfficeProofs -------------------------
(***************************************************************************)
(* Theorems about AdmissionsWorkflow, for every number of members of staff *)
(* at work on an application and of offers and entries of it: one pupil is *)
(* made of it at most, the answers of the family stand, and the waiting    *)
(* list has an entry of it when it says so.                                *)
(*                                                                         *)
(* Theorems about TimetableLessons, for every number of lessons and of     *)
(* requests and every length of the year: no class and no teacher is in two *)
(* places unless requests overlapped, and what was taught stands.  The two *)
(* share no state.                                                         *)
(***************************************************************************)
EXTENDS AdmissionsWorkflow, TimetableLessons, TLAPS

-----------------------------------------------------------------------------
(* An application for a place.                                              *)

\* What the triggers do to the application and its entries when its status is
\* written, and what no request can make them do.
LEMMA MoveFollows ==
    ASSUME AdmissionsTypeOK, NEW to \in ApplicationStatus, MoveTo(to)
    PROVE  /\ application' = to /\ application' \in ApplicationStatus
           /\ entry' \in [Entries -> EntryStatus \cup {"none"}]
           /\ application' = "enrolled" <=> application = "enrolled"
           /\ application = "withdrawn" => application' \in {"withdrawn", "draft", "under_review"}
           /\ application \in {"accepted", "enrolled"} =>
                application' \in {application, "withdrawn"}
           /\ (application = "waiting_list") # (application' = "waiting_list") =>
                (application' = "waiting_list" <=> \E e \in Entries : entry'[e] = "active")
<1>1. application' = to /\ SyncWaitingList(to) /\ (to = application \/ to \in Transitions(application))
  BY DEF MoveTo
<1>2. entry \in [Entries -> EntryStatus \cup {"none"}] /\ application \in ApplicationStatus
  BY DEF AdmissionsTypeOK
<1>3. /\ Transitions("withdrawn") = {"draft", "under_review"}
      /\ Transitions("accepted") = {"withdrawn"}
      /\ Transitions("enrolled") = {}
      /\ \A from \in ApplicationStatus : "enrolled" \notin Transitions(from)
  BY DEF Transitions, ApplicationStatus
<1>4. CASE to = "waiting_list" /\ \A e \in Entries : entry[e] # "active"
  <2>1. PICK e \in NewEntry : entry' = [entry EXCEPT ![e] = "active"]
    BY <1>1, <1>4 DEF SyncWaitingList
  <2>2. entry'[e] = "active" /\ e \in Entries /\ entry' \in [Entries -> EntryStatus \cup {"none"}]
    BY <1>2, <2>1 DEF NewEntry, EntryStatus
  <2> QED
    BY <1>1, <1>2, <1>3, <1>4, <2>2
<1>5. CASE to # "waiting_list" /\ application = "waiting_list"
  <2>1. entry' = [e \in Entries |->
                     IF entry[e] # "active" THEN entry[e]
                     ELSE IF to \in {"offer_made", "offer_pending"} THEN "offered" ELSE "removed"]
    BY <1>1, <1>5 DEF SyncWaitingList
  <2>2. /\ entry' \in [Entries -> EntryStatus \cup {"none"}]
        /\ \A e \in Entries : entry'[e] # "active"
    BY <1>2, <2>1 DEF EntryStatus
  <2> QED
    BY <1>1, <1>2, <1>3, <1>5, <2>2
<1>6. CASE /\ ~(to = "waiting_list" /\ \A e \in Entries : entry[e] # "active")
           /\ ~(to # "waiting_list" /\ application = "waiting_list")
  <2>1. entry' = entry
    BY <1>1, <1>6 DEF SyncWaitingList
  <2> QED
    BY <1>1, <1>2, <1>3, <1>6, <2>1
<1> QED
  BY <1>4, <1>5, <1>6

\* The kinds of requests, and what each carries.
LEMMA RequestCarries ==
    ASSUME AdmissionsTypeOK, NEW s \in Sessions, request[s] # NoRequest
    PROVE  /\ request[s].kind = "status" => request[s].to \in ApplicationStatus
           /\ request[s].kind \in {"list", "listing"} => request[s].relist \in BOOLEAN
           /\ request[s].kind = "listing" => request[s].taken \subseteq Offers
           /\ request[s].kind \in {"answer_read", "answer"} =>
                /\ request[s].offer \in Offers /\ request[s].to \in OfferStatus
                /\ request[s].waitlist \in BOOLEAN
                /\ request[s] = [kind |-> request[s].kind, offer |-> request[s].offer,
                                 to |-> request[s].to, waitlist |-> request[s].waitlist]
<1>1. request[s] \in Requests
  BY DEF AdmissionsTypeOK
<1> QED
  BY <1>1 DEF Requests

\* What a step does to the application, its entries and its pupils: it writes a new
\* status, with the triggers; or it leaves the status alone, and what it asks of the
\* offers; or it enrols the pupil.
Moves == \E to \in ApplicationStatus : MoveTo(to) /\ students' = students
Rests == application' = application /\ students' = students
Enrols == /\ application = "accepted" /\ application' = "enrolled"
          /\ students' = students + 1

\* What the answer on an offer means for the application is written with it.
Joint ==
    \A o \in Offers : offer'[o] # offer[o] =>
      CASE offer'[o] = "accepted" -> application' = "accepted"
        [] offer'[o] = "declined" -> application' \in {"rejected", "waiting_list"}
        [] offer'[o] = "expired"  -> application' # "offer_made"
        [] OTHER -> TRUE

\* Every step is of one of these kinds, and keeps the types.
LEMMA AdmissionsStep ==
    ASSUME AdmissionsTypeOK, students \in 0 .. 1, [AdmissionsNext]_admissionsVars
    PROVE  AdmissionsTypeOK' /\ (Moves \/ Rests \/ Enrols) /\ Joint
<1> DEFINE Types == /\ application' \in ApplicationStatus
                    /\ offer' \in [Offers -> OfferStatus \cup {"none"}]
                    /\ entry' \in [Entries -> EntryStatus \cup {"none"}]
                    /\ assessed' \in BOOLEAN /\ students' \in 0 .. 2
                    /\ request' \in [Sessions -> Requests \cup {NoRequest}]
           Goal == Types /\ (Moves \/ Rests \/ Enrols) /\ Joint
<1>1. /\ application \in ApplicationStatus
      /\ offer \in [Offers -> OfferStatus \cup {"none"}]
      /\ entry \in [Entries -> EntryStatus \cup {"none"}]
      /\ assessed \in BOOLEAN
      /\ request \in [Sessions -> Requests \cup {NoRequest}]
  BY DEF AdmissionsTypeOK
<1>2. ASSUME NEW to \in ApplicationStatus, MoveTo(to), students' = students
      PROVE  /\ Moves /\ application' \in ApplicationStatus
             /\ entry' \in [Entries -> EntryStatus \cup {"none"}]
  BY <1>2, MoveFollows DEF Moves
<1>3. ASSUME NEW states, NEW to \in ApplicationStatus, MoveFrom(states, to), students' = students
      PROVE  /\ Moves \/ Rests
             /\ application' \in ApplicationStatus
             /\ entry' \in [Entries -> EntryStatus \cup {"none"}]
             /\ application' = to \/ (application' = application /\ application \notin states)
  BY <1>1, <1>3, MoveFollows DEF MoveFrom, Moves, Rests
<1>4. ASSUME offer' = offer
      PROVE  Joint
  BY <1>4 DEF Joint
<1>5. ASSUME NEW s \in Sessions, Answered(s)
      PROVE  request' \in [Sessions -> Requests \cup {NoRequest}]
  BY <1>1, <1>5 DEF Answered
<1>6. ASSUME UNCHANGED <<application, offer, entry, assessed, students>>,
             request' \in [Sessions -> Requests \cup {NoRequest}]
      PROVE  Goal
  BY <1>1, <1>4, <1>6 DEF Rests
<1>7. ASSUME NEW s \in Sessions, Asks(s)
      PROVE  Goal
  <2>1. ASSUME NEW r \in Requests, Reads(s, r)
        PROVE  Goal
    BY <1>1, <1>6, <2>1 DEF Reads
  <2>2. ASSUME NEW to \in ApplicationStatus, Reads(s, [kind |-> "status", to |-> to])
        PROVE  Goal
    BY <2>1, <2>2 DEF Requests
  <2>3. ASSUME NEW b \in BOOLEAN, Reads(s, [kind |-> "assess", moves |-> b])
        PROVE  Goal
    BY <2>1, <2>3 DEF Requests
  <2>4. ASSUME NEW b \in BOOLEAN, Reads(s, [kind |-> "list", relist |-> b])
        PROVE  Goal
    BY <2>1, <2>4 DEF Requests
  <2>5. ASSUME NEW k \in {"complete", "make_offer", "enrol"}, Reads(s, [kind |-> k])
        PROVE  Goal
    BY <2>1, <2>5 DEF Requests
  <2>6. ASSUME NEW o \in Offers, NEW to \in OfferStatus, NEW b \in BOOLEAN,
               Reads(s, [kind |-> "answer_read", offer |-> o, to |-> to, waitlist |-> b])
        PROVE  Goal
    BY <2>1, <2>6 DEF Requests
  <2>7. (application \in {"under_review", "submitted"}) \in BOOLEAN
        /\ (application = "waiting_list") \in BOOLEAN
    OBVIOUS
  <2> HIDE DEF Goal
  <2> QED
    BY <1>7, <2>2, <2>3, <2>4, <2>5, <2>6, <2>7
    DEF Asks, AskStatus, AskAssessment, AskCompletion, AskWaitingList, AskOffer, AskAnswer,
        AskEnrolment
<1>8. ASSUME NEW s \in Sessions, Abort(s)
      PROVE  Goal
  BY <1>5, <1>6, <1>8 DEF Abort
<1>9. ASSUME NEW s \in Sessions, ChangeStatus(s)
      PROVE  Goal
  <2>1. request[s].to \in ApplicationStatus
    BY <1>9, RequestCarries DEF ChangeStatus
  <2> QED
    BY <1>1, <1>2, <1>4, <1>5, <1>9, <2>1 DEF ChangeStatus
<1>10. ASSUME NEW s \in Sessions, ScheduleAssessment(s)
       PROVE  Goal
  <2>1. "assessment_pending" \in ApplicationStatus
    BY DEF ApplicationStatus
  <2> QED
    BY <1>1, <1>3, <1>4, <1>5, <1>10, <2>1 DEF ScheduleAssessment, Rests
<1>11. ASSUME NEW s \in Sessions, CompleteAssessment(s)
       PROVE  Goal
  <2>1. "assessment_completed" \in ApplicationStatus
    BY DEF ApplicationStatus
  <2> QED
    BY <1>1, <1>3, <1>4, <1>5, <1>11, <2>1 DEF CompleteAssessment
<1>12. ASSUME NEW s \in Sessions, WithdrawOpenOffers(s)
       PROVE  Goal
  <2>1. request[s].relist \in BOOLEAN
    BY <1>12, RequestCarries DEF WithdrawOpenOffers
  <2>2. request' \in [Sessions -> Requests \cup {NoRequest}]
    BY <1>1, <1>12, <2>1 DEF WithdrawOpenOffers, Requests
  <2> QED
    BY <1>6, <1>12, <2>2 DEF WithdrawOpenOffers
<1>13. ASSUME NEW s \in Sessions, PlaceOnWaitingList(s)
       PROVE  Goal
  <2>1. offer' \in [Offers -> OfferStatus \cup {"none"}] /\ Joint
    BY <1>1, <1>13 DEF PlaceOnWaitingList, OfferStatus, Joint
  <2>2. CASE ~request[s].relist
    <3>1. "waiting_list" \in ApplicationStatus /\ MoveTo("waiting_list")
      BY <1>13, <2>2 DEF PlaceOnWaitingList, ApplicationStatus
    <3> QED
      BY <1>1, <1>2, <1>5, <1>13, <2>1, <3>1 DEF PlaceOnWaitingList
  <2>3. CASE request[s].relist
    <3>1. entry' \in [Entries -> EntryStatus \cup {"none"}] /\ application' = application
      BY <1>1, <1>13, <2>3 DEF PlaceOnWaitingList, EntryStatus
    <3> QED
      BY <1>1, <1>5, <1>13, <2>1, <3>1 DEF PlaceOnWaitingList, Rests
  <2> QED
    BY <2>2, <2>3
<1>14. ASSUME NEW s \in Sessions, MakeOffer(s)
       PROVE  Goal
  <2>1. offer' \in [Offers -> OfferStatus \cup {"none"}] /\ Joint
    BY <1>1, <1>14 DEF MakeOffer, OfferStatus, Joint
  <2>2. "offer_made" \in ApplicationStatus
    BY DEF ApplicationStatus
  <2> QED
    BY <1>1, <1>2, <1>5, <1>14, <2>1, <2>2 DEF MakeOffer
<1>15. ASSUME NEW s \in Sessions, CheckAnswer(s)
       PROVE  Goal
  <2>1. /\ request[s].offer \in Offers /\ request[s].to \in OfferStatus
        /\ request[s].waitlist \in BOOLEAN
        /\ request[s] = [kind |-> request[s].kind, offer |-> request[s].offer,
                         to |-> request[s].to, waitlist |-> request[s].waitlist]
    BY <1>15, RequestCarries DEF CheckAnswer
  <2>2. [request[s] EXCEPT !.kind = "answer"]
          = [kind |-> "answer", offer |-> request[s].offer, to |-> request[s].to,
             waitlist |-> request[s].waitlist]
    BY <2>1
  <2>3. request' \in [Sessions -> Requests \cup {NoRequest}]
    BY <1>1, <1>15, <2>1, <2>2 DEF CheckAnswer, Requests
  <2> QED
    BY <1>6, <1>15, <2>3 DEF CheckAnswer
<1>16. ASSUME NEW s \in Sessions, AnswerOffer(s)
       PROVE  Goal
  <2> DEFINE r == request[s]
  <2>1. r.offer \in Offers /\ r.to \in OfferStatus /\ r.waitlist \in BOOLEAN
    BY <1>16, RequestCarries DEF AnswerOffer
  <2>2. /\ offer' = [offer EXCEPT ![r.offer] = r.to] /\ students' = students
        /\ assessed' = assessed /\ Answered(s)
    BY <1>16 DEF AnswerOffer
  <2>3. /\ offer' \in [Offers -> OfferStatus \cup {"none"}]
        /\ \A o \in Offers : offer'[o] # offer[o] => offer'[o] = r.to
    BY <1>1, <2>1, <2>2
  <2>4. CASE r.to = "accepted"
    <3>1. "accepted" \in ApplicationStatus /\ MoveTo("accepted")
      BY <1>16, <2>4 DEF AnswerOffer, ApplicationStatus
    <3>2. application' = "accepted"
      BY <3>1 DEF MoveTo
    <3>3. Joint
      BY <2>3, <2>4, <3>2 DEF Joint
    <3> QED
      BY <1>1, <1>2, <1>5, <2>2, <2>3, <3>1, <3>3
  <2>5. CASE r.to = "declined"
    <3>1. /\ DeclinedBecomes(r) \in {"waiting_list", "rejected"}
          /\ DeclinedBecomes(r) \in ApplicationStatus /\ MoveTo(DeclinedBecomes(r))
      BY <1>16, <2>5 DEF AnswerOffer, ApplicationStatus, DeclinedBecomes
    <3>2. application' \in {"waiting_list", "rejected"}
      BY <3>1 DEF MoveTo
    <3>3. Joint
      BY <2>3, <2>5, <3>2 DEF Joint
    <3> QED
      BY <1>1, <1>2, <1>5, <2>2, <2>3, <3>1, <3>3
  <2>6. CASE r.to \in {"expired", "withdrawn"}
    <3>1. "withdrawn" \in ApplicationStatus /\ MoveFrom({"offer_made"}, "withdrawn")
      BY <1>16, <2>6 DEF AnswerOffer, ApplicationStatus
    <3>2. /\ application' # "offer_made" /\ (Moves \/ Rests)
          /\ application' \in ApplicationStatus
          /\ entry' \in [Entries -> EntryStatus \cup {"none"}]
      BY <1>3, <2>2, <3>1
    <3>3. Joint
      BY <2>3, <2>6, <3>2 DEF Joint
    <3> QED
      BY <1>1, <1>5, <2>2, <2>3, <3>2, <3>3
  <2>7. CASE r.to = "made"
    <3>1. UNCHANGED <<application, entry>>
      BY <1>16, <2>7 DEF AnswerOffer
    <3>2. Joint
      BY <2>3, <2>7 DEF Joint
    <3> QED
      BY <1>1, <1>5, <2>2, <2>3, <3>1, <3>2 DEF Rests
  <2> QED
    BY <2>1, <2>4, <2>5, <2>6, <2>7 DEF OfferStatus
<1>17. ASSUME NEW s \in Sessions, Enrol(s)
       PROVE  Goal
  <2>1. CASE application = "enrolled" /\ UNCHANGED <<application, entry, students>>
    BY <1>1, <1>4, <1>5, <1>17, <2>1 DEF Enrol, Rests
  <2>2. CASE /\ MayConvert /\ application' = "enrolled" /\ students' = students + 1
             /\ entry' = [e \in Entries |->
                  IF entry[e] \in {"active", "offered"} THEN "enrolled" ELSE entry[e]]
    <3>1. Enrols /\ students' \in 0 .. 2
      BY <2>2 DEF MayConvert, Enrols
    <3>2. /\ entry' \in [Entries -> EntryStatus \cup {"none"}]
          /\ application' \in ApplicationStatus
      BY <1>1, <2>2 DEF EntryStatus, ApplicationStatus
    <3> QED
      BY <1>1, <1>4, <1>5, <1>17, <3>1, <3>2 DEF Enrol
  <2> QED
    BY <1>17, <2>1, <2>2 DEF Enrol
<1>18. ASSUME NEW e \in Entries, NEW status \in EntryStatus, EditEntry(e, status)
       PROVE  Goal
  <2>1. entry' \in [Entries -> EntryStatus \cup {"none"}]
    BY <1>1, <1>18 DEF EditEntry
  <2> QED
    BY <1>1, <1>4, <1>18, <2>1 DEF EditEntry, Rests
<1>19. ASSUME UNCHANGED admissionsVars
       PROVE  Goal
  BY <1>1, <1>6, <1>19 DEF admissionsVars
<1> HIDE DEF Goal
<1>20. Goal
  BY <1>7, <1>8, <1>9, <1>10, <1>11, <1>12, <1>13, <1>14, <1>15, <1>16, <1>17, <1>18, <1>19
  DEF AdmissionsNext, Writes
<1> QED
  BY <1>20 DEF Goal, AdmissionsTypeOK

\* No request makes more of an application than one pupil.
LEMMA AdmissionsInvStep == AdmissionsInv /\ [AdmissionsNext]_admissionsVars => AdmissionsInv'
<1> SUFFICES ASSUME AdmissionsInv, [AdmissionsNext]_admissionsVars PROVE AdmissionsInv'
  OBVIOUS
<1>1. AdmissionsTypeOK /\ EnrolledOnce /\ students \in 0 .. 1
  BY DEF AdmissionsInv, EnrolledOnce
<1>2. AdmissionsTypeOK' /\ (Moves \/ Rests \/ Enrols)
  BY <1>1, AdmissionsStep
<1>3. Moves => students' = students /\ (application' = "enrolled" <=> application = "enrolled")
  BY <1>1, MoveFollows DEF Moves
<1> QED
  BY <1>1, <1>2, <1>3 DEF AdmissionsInv, EnrolledOnce, Rests, Enrols

\* The inductive invariant holds in every state an application reaches.
LEMMA AdmissionsHold == AdmissionsSpec => []AdmissionsInv
<1>1. ASSUME AdmissionsInit PROVE AdmissionsInv
  <2>1. application \in ApplicationStatus \ {"enrolled"}
    BY <1>1 DEF AdmissionsInit, ApplicationStatus
  <2>2. assessed \in BOOLEAN
    BY <1>1 DEF AdmissionsInit
  <2>3. /\ offer \in [Offers -> OfferStatus \cup {"none"}]
        /\ entry \in [Entries -> EntryStatus \cup {"none"}]
        /\ request \in [Sessions -> Requests \cup {NoRequest}]
        /\ students = 0
    BY <1>1 DEF AdmissionsInit
  <2> QED
    BY <2>1, <2>2, <2>3 DEF AdmissionsInv, AdmissionsTypeOK, EnrolledOnce
<1> QED
  BY <1>1, AdmissionsInvStep, PTL DEF AdmissionsSpec

-----------------------------------------------------------------------------
(* Results.                                                                 *)

\* An enrolled application has made one pupil, and any other none, whichever
\* requests to enrol, to withdraw and to change the status race.
THEOREM OnePupil == AdmissionsSpec => []AdmissionsInv
  BY AdmissionsHold

\* What the family has answered stands, and is recorded on the offer and on the
\* application together.
THEOREM AnswersAlwaysStand == AdmissionsSpec => AnswersStand
<1> DEFINE Respected == application = "withdrawn" =>
                          application' \in {"withdrawn", "draft", "under_review"}
           Kept == \A o \in Offers :
                     offer[o] = "accepted" /\ application \in {"accepted", "enrolled"}
                       => offer'[o] # "declined"
<1>1. ASSUME AdmissionsInv, [AdmissionsNext]_admissionsVars
      PROVE  Joint /\ Respected /\ Kept
  <2>1. AdmissionsTypeOK /\ students \in 0 .. 1
    BY <1>1 DEF AdmissionsInv, EnrolledOnce
  <2>2. (Moves \/ Rests \/ Enrols) /\ Joint
    BY <1>1, <2>1, AdmissionsStep
  <2>3. Moves => /\ Respected
                 /\ application \in {"accepted", "enrolled"} =>
                      application' \in {application, "withdrawn"}
    BY <2>1, MoveFollows DEF Moves
  <2>4. Respected
    BY <2>2, <2>3 DEF Rests, Enrols
  <2>5. application \in {"accepted", "enrolled"} =>
          application' \in {"accepted", "enrolled", "withdrawn"}
    BY <2>2, <2>3 DEF Rests, Enrols
  <2>6. Kept
    BY <2>2, <2>5 DEF Joint
  <2> QED
    BY <2>2, <2>4, <2>6
<1>2. AdmissionsInv /\ [AdmissionsNext]_admissionsVars => [Joint]_admissionsVars
  BY <1>1
<1>3. AdmissionsInv /\ [AdmissionsNext]_admissionsVars => [Respected]_admissionsVars
  BY <1>1
<1>4. AdmissionsInv /\ [AdmissionsNext]_admissionsVars => [Kept]_admissionsVars
  BY <1>1
<1>5. AdmissionsSpec => DecisionsAreJoint
  BY <1>2, AdmissionsHold, PTL DEF AdmissionsSpec, DecisionsAreJoint, Joint
<1>6. AdmissionsSpec => WithdrawnIsRespected
  BY <1>3, AdmissionsHold, PTL DEF AdmissionsSpec, WithdrawnIsRespected
<1>7. AdmissionsSpec => AcceptanceIsNotDeclined
  BY <1>4, AdmissionsHold, PTL DEF AdmissionsSpec, AcceptanceIsNotDeclined
<1> QED
  BY <1>5, <1>6, <1>7, PTL DEF AnswersStand

\* An application that gets on the waiting list, by whichever route, has an active
\* entry then, and none when it leaves.
THEOREM WaitingIsAlwaysListed == AdmissionsSpec => WaitingListIsListed
<1> DEFINE Listed ==
      (application = "waiting_list") # (application' = "waiting_list")
        => (application' = "waiting_list" <=> \E e \in Entries : entry'[e] = "active")
<1>1. AdmissionsInv /\ [AdmissionsNext]_admissionsVars => [Listed]_admissionsVars
  <2> SUFFICES ASSUME AdmissionsInv, [AdmissionsNext]_admissionsVars PROVE Listed
    OBVIOUS
  <2>1. AdmissionsTypeOK /\ students \in 0 .. 1
    BY DEF AdmissionsInv, EnrolledOnce
  <2>2. Moves \/ Rests \/ Enrols
    BY <2>1, AdmissionsStep
  <2>3. Moves => Listed
    BY <2>1, MoveFollows DEF Moves
  <2> QED
    BY <2>2, <2>3 DEF Rests, Enrols
<1> QED
  BY <1>1, AdmissionsHold, PTL DEF AdmissionsSpec, WaitingListIsListed

-----------------------------------------------------------------------------
(* The timetable: the inductive invariant.                                   *)

\* What a request has written: rows of some lessons, or their deletion.
WrittenRows == UNION {[S -> Rows \cup {None}] : S \in SUBSET Lessons}

\* The states of a request: it has read a lesson,
ReadDesks ==
    [op : {"rewrite", "split", "amend"}, lesson : Lessons, row : Rows, used : BOOLEAN, on : Days]

\* it has written lessons,
WrittenDesks ==
    [op : {"written"}, rows : WrittenRows, met : SUBSET (Lessons \cup Covers), late : BOOLEAN]

\* or a cover,
CoverDesks == [op : {"covering"}, cover : Covers, met : SUBSET (Lessons \cup Covers)]

\* or there is none.
DeskStates == {FreeDesk} \cup ReadDesks \cup WrittenDesks \cup CoverDesks

\* The desks are in one of these.
DesksTypeOK == desks \in [Desks -> DeskStates]

\* What a request has read of the lifecycle when it decided.
ReadingIsRight(x) ==
    /\ x.row.from <= x.row.until
    /\ x.op = "rewrite" => x.row.from > x.on
    /\ x.op = "split" => x.row.active

\* What a request that was not late does to the past: nothing.
KeepsThePast(old, new) ==
    \A d \in Days : d < day /\ Teaches(old, d) =>
        /\ Teaches(new, d)
        /\ new.class = old.class /\ new.teacher = old.teacher
        /\ new.time = old.time \/ old.linked

\* A request that was not late keeps the past of what it writes, and the days of
\* a lesson that it splits.
RowsKeepThePast(rows) ==
    /\ \A e \in DOMAIN rows : KeepsThePast(lesson[e], rows[e])
    /\ \A n, e \in DOMAIN rows : lesson[n] = None /\ lesson[e] # None =>
          /\ DaysOf(rows[e]) \cup DaysOf(rows[n]) = DaysOf(lesson[e])
          /\ DaysOf(rows[e]) \cap DaysOf(rows[n]) = {}

\* The lessons that a request has written clash with nothing but what others
\* committed since it looked.
WritingIsRight(x) ==
    /\ \A e \in DOMAIN x.rows : x.rows[e] # None => x.rows[e].from <= x.rows[e].until
    /\ \A e \in DOMAIN x.rows, f \in Lessons :
          e # f /\ Clash(x.rows[e], After(x.rows)[f]) => f \in x.met
    /\ ~x.late => RowsKeepThePast(x.rows)

\* A cover under way meets nothing but what others committed since it looked.
CoveringIsRight(x) ==
    LET c == x.cover
    IN  /\ lesson[c.lesson] # None
        /\ \A f \in Lessons : CoverClash(c, f) => f \in x.met \/ c.lesson \in x.met
        /\ \A d \in covers : TwoCovers(c, d) =>
              d \in x.met \/ c.lesson \in x.met \/ d.lesson \in x.met

\* Each of the three where it applies.
DeskIsRight(x) ==
    /\ x.op \in {"rewrite", "split", "amend"} => ReadingIsRight(x)
    /\ x.op = "written" => WritingIsRight(x)
    /\ x.op = "covering" => CoveringIsRight(x)

\* Of every request.
DesksAreRight == \A r \in Desks : DeskIsRight(desks[r])

\* No lesson is in the hands of two requests, nor deleted under a cover.
Apart(x, y) ==
    /\ x.op = "written" /\ y.op = "written" => DOMAIN x.rows \cap DOMAIN y.rows = {}
    /\ x.op = "covering" /\ y.op = "written" =>
          (x.cover.lesson \in DOMAIN y.rows => y.rows[x.cover.lesson] # None)

\* Of every two requests.
HandsAreApart == \A q, r \in Desks : q # r => Apart(desks[q], desks[r])

\* Two lessons that clash were written by requests that overlapped.
ClashesAreKnown ==
    \A e, f \in Lessons : e # f /\ Clash(lesson[e], lesson[f]) => {e, f} \in overlapped

\* The conjunction is inductive.
LessonsAreSound ==
    /\ LessonsTypeOK /\ DesksTypeOK
    /\ DesksAreRight /\ HandsAreApart
    /\ ClashesAreKnown /\ CoversAreFree

-----------------------------------------------------------------------------
(* Rows, desks and pairs.                                                   *)

\* What a request has written: rows of some of the lessons, or their deletion.
LEMMA WrittenRowsAre ==
    ASSUME NEW rows
    PROVE  rows \in WrittenRows <=>
              /\ DOMAIN rows \in SUBSET Lessons
              /\ rows \in [DOMAIN rows -> Rows \cup {None}]
<1> DEFINE C(S) == [S -> Rows \cup {None}]
<1>1. rows \in WrittenRows <=> \E S \in SUBSET Lessons : rows \in C(S)
  BY DEF WrittenRows
<1>2. \A S : rows \in C(S) => DOMAIN rows = S OBVIOUS
<1> QED BY <1>1, <1>2

\* Writing rows over the lessons: what the request wrote, and the rest as it is.
LEMMA RowsOverLessons ==
    ASSUME LessonsTypeOK, NEW rows \in WrittenRows
    PROVE  After(rows) \in [Lessons -> Rows \cup {None}]
<1>1. DOMAIN rows \in SUBSET Lessons /\ rows \in [DOMAIN rows -> Rows \cup {None}]
  BY WrittenRowsAre
<1>2. lesson \in [Lessons -> Rows \cup {None}] BY DEF LessonsTypeOK
<1>3. \A e \in Lessons : (IF e \in DOMAIN rows THEN rows[e] ELSE lesson[e]) \in Rows \cup {None}
  BY <1>1, <1>2
<1> QED BY <1>3 DEF After

\* A row of one lesson.
LEMMA OneRow ==
    ASSUME NEW e \in Lessons, NEW row \in Rows \cup {None}
    PROVE  /\ Only(e, row) \in WrittenRows
           /\ DOMAIN Only(e, row) = {e}
           /\ Only(e, row)[e] = row
<1>1. DOMAIN Only(e, row) = {e} /\ Only(e, row)[e] = row BY DEF Only
<1>2. Only(e, row) \in [DOMAIN Only(e, row) -> Rows \cup {None}] BY <1>1 DEF Only
<1> QED BY <1>1, <1>2, WrittenRowsAre

\* What a request is doing tells what is kept of it.
LEMMA DeskKinds ==
    ASSUME NEW x \in DeskStates
    PROVE  /\ x.op = "free" <=> x = FreeDesk
           /\ x.op \in {"rewrite", "split", "amend"} => x \in ReadDesks
           /\ x.op = "written" => x \in WrittenDesks
           /\ x.op = "covering" => x \in CoverDesks
<1>1. x = FreeDesk => x.op = "free" BY DEF FreeDesk
<1>2. x \in ReadDesks => x.op \in {"rewrite", "split", "amend"} BY DEF ReadDesks
<1>3. x \in WrittenDesks => x.op = "written" BY DEF WrittenDesks
<1>4. x \in CoverDesks => x.op = "covering" BY DEF CoverDesks
<1> QED BY <1>1, <1>2, <1>3, <1>4 DEF DeskStates

\* A pair of two sets is in a third.
LEMMA PairsMeet ==
    ASSUME NEW A, NEW B, NEW L
    PROVE  (A \X B) \cap L # {} <=> \E a \in A, b \in B : <<a, b>> \in L
<1>1. ASSUME NEW a \in A, NEW b \in B, <<a, b>> \in L PROVE (A \X B) \cap L # {}
  BY <1>1
<1>2. ASSUME (A \X B) \cap L # {} PROVE \E a \in A, b \in B : <<a, b>> \in L
  <2>1. PICK p \in A \X B : p \in L BY <1>2
  <2>2. p = <<p[1], p[2]>> /\ p[1] \in A /\ p[2] \in B BY <2>1
  <2> QED BY <2>1, <2>2
<1> QED BY <1>1, <1>2

\* Clashes have two sides.
LEMMA ClashIsSymmetric ==
    ASSUME NEW a, NEW b, Clash(a, b)
    PROVE  Clash(b, a)
BY DEF Clash, WindowsMeet

\* Two lessons that are taught at once clash.
LEMMA TwoPlacesClash ==
    ASSUME LessonsTypeOK, NEW e \in Lessons, NEW f \in Lessons, InTwoPlaces(e, f)
    PROVE  Clash(lesson[e], lesson[f])
<1>1. PICK d \in Days :
         /\ Teaches(lesson[e], d) /\ Teaches(lesson[f], d)
         /\ lesson[e].time = lesson[f].time
         /\ lesson[e].class = lesson[f].class \/ lesson[e].teacher = lesson[f].teacher
  BY DEF InTwoPlaces
<1>2. lesson[e] \in Rows /\ lesson[f] \in Rows
  BY <1>1 DEF LessonsTypeOK, Teaches
<1>3. d \in Int /\ lesson[e].from \in Int /\ lesson[e].until \in Int
      /\ lesson[f].from \in Int /\ lesson[f].until \in Int
  BY <1>2 DEF Rows, Days
<1>4. WindowsMeet(lesson[e], lesson[f])
  BY <1>1, <1>3 DEF WindowsMeet, Teaches
<1> QED BY <1>1, <1>4 DEF Clash, Teaches

-----------------------------------------------------------------------------
(* Steps that write no lesson and no cover.                                  *)

\* What is right of a request stays right while no lesson or cover is written.
LEMMA DeskStaysRight ==
    ASSUME NEW x, DeskIsRight(x), UNCHANGED <<day, lesson, covers>>
    PROVE  DeskIsRight(x)'
<1>1. day' = day /\ lesson' = lesson /\ covers' = covers OBVIOUS
<1>2. \A row, d : Teaches(row, d)' = Teaches(row, d) BY <1>1 DEF Teaches
<1>3. \A row : DaysOf(row)' = DaysOf(row) BY <1>1 DEF DaysOf, Teaches
<1>4. \A old, new : KeepsThePast(old, new) => KeepsThePast(old, new)'
  BY <1>1 DEF KeepsThePast, Teaches
<1>5. \A rows : RowsKeepThePast(rows) => RowsKeepThePast(rows)'
  <2> TAKE rows
  <2> HAVE RowsKeepThePast(rows)
  <2>1. ASSUME NEW e \in DOMAIN rows PROVE KeepsThePast(lesson[e], rows[e])'
    <3>1. PICK old : old = lesson[e] OBVIOUS
    <3>2. KeepsThePast(old, rows[e])' BY <1>4, <3>1 DEF RowsKeepThePast
    <3> QED BY <1>1, <3>1, <3>2
  <2>2. \A e : DaysOf(lesson[e])' = DaysOf(lesson[e]) BY <1>1 DEF DaysOf, Teaches
  <2> QED BY <1>1, <1>3, <2>1, <2>2 DEF RowsKeepThePast
<1>6. \A rows : After(rows)' = After(rows) BY <1>1 DEF After
<1>7. \A c, d : (CoverClash(c, d)' <=> CoverClash(c, d)) /\ (TwoCovers(c, d)' <=> TwoCovers(c, d))
  BY <1>1 DEF CoverClash, TwoCovers, Teaches
<1>8. WritingIsRight(x) => WritingIsRight(x)'
  BY <1>5, <1>6 DEF WritingIsRight, Clash, WindowsMeet
<1>9. CoveringIsRight(x) => CoveringIsRight(x)'
  BY <1>1, <1>7 DEF CoveringIsRight
<1> QED BY <1>8, <1>9 DEF DeskIsRight, ReadingIsRight

\* What is committed stays right while no lesson or cover is.
LEMMA CommittedStaysRight ==
    ASSUME LessonsAreSound, UNCHANGED <<day, lesson, covers, overlapped, later>>
    PROVE  ClashesAreKnown' /\ CoversAreFree'
<1>1. lesson' = lesson /\ covers' = covers /\ overlapped' = overlapped /\ later' = later OBVIOUS
<1>2. \A c, d : (CoverClash(c, d)' <=> CoverClash(c, d)) /\ (TwoCovers(c, d)' <=> TwoCovers(c, d))
  BY <1>1 DEF CoverClash, TwoCovers, Teaches
<1>3. ClashesAreKnown'
  BY <1>1 DEF LessonsAreSound, ClashesAreKnown, Clash, WindowsMeet
<1>4. CoversAreFree'
  BY <1>1, <1>2 DEF LessonsAreSound, CoversAreFree
<1> QED BY <1>3, <1>4

\* One request takes a step of its own.
LEMMA OneDeskMoves ==
    ASSUME LessonsAreSound, NEW r \in Desks, NEW x \in DeskStates, DeskIsRight(x),
           desks' = [desks EXCEPT ![r] = x],
           \A q \in Desks : q # r => Apart(desks[q], x) /\ Apart(x, desks[q]),
           UNCHANGED <<day, bell, lesson, covers, marked, overlapped, later>>,
           events' \in 0..MaxEvents
    PROVE  LessonsAreSound'
<1>1. LessonsTypeOK' BY DEF LessonsAreSound, LessonsTypeOK, Covers
<1>2. DesksTypeOK /\ desks \in [Desks -> DeskStates] BY DEF LessonsAreSound, DesksTypeOK
<1>3. DesksTypeOK' BY <1>2 DEF DesksTypeOK
<1>4. \A q \in Desks : desks'[q] = IF q = r THEN x ELSE desks[q] BY <1>2
<1>5. DesksAreRight'
  <2>1. ASSUME NEW q \in Desks PROVE DeskIsRight(desks[q])'
    <3>1. PICK y : y = desks'[q] OBVIOUS
    <3>2. DeskIsRight(y)
      BY <1>4, <3>1 DEF LessonsAreSound, DesksAreRight
    <3>3. DeskIsRight(y)' BY <3>2, DeskStaysRight
    <3> QED BY <3>1, <3>3
  <2> QED BY <2>1 DEF DesksAreRight
<1>6. HandsAreApart'
  BY <1>4 DEF LessonsAreSound, HandsAreApart, Apart
<1> QED BY <1>1, <1>3, <1>5, <1>6, CommittedStaysRight DEF LessonsAreSound

-----------------------------------------------------------------------------
(* Requests write.                                                           *)

\* Rows that keep the past are written, and clash with nothing that is committed.
LEMMA WriteIsSound ==
    ASSUME LessonsAreSound, NEW r \in Desks, NEW rows \in WrittenRows, NEW late \in BOOLEAN,
           Write(r, rows, late), events' \in 0..MaxEvents,
           \A e \in DOMAIN rows : rows[e] # None => rows[e].from <= rows[e].until,
           ~late => RowsKeepThePast(rows)
    PROVE  LessonsAreSound'
<1> DEFINE x == [op |-> "written", rows |-> rows, met |-> {}, late |-> late]
<1>1. x \in WrittenDesks BY DEF WrittenDesks
<1>2. x \in DeskStates BY <1>1 DEF DeskStates
<1>3. x.op = "written" /\ x.rows = rows /\ x.late = late OBVIOUS
<1>4. DOMAIN rows \in SUBSET Lessons BY WrittenRowsAre
<1>5. \A e \in DOMAIN rows, f \in Lessons : e # f => ~Clash(rows[e], After(rows)[f])
  <2>1. \A e \in DOMAIN rows : After(rows)[e] = rows[e] BY <1>4 DEF After
  <2> QED BY <2>1 DEF Write
<1>6. WritingIsRight(x)
  BY <1>3, <1>5 DEF WritingIsRight
<1>7. DeskIsRight(x) BY <1>3, <1>6 DEF DeskIsRight
<1>8. ASSUME NEW q \in Desks, q # r PROVE Apart(desks[q], x) /\ Apart(x, desks[q])
  <2>1. desks[q].op = "written" => DOMAIN desks[q].rows \cap DOMAIN rows = {}
    BY DEF Write, InHand, Writers
  <2>2. desks[q].op = "covering" =>
          (desks[q].cover.lesson \in DOMAIN rows => rows[desks[q].cover.lesson] # None)
    BY DEF Write, Coverings
  <2> QED BY <1>3, <2>1, <2>2 DEF Apart
<1>9. desks' = [desks EXCEPT ![r] = x] BY DEF Write
<1>10. UNCHANGED <<day, bell, lesson, covers, marked, overlapped, later>> BY DEF Write
<1> HIDE DEF x
<1> QED BY <1>2, <1>7, <1>8, <1>9, <1>10, OneDeskMoves

\* One row is written, of which the past is kept.
LEMMA WriteOneIsSound ==
    ASSUME LessonsAreSound, NEW r \in Desks, NEW e \in Lessons, NEW row \in Rows \cup {None},
           NEW late \in BOOLEAN, Write(r, Only(e, row), late), events' \in 0..MaxEvents,
           row # None => row.from <= row.until,
           ~late => KeepsThePast(lesson[e], row)
    PROVE  LessonsAreSound'
<1>1. Only(e, row) \in WrittenRows /\ DOMAIN Only(e, row) = {e} /\ Only(e, row)[e] = row
  BY OneRow
<1>2. ~late => RowsKeepThePast(Only(e, row)) BY <1>1 DEF RowsKeepThePast
<1> QED BY <1>1, <1>2, WriteIsSound

\* What a request has read, and what it may then write of the past.
LEMMA DecidedReads ==
    ASSUME LessonsAreSound, NEW r \in Desks, NEW op \in {"rewrite", "split", "amend"},
           Decided(r, op)
    PROVE  /\ desks[r] \in ReadDesks /\ desks[r].op = op
           /\ desks[r].lesson \in Lessons
           /\ lesson[desks[r].lesson] \in Rows
           /\ lesson[desks[r].lesson].from <= lesson[desks[r].lesson].until
           /\ desks[r].row \in Rows /\ desks[r].row.from <= desks[r].row.until
           /\ desks[r].on \in Days
           /\ Late(r) \in BOOLEAN
           /\ ~Late(r) => lesson[desks[r].lesson] = desks[r].row /\ day = desks[r].on
           /\ op = "rewrite" => desks[r].row.from > desks[r].on
           /\ op = "split" => desks[r].row.active
           /\ events' \in 0..MaxEvents
<1>1. desks[r] \in DeskStates /\ desks[r].op = op
  BY DEF LessonsAreSound, DesksTypeOK, Decided
<1>2. desks[r] \in ReadDesks BY <1>1, DeskKinds
<1>3. desks[r].lesson \in Lessons /\ desks[r].row \in Rows /\ desks[r].on \in Days
  BY <1>2 DEF ReadDesks
<1>4. lesson[desks[r].lesson] \in Rows
      /\ lesson[desks[r].lesson].from <= lesson[desks[r].lesson].until
  BY <1>3 DEF LessonsAreSound, LessonsTypeOK, Decided
<1>5. ReadingIsRight(desks[r]) BY <1>1 DEF LessonsAreSound, DesksAreRight, DeskIsRight
<1>6. Late(r) \in BOOLEAN
      /\ (~Late(r) => lesson[desks[r].lesson] = desks[r].row /\ day = desks[r].on)
  BY DEF Late
<1>7. events' \in 0..MaxEvents BY DEF Decided, LessonsAreSound, LessonsTypeOK
<1> QED BY <1>1, <1>2, <1>3, <1>4, <1>5, <1>6, <1>7 DEF ReadingIsRight

\* A lesson that has not begun has no past.
LEMMA NoPastYet ==
    ASSUME LessonsAreSound, NEW old \in Rows, old.from > day, NEW new
    PROVE  KeepsThePast(old, new)
<1>1. day \in Int /\ old.from \in Int BY DEF LessonsAreSound, LessonsTypeOK, Rows, Days
<1>2. \A d \in Days : d \in Int BY DEF Days
<1> QED BY <1>1, <1>2 DEF KeepsThePast, Teaches

\* A lesson is made.
LEMMA CreateIsSound ==
    ASSUME LessonsAreSound, NEW r \in Desks, NEW e \in Lessons, NEW row \in Rows,
           CreateLesson(r, e, row)
    PROVE  LessonsAreSound'
<1>1. lesson[e] = None BY DEF CreateLesson, Unused
<1>2. KeepsThePast(lesson[e], row) BY <1>1 DEF KeepsThePast, Teaches
<1>3. events' \in 0..MaxEvents
  BY LessonsAssumption DEF CreateLesson, Happens, LessonsAreSound, LessonsTypeOK
<1>4. row.from <= row.until /\ Write(r, Only(e, row), FALSE) BY DEF CreateLesson
<1> QED BY <1>2, <1>3, <1>4, WriteOneIsSound

\* A lesson is changed that has not begun; or its note is, or its withdrawal undone.
LEMMA PatchIsSound ==
    ASSUME LessonsAreSound, NEW r \in Desks, NEW op \in {"rewrite", "amend"}, Decided(r, op),
           NEW row \in Rows, Patch(r, row), row.from <= row.until,
           op = "amend" =>
             \E b \in BOOLEAN : /\ row = [lesson[desks[r].lesson] EXCEPT !.active = b]
                                /\ lesson[desks[r].lesson].active => b
    PROVE  LessonsAreSound'
<1> DEFINE e == desks[r].lesson
           time == IF row.linked THEN bell ELSE desks[r].row.time
           new == [row EXCEPT !.time = time]
<1>1. desks[r].lesson \in Lessons /\ lesson[e] \in Rows /\ desks[r].row \in Rows
      /\ Late(r) \in BOOLEAN /\ events' \in 0..MaxEvents
      /\ (~Late(r) => lesson[e] = desks[r].row /\ day = desks[r].on)
      /\ (op = "rewrite" => desks[r].row.from > desks[r].on)
  BY DecidedReads
<1>2. time \in Times BY <1>1 DEF Rows, LessonsAreSound, LessonsTypeOK
<1>3. new \in Rows /\ new.from = row.from /\ new.until = row.until /\ new.active = row.active
      /\ new.class = row.class /\ new.teacher = row.teacher /\ new.time = time
  BY <1>2 DEF Rows
<1>4. Write(r, Only(e, new), Late(r)) BY DEF Patch
<1>5. ASSUME ~Late(r) PROVE KeepsThePast(lesson[e], new)
  <2>1. ASSUME op = "rewrite" PROVE KeepsThePast(lesson[e], new)
    <3>1. lesson[e].from > day BY <1>1, <1>5, <2>1
    <3> QED BY <1>1, <3>1, NoPastYet
  <2>2. ASSUME op = "amend" PROVE KeepsThePast(lesson[e], new)
    <3>1. PICK b \in BOOLEAN : row = [lesson[e] EXCEPT !.active = b] /\ (lesson[e].active => b)
      BY <2>2
    <3>2. row.from = lesson[e].from /\ row.until = lesson[e].until
          /\ row.class = lesson[e].class /\ row.teacher = lesson[e].teacher
          /\ row.linked = lesson[e].linked /\ row.active = b
      BY <1>1, <3>1 DEF Rows
    <3>3. new.time = lesson[e].time \/ lesson[e].linked BY <1>1, <1>3, <1>5, <3>2
    <3>4. new # None BY <1>3, RowAssumption
    <3> HIDE DEF new, time, e
    <3> QED BY <1>3, <3>1, <3>2, <3>3, <3>4 DEF KeepsThePast, Teaches
  <2> QED BY <2>1, <2>2
<1> HIDE DEF new, time
<1> QED BY <1>1, <1>3, <1>4, <1>5, WriteOneIsSound

\* An edit writes a lesson that has not begun.
LEMMA EditIsSound ==
    ASSUME LessonsAreSound, NEW r \in Desks, EditLesson(r)
    PROVE  LessonsAreSound'
<1> DEFINE e == desks[r].lesson
           row == lesson[e]
<1>1. Decided(r, "rewrite") BY DEF EditLesson
<1>2. e \in Lessons /\ row \in Rows /\ row.from <= row.until /\ desks[r].row \in Rows
      /\ Late(r) \in BOOLEAN /\ events' \in 0..MaxEvents
      /\ (~Late(r) => row = desks[r].row /\ day = desks[r].on)
      /\ desks[r].row.from > desks[r].on
  BY <1>1, DecidedReads
<1>3. ASSUME NEW new \in Rows, Patch(r, new), new.from <= new.until PROVE LessonsAreSound'
  BY <1>1, <1>3, PatchIsSound
<1>4. ASSUME NEW c \in Classes, Patch(r, [row EXCEPT !.class = c]) PROVE LessonsAreSound'
  <2> DEFINE new == [row EXCEPT !.class = c]
  <2>1. new \in Rows /\ new.from <= new.until BY <1>2 DEF Rows
  <2> HIDE DEF new
  <2> QED BY <1>3, <1>4, <2>1 DEF new
<1>5. ASSUME NEW d \in 1..row.until, Patch(r, [row EXCEPT !.from = d]) PROVE LessonsAreSound'
  <2> DEFINE new == [row EXCEPT !.from = d]
  <2>1. row.until \in Days BY <1>2 DEF Rows
  <2>2. d \in Days /\ d <= row.until BY <2>1, LessonsAssumption DEF Days
  <2>3. new \in Rows /\ new.from = d /\ new.until = row.until BY <1>2, <2>2 DEF Rows
  <2> HIDE DEF new
  <2> QED BY <1>3, <1>5, <2>2, <2>3 DEF new
<1>6. ASSUME NEW d \in row.from..LastDay, Patch(r, [row EXCEPT !.until = d])
      PROVE  LessonsAreSound'
  <2> DEFINE new == [row EXCEPT !.until = d]
  <2>1. row.from \in Days BY <1>2 DEF Rows
  <2>2. d \in Days /\ row.from <= d BY <2>1, LessonsAssumption DEF Days
  <2>3. new \in Rows /\ new.from = row.from /\ new.until = d BY <1>2, <2>2 DEF Rows
  <2> HIDE DEF new
  <2> QED BY <1>3, <1>6, <2>2, <2>3 DEF new
<1>7. ASSUME NEW time \in Times, Write(r, Only(e, [row EXCEPT !.time = time]), Late(r))
      PROVE  LessonsAreSound'
  <2> DEFINE new == [row EXCEPT !.time = time]
  <2>1. new \in Rows /\ new.from <= new.until BY <1>2 DEF Rows
  <2> HIDE DEF new
  <2>2. Write(r, Only(e, new), Late(r)) BY <1>7 DEF new
  <2>3. ASSUME ~Late(r) PROVE KeepsThePast(row, new)
    <3>1. row.from > day BY <1>2, <2>3
    <3> QED BY <1>2, <3>1, NoPastYet
  <2> QED BY <1>2, <2>1, <2>2, <2>3, WriteOneIsSound
<1> QED BY <1>4, <1>5, <1>6, <1>7 DEF EditLesson

\* So does a withdrawal.
LEMMA WithdrawIsSound ==
    ASSUME LessonsAreSound, NEW r \in Desks, WithdrawLesson(r)
    PROVE  LessonsAreSound'
<1> DEFINE new == [lesson[desks[r].lesson] EXCEPT !.active = FALSE]
<1>1. Decided(r, "rewrite") /\ Patch(r, new) BY DEF WithdrawLesson
<1>2. new \in Rows /\ new.from <= new.until BY <1>1, DecidedReads DEF Rows
<1> HIDE DEF new
<1> QED BY <1>1, <1>2, PatchIsSound

\* A note, or a lesson that is put back, leaves what has been taught.
LEMMA AmendIsSound ==
    ASSUME LessonsAreSound, NEW r \in Desks, NoteLesson(r) \/ RestoreLesson(r)
    PROVE  LessonsAreSound'
<1> DEFINE e == desks[r].lesson
           Amended(b) == [lesson[e] EXCEPT !.active = b]
<1>1. Decided(r, "amend") BY DEF NoteLesson, RestoreLesson
<1>2. lesson[e] \in Rows /\ lesson[e].from <= lesson[e].until BY <1>1, DecidedReads
<1>3. PICK b \in BOOLEAN : Patch(r, Amended(b)) /\ (lesson[e].active => b)
  <2>1. ASSUME NoteLesson(r) PROVE \E b \in BOOLEAN : Patch(r, Amended(b)) /\ (lesson[e].active => b)
    <3>1. lesson[e].active \in BOOLEAN BY <1>2 DEF Rows
    <3>2. Amended(lesson[e].active) = lesson[e] BY <1>2 DEF Rows
    <3>3. Patch(r, Amended(lesson[e].active)) BY <2>1, <3>2 DEF NoteLesson
    <3> HIDE DEF Amended
    <3> QED BY <3>1, <3>3
  <2>2. ASSUME RestoreLesson(r)
        PROVE  \E b \in BOOLEAN : Patch(r, Amended(b)) /\ (lesson[e].active => b)
    <3>1. Patch(r, Amended(TRUE)) BY <2>2 DEF RestoreLesson
    <3> HIDE DEF Amended
    <3> QED BY <3>1
  <2> QED BY <2>1, <2>2
<1>4. Amended(b) \in Rows /\ Amended(b).from <= Amended(b).until BY <1>2 DEF Rows
<1>5. Amended(b) = [lesson[e] EXCEPT !.active = b] OBVIOUS
<1> HIDE DEF Amended
<1> QED BY <1>1, <1>3, <1>4, <1>5, PatchIsSound

\* A lesson is deleted that has not begun.
LEMMA DeleteIsSound ==
    ASSUME LessonsAreSound, NEW r \in Desks, DeleteLesson(r)
    PROVE  LessonsAreSound'
<1> DEFINE e == desks[r].lesson
<1>1. Decided(r, "rewrite") BY DEF DeleteLesson
<1>2. e \in Lessons /\ lesson[e] \in Rows
      /\ Late(r) \in BOOLEAN /\ events' \in 0..MaxEvents
      /\ (~Late(r) => lesson[e] = desks[r].row /\ day = desks[r].on)
      /\ desks[r].row.from > desks[r].on
  BY <1>1, DecidedReads
<1>3. ASSUME ~Late(r) PROVE KeepsThePast(lesson[e], None)
  <2>1. lesson[e].from > day BY <1>2, <1>3
  <2> QED BY <1>2, <2>1, NoPastYet
<1>4. Write(r, Only(e, None), Late(r)) BY DEF DeleteLesson
<1>5. None \in Rows \cup {None} OBVIOUS
<1> QED BY <1>2, <1>3, <1>4, <1>5, WriteOneIsSound

-----------------------------------------------------------------------------
(* A lesson is ended, or replaced from a day on.                             *)

\* A lesson that ends is taught until the day before, and keeps its past when it
\* ends today or later.
LEMMA EndedKeepsThePast ==
    ASSUME LessonsAreSound, NEW old \in Rows, NEW stop \in 1..LastDay + 1, old.from < stop
    PROVE  /\ Ended(old, stop) \in Rows
           /\ Ended(old, stop).from = old.from /\ Ended(old, stop).until = stop - 1
           /\ Ended(old, stop).active
           /\ Ended(old, stop).from <= Ended(old, stop).until
           /\ old.active /\ stop >= day => KeepsThePast(old, Ended(old, stop))
<1> DEFINE new == Ended(old, stop)
<1>1. old.from \in Days /\ old.until \in Days BY DEF Rows
<1>2. stop - 1 \in Days /\ stop \in Int /\ old.from <= stop - 1
  BY <1>1, LessonsAssumption DEF Days
<1>3. new \in Rows /\ new.from = old.from /\ new.until = stop - 1 /\ new.active
      /\ new.class = old.class /\ new.teacher = old.teacher /\ new.time = old.time
  BY <1>2 DEF Rows, Ended, LastDayBefore
<1>4. ASSUME stop >= day PROVE KeepsThePast(old, new)
  <2>1. ASSUME NEW d \in Days, d < day, Teaches(old, d) PROVE Teaches(new, d)
    <3>1. d <= stop - 1
      BY <1>2, <1>4, <2>1 DEF LessonsAreSound, LessonsTypeOK, Days
    <3> HIDE DEF new
    <3> QED BY <1>3, <2>1, <3>1, RowAssumption DEF Teaches
  <2> HIDE DEF new
  <2> QED BY <1>3, <2>1 DEF KeepsThePast
<1> HIDE DEF new
<1> QED BY <1>2, <1>3, <1>4 DEF new

\* A lesson is ended.
LEMMA EndIsSound ==
    ASSUME LessonsAreSound, NEW r \in Desks, NEW stop \in 1..LastDay + 1, EndLesson(r, stop)
    PROVE  LessonsAreSound'
<1> DEFINE e == desks[r].lesson
           new == Ended(lesson[e], stop)
<1>1. Decided(r, "split") BY DEF EndLesson
<1>2. e \in Lessons /\ lesson[e] \in Rows
      /\ Late(r) \in BOOLEAN /\ events' \in 0..MaxEvents
      /\ (~Late(r) => lesson[e] = desks[r].row /\ day = desks[r].on)
      /\ desks[r].row.active
  BY <1>1, DecidedReads
<1>3. lesson[e].from < stop /\ stop >= desks[r].on /\ Write(r, Only(e, new), Late(r))
  BY DEF EndLesson, MayStop
<1>4. new \in Rows /\ new.from <= new.until
      /\ (lesson[e].active /\ stop >= day => KeepsThePast(lesson[e], new))
  BY <1>2, <1>3, EndedKeepsThePast
<1>5. ~Late(r) => KeepsThePast(lesson[e], new) BY <1>2, <1>3, <1>4
<1> HIDE DEF new
<1> QED BY <1>2, <1>3, <1>4, <1>5, WriteOneIsSound

\* The days of a lesson that is split.
LEMMA SplitKeepsTheDays ==
    ASSUME NEW old \in Rows, old.active, NEW stop \in Days, old.from < stop, stop <= old.until,
           NEW first \in Rows, first.active, first.from = old.from, first.until = stop - 1,
           NEW second \in Rows, second.active, second.from = stop, second.until = old.until
    PROVE  /\ DaysOf(first) \cup DaysOf(second) = DaysOf(old)
           /\ DaysOf(first) \cap DaysOf(second) = {}
<1>1. \A d \in Days : d \in Int BY DEF Days
<1>2. old.from \in Int /\ old.until \in Int /\ stop \in Int BY DEF Rows, Days
<1>3. \A d \in Days : Teaches(old, d) <=> old.from <= d /\ d <= old.until
  BY RowAssumption DEF Teaches
<1>4. \A d \in Days : Teaches(first, d) <=> old.from <= d /\ d <= stop - 1
  BY RowAssumption DEF Teaches
<1>5. \A d \in Days : Teaches(second, d) <=> stop <= d /\ d <= old.until
  BY RowAssumption DEF Teaches
<1>6. \A d \in Days : (Teaches(first, d) \/ Teaches(second, d) <=> Teaches(old, d))
                      /\ ~(Teaches(first, d) /\ Teaches(second, d))
  BY <1>1, <1>2, <1>3, <1>4, <1>5
<1> QED BY <1>6 DEF DaysOf

\* A lesson is replaced.
LEMMA ReplaceIsSound ==
    ASSUME LessonsAreSound, NEW r \in Desks, NEW n \in Lessons, NEW stop \in 1..LastDay + 1,
           NEW class \in Classes, NEW time \in Times, ReplaceLesson(r, n, stop, class, time)
    PROVE  LessonsAreSound'
<1> DEFINE e == desks[r].lesson
           old == desks[r].row
           first == Ended(lesson[e], stop)
           second == [old EXCEPT !.from = stop, !.class = class, !.time = time, !.active = TRUE]
           rows == [x \in {e, n} |-> IF x = e THEN first ELSE second]
<1>1. Decided(r, "split") BY DEF ReplaceLesson
<1>2. e \in Lessons /\ lesson[e] \in Rows /\ old \in Rows
      /\ Late(r) \in BOOLEAN /\ events' \in 0..MaxEvents
      /\ (~Late(r) => lesson[e] = old /\ day = desks[r].on)
      /\ old.active
  BY <1>1, DecidedReads
<1>3. lesson[e].from < stop /\ stop >= desks[r].on /\ stop <= old.until
      /\ Write(r, rows, Late(r)) /\ n \in Unused
  BY DEF ReplaceLesson, MayStop
<1>4. first \in Rows /\ first.from = lesson[e].from /\ first.until = stop - 1 /\ first.active
      /\ first.from <= first.until
      /\ (lesson[e].active /\ stop >= day => KeepsThePast(lesson[e], first))
  BY <1>2, <1>3, EndedKeepsThePast
<1>5. stop \in Days
  <2>1. old.until \in Days BY <1>2 DEF Rows
  <2> QED BY <1>3, <2>1, LessonsAssumption DEF Days
<1>6. second \in Rows /\ second.from = stop /\ second.until = old.until /\ second.active
  BY <1>2, <1>5 DEF Rows
<1>7. n # e /\ lesson[n] = None /\ lesson[e] # None
  BY <1>2, <1>3, RowAssumption DEF Unused
<1> HIDE DEF first, second
<1>8. DOMAIN rows = {e, n} /\ rows[e] = first /\ rows[n] = second BY <1>7
<1>9. rows \in WrittenRows
  <2>1. rows \in [{e, n} -> Rows \cup {None}] BY <1>4, <1>6
  <2> QED BY <1>2, <1>8, <2>1, WrittenRowsAre
<1> HIDE DEF rows
<1>10. ASSUME ~Late(r) PROVE RowsKeepThePast(rows)
  <2>1. KeepsThePast(lesson[e], first) BY <1>2, <1>3, <1>4, <1>10
  <2>2. KeepsThePast(lesson[n], second) BY <1>7 DEF KeepsThePast, Teaches
  <2>3. DaysOf(first) \cup DaysOf(second) = DaysOf(lesson[e])
        /\ DaysOf(first) \cap DaysOf(second) = {}
    BY <1>2, <1>3, <1>4, <1>5, <1>6, <1>10, SplitKeepsTheDays
  <2> QED BY <1>7, <1>8, <2>1, <2>2, <2>3 DEF RowsKeepThePast
<1>11. \A x \in DOMAIN rows : rows[x] # None => rows[x].from <= rows[x].until
  BY <1>3, <1>4, <1>6, <1>8
<1> QED BY <1>2, <1>3, <1>9, <1>10, <1>11, WriteIsSound

-----------------------------------------------------------------------------
(* Other steps of one request, and of the school.                            *)

\* A request reads a lesson.
LEMMA OpenIsSound ==
    ASSUME LessonsAreSound, NEW r \in Desks, NEW op \in {"rewrite", "split", "amend"},
           NEW e \in Lessons, OpenDesk(r, op, e)
    PROVE  LessonsAreSound'
<1> DEFINE x == [op |-> op, lesson |-> e, row |-> lesson[e], used |-> Referenced(e), on |-> day]
<1>1. lesson[e] \in Rows /\ lesson[e].from <= lesson[e].until
  BY DEF OpenDesk, LessonsAreSound, LessonsTypeOK
<1>2. Referenced(e) \in BOOLEAN BY DEF Referenced
<1>3. x \in ReadDesks BY <1>1, <1>2 DEF ReadDesks, LessonsAreSound, LessonsTypeOK
<1>4. x \in DeskStates BY <1>3 DEF DeskStates
<1>5. x.op = op /\ x.row = lesson[e] /\ x.on = day OBVIOUS
<1>6. op = "rewrite" => lesson[e].from > day
  BY DEF OpenDesk, CanRewrite, RecurrenceStatus
<1>7. op = "split" => lesson[e].active
  BY DEF OpenDesk, CanEnd, RecurrenceStatus
<1>8. ReadingIsRight(x) BY <1>1, <1>5, <1>6, <1>7 DEF ReadingIsRight
<1>9. DeskIsRight(x) BY <1>5, <1>8 DEF DeskIsRight
<1>10. \A q \in Desks : q # r => Apart(desks[q], x) /\ Apart(x, desks[q])
  BY <1>5 DEF Apart
<1>11. events' \in 0..MaxEvents
  BY LessonsAssumption DEF OpenDesk, Happens, LessonsAreSound, LessonsTypeOK
<1>12. desks' = [desks EXCEPT ![r] = x]
       /\ UNCHANGED <<day, bell, lesson, covers, marked, overlapped, later>>
  BY DEF OpenDesk
<1> HIDE DEF x
<1> QED BY <1>4, <1>9, <1>10, <1>11, <1>12, OneDeskMoves

\* A request is given up.
LEMMA GiveUpIsSound ==
    ASSUME LessonsAreSound, NEW r \in Desks, GiveUp(r)
    PROVE  LessonsAreSound'
<1>1. FreeDesk \in DeskStates /\ FreeDesk.op = "free" BY DEF DeskStates, FreeDesk
<1>2. DeskIsRight(FreeDesk) BY <1>1 DEF DeskIsRight
<1>3. \A q \in Desks : q # r => Apart(desks[q], FreeDesk) /\ Apart(FreeDesk, desks[q])
  BY <1>1 DEF Apart
<1>4. events' \in 0..MaxEvents BY DEF GiveUp, LessonsAreSound, LessonsTypeOK
<1>5. desks' = [desks EXCEPT ![r] = FreeDesk]
      /\ UNCHANGED <<day, bell, lesson, covers, marked, overlapped, later>>
  BY DEF GiveUp
<1> QED BY <1>1, <1>2, <1>3, <1>4, <1>5, OneDeskMoves

\* A cover is written, that meets no lesson and no cover that is committed.
LEMMA AddCoverIsSound ==
    ASSUME LessonsAreSound, NEW r \in Desks, NEW c \in Covers, AddCover(r, c)
    PROVE  LessonsAreSound'
<1> DEFINE x == [op |-> "covering", cover |-> c, met |-> {}]
<1>1. x \in CoverDesks BY DEF CoverDesks
<1>2. x \in DeskStates BY <1>1 DEF DeskStates
<1>3. x.op = "covering" /\ x.cover = c /\ x.met = {} OBVIOUS
<1>4. lesson[c.lesson] # None BY DEF AddCover, Teaches
<1>5. CoveringIsRight(x) BY <1>3, <1>4 DEF CoveringIsRight, AddCover
<1>6. DeskIsRight(x) BY <1>3, <1>5 DEF DeskIsRight
<1>7. \A q \in Desks : q # r => Apart(desks[q], x) /\ Apart(x, desks[q])
  BY <1>3 DEF Apart, AddCover, Writers
<1>8. events' \in 0..MaxEvents
  BY LessonsAssumption DEF AddCover, Happens, LessonsAreSound, LessonsTypeOK
<1>9. desks' = [desks EXCEPT ![r] = x]
      /\ UNCHANGED <<day, bell, lesson, covers, marked, overlapped, later>>
  BY DEF AddCover
<1> HIDE DEF x
<1> QED BY <1>2, <1>6, <1>7, <1>8, <1>9, OneDeskMoves

\* A register is marked, a period moves, and a step that changes nothing.
LEMMA SchoolIsSound ==
    ASSUME LessonsAreSound, UNCHANGED <<day, lesson, covers, desks, overlapped, later>>,
           bell' \in Times, marked' \in SUBSET (Classes \X Days), events' \in 0..MaxEvents
    PROVE  LessonsAreSound'
<1>1. LessonsTypeOK' BY DEF LessonsAreSound, LessonsTypeOK, Covers
<1>2. DesksTypeOK' BY DEF LessonsAreSound, DesksTypeOK
<1>3. DesksAreRight'
  <2>1. ASSUME NEW q \in Desks PROVE DeskIsRight(desks[q])'
    <3>1. PICK y : y = desks'[q] OBVIOUS
    <3>2. DeskIsRight(y)
      BY <3>1 DEF LessonsAreSound, DesksAreRight
    <3>3. DeskIsRight(y)' BY <3>2, DeskStaysRight
    <3> QED BY <3>1, <3>3
  <2> QED BY <2>1 DEF DesksAreRight
<1>4. HandsAreApart' BY DEF LessonsAreSound, HandsAreApart, Apart
<1> QED BY <1>1, <1>2, <1>3, <1>4, CommittedStaysRight DEF LessonsAreSound

\* Midnight finds no request that has written.
LEMMA NextDayIsSound ==
    ASSUME LessonsAreSound, NextDay
    PROVE  LessonsAreSound'
<1>1. UNCHANGED <<bell, lesson, covers, marked, desks, events, overlapped, later>>
      /\ day' \in Days
  BY LessonsAssumption DEF NextDay, LessonsAreSound, LessonsTypeOK, Days
<1>2. LessonsTypeOK' BY <1>1 DEF LessonsAreSound, LessonsTypeOK, Covers
<1>3. DesksTypeOK' BY <1>1 DEF LessonsAreSound, DesksTypeOK
<1>4. DesksAreRight'
  <2>1. ASSUME NEW q \in Desks PROVE DeskIsRight(desks[q])'
    <3>1. desks'[q] = desks[q] BY <1>1
    <3>2. desks[q].op # "written" /\ desks[q].op # "covering"
      BY DEF NextDay, Writers, Coverings
    <3>3. DeskIsRight(desks[q]) BY DEF LessonsAreSound, DesksAreRight
    <3> QED BY <3>1, <3>2, <3>3 DEF DeskIsRight, ReadingIsRight
  <2> QED BY <2>1 DEF DesksAreRight
<1>5. HandsAreApart' BY <1>1 DEF LessonsAreSound, HandsAreApart, Apart
<1>6. ClashesAreKnown'
  BY <1>1 DEF LessonsAreSound, ClashesAreKnown, Clash, WindowsMeet
<1>7. CoversAreFree'
  BY <1>1 DEF LessonsAreSound, CoversAreFree, CoverClash, TwoCovers, Teaches
<1> QED BY <1>2, <1>3, <1>4, <1>5, <1>6, <1>7 DEF LessonsAreSound

-----------------------------------------------------------------------------
(* Requests commit.                                                          *)

\* What the others hear of it.
LEMMA FreedDesks ==
    ASSUME LessonsAreSound, NEW r \in Desks, NEW things \in SUBSET (Lessons \cup Covers),
           desks' = Freed(r, things)
    PROVE  /\ DesksTypeOK'
           /\ desks'[r] = FreeDesk
           /\ \A q \in Desks : q # r =>
                /\ desks'[q].op = desks[q].op
                /\ desks[q].op \notin {"written", "covering"} => desks'[q] = desks[q]
                /\ desks[q].op = "written" =>
                     /\ desks'[q].rows = desks[q].rows /\ desks'[q].late = desks[q].late
                     /\ desks'[q].met = desks[q].met \cup things
                     /\ desks[q].rows \in WrittenRows
                /\ desks[q].op = "covering" =>
                     /\ desks'[q].cover = desks[q].cover
                     /\ desks'[q].met = desks[q].met \cup things
                     /\ desks[q].cover \in Covers
<1>1. desks'[r] = FreeDesk BY DEF Freed
<1>2. ASSUME NEW q \in Desks, q # r, desks[q].op = "written"
      PROVE  /\ desks'[q] \in WrittenDesks
             /\ desks'[q].rows = desks[q].rows /\ desks'[q].late = desks[q].late
             /\ desks'[q].met = desks[q].met \cup things
             /\ desks[q].rows \in WrittenRows
  <2>1. desks[q] \in WrittenDesks
    BY <1>2, DeskKinds DEF LessonsAreSound, DesksTypeOK
  <2>2. desks'[q] = [desks[q] EXCEPT !.met = desks[q].met \cup things]
    BY <1>2 DEF Freed, Writers
  <2> QED BY <2>1, <2>2 DEF WrittenDesks
<1>3. ASSUME NEW q \in Desks, q # r, desks[q].op = "covering"
      PROVE  /\ desks'[q] \in CoverDesks
             /\ desks'[q].cover = desks[q].cover
             /\ desks'[q].met = desks[q].met \cup things
             /\ desks[q].cover \in Covers
  <2>1. desks[q] \in CoverDesks
    BY <1>3, DeskKinds DEF LessonsAreSound, DesksTypeOK
  <2>2. desks'[q] = [desks[q] EXCEPT !.met = desks[q].met \cup things]
    BY <1>3 DEF Freed, Coverings
  <2> QED BY <2>1, <2>2 DEF CoverDesks
<1>4. ASSUME NEW q \in Desks, q # r, desks[q].op \notin {"written", "covering"}
      PROVE  desks'[q] = desks[q]
  BY <1>4 DEF Freed, Writers, Coverings
<1>5. ASSUME NEW q \in Desks PROVE desks'[q] \in DeskStates
  <2>1. desks[q] \in DeskStates /\ FreeDesk \in DeskStates
    BY DEF LessonsAreSound, DesksTypeOK, DeskStates
  <2> QED BY <1>1, <1>2, <1>3, <1>4, <2>1 DEF DeskStates
<1>6. DesksTypeOK'
  <2>1. desks' = [q \in Desks |-> desks'[q]] BY DEF Freed
  <2> QED BY <1>5, <2>1 DEF DesksTypeOK
<1>7. ASSUME NEW q \in Desks, q # r PROVE desks'[q].op = desks[q].op
  <2>1. desks[q].op = "written" => desks'[q].op = desks[q].op BY <1>2, <1>7 DEF WrittenDesks
  <2>2. desks[q].op = "covering" => desks'[q].op = desks[q].op BY <1>3, <1>7 DEF CoverDesks
  <2> QED BY <1>4, <1>7, <2>1, <2>2
<1> QED BY <1>1, <1>2, <1>3, <1>4, <1>6, <1>7

\* They stay apart.
LEMMA HandsStayApart ==
    ASSUME LessonsAreSound, NEW r \in Desks, NEW things \in SUBSET (Lessons \cup Covers),
           desks' = Freed(r, things)
    PROVE  HandsAreApart'
<1>1. ASSUME NEW q \in Desks, NEW p \in Desks, q # p PROVE Apart(desks[q], desks[p])'
  <2>1. Apart(desks[q], desks[p]) BY <1>1 DEF LessonsAreSound, HandsAreApart
  <2>2. desks'[r].op = "free" BY FreedDesks DEF FreeDesk
  <2>3. q = r \/ p = r => Apart(desks[q], desks[p])' BY <2>2 DEF Apart
  <2>4. ASSUME q # r, p # r PROVE Apart(desks[q], desks[p])'
    <3>1. /\ desks'[q].op = desks[q].op /\ desks'[p].op = desks[p].op
          /\ desks[q].op = "written" => desks'[q].rows = desks[q].rows
          /\ desks[p].op = "written" => desks'[p].rows = desks[p].rows
          /\ desks[q].op = "covering" => desks'[q].cover = desks[q].cover
      BY <2>4, FreedDesks
    <3> QED BY <2>1, <3>1 DEF Apart
  <2> QED BY <2>3, <2>4
<1> QED BY <1>1 DEF HandsAreApart

\* The committing request: its rows, and what they are.
LEMMA CommitWrites ==
    ASSUME LessonsAreSound, NEW r \in Desks, Commit(r)
    PROVE  /\ desks[r].rows \in WrittenRows /\ desks[r].late \in BOOLEAN
           /\ desks[r].met \in SUBSET (Lessons \cup Covers)
           /\ DOMAIN desks[r].rows \in SUBSET Lessons
           /\ WritingIsRight(desks[r]) /\ desks[r].op = "written"
           /\ \A e \in Lessons : lesson'[e] =
                IF e \in DOMAIN desks[r].rows THEN desks[r].rows[e] ELSE lesson[e]
           /\ lesson' \in [Lessons -> Rows \cup {None}]
           /\ desks' = Freed(r, DOMAIN desks[r].rows)
           /\ day' = day
<1>1. desks[r].op = "written" BY DEF Commit, Writers
<1>2. desks[r] \in WrittenDesks BY <1>1, DeskKinds DEF LessonsAreSound, DesksTypeOK
<1>3. desks[r].rows \in WrittenRows /\ desks[r].late \in BOOLEAN
      /\ desks[r].met \in SUBSET (Lessons \cup Covers)
  BY <1>2 DEF WrittenDesks
<1>4. WritingIsRight(desks[r]) BY <1>1 DEF LessonsAreSound, DesksAreRight, DeskIsRight
<1>5. lesson' = After(desks[r].rows) /\ desks' = Freed(r, DOMAIN desks[r].rows) /\ day' = day
  BY DEF Commit
<1>6. lesson' \in [Lessons -> Rows \cup {None}]
  BY <1>3, <1>5, RowsOverLessons DEF LessonsAreSound
<1>7. DOMAIN desks[r].rows \in SUBSET Lessons BY <1>3, WrittenRowsAre
<1> QED BY <1>1, <1>3, <1>4, <1>5, <1>6, <1>7 DEF After

\* A request that others commit before has written other lessons: what it wrote is
\* as right as before, and it has met what they committed.
LEMMA CommitKeepsWritings ==
    ASSUME LessonsAreSound, NEW r \in Desks, Commit(r),
           NEW q \in Desks, q # r, desks[q].op = "written"
    PROVE  WritingIsRight(desks[q])'
<1> DEFINE rows == desks[r].rows
           mine == desks[q].rows
<1>1. /\ desks[r].op = "written" /\ DOMAIN rows \in SUBSET Lessons
      /\ \A e \in Lessons : lesson'[e] = IF e \in DOMAIN rows THEN rows[e] ELSE lesson[e]
      /\ desks' = Freed(r, DOMAIN rows) /\ day' = day
  BY CommitWrites
<1>2. /\ desks'[q].rows = mine /\ desks'[q].late = desks[q].late
      /\ desks'[q].met = desks[q].met \cup DOMAIN rows
      /\ mine \in WrittenRows
  BY <1>1, FreedDesks
<1>3. DOMAIN mine \in SUBSET Lessons BY <1>2, WrittenRowsAre
<1>4. DOMAIN mine \cap DOMAIN rows = {}
  BY <1>1 DEF LessonsAreSound, HandsAreApart, Apart
<1>5. \A e \in DOMAIN mine : lesson'[e] = lesson[e] BY <1>1, <1>3, <1>4
<1>6. WritingIsRight(desks[q]) BY DEF LessonsAreSound, DesksAreRight, DeskIsRight
<1>7. \A e \in DOMAIN mine : mine[e] # None => mine[e].from <= mine[e].until
  BY <1>6 DEF WritingIsRight
<1>8. ASSUME NEW e \in DOMAIN mine, NEW f \in Lessons, e # f, Clash(mine[e], After(mine)'[f])
      PROVE  f \in desks'[q].met
  <2>1. ASSUME f \notin DOMAIN rows PROVE f \in desks[q].met
    <3>1. After(mine)'[f] = After(mine)[f] BY <1>1, <1>2, <2>1 DEF After
    <3>2. Clash(mine[e], After(mine)[f]) BY <1>8, <3>1
    <3> QED BY <1>6, <1>8, <3>2 DEF WritingIsRight
  <2> QED BY <1>2, <2>1
<1>9. ASSUME ~desks[q].late PROVE RowsKeepThePast(mine)'
  <2>1. RowsKeepThePast(mine) BY <1>6, <1>9 DEF WritingIsRight
  <2>2. \A row, d : Teaches(row, d)' = Teaches(row, d) BY SMTT(30) DEF Teaches
  <2>3. ASSUME NEW e \in DOMAIN mine
        PROVE  /\ KeepsThePast(lesson'[e], mine[e])
               /\ KeepsThePast(lesson'[e], mine[e]) => KeepsThePast(lesson[e], mine[e])'
               /\ DaysOf(lesson[e])' = DaysOf(lesson[e])
    <3>1. KeepsThePast(lesson[e], mine[e]) BY <2>1 DEF RowsKeepThePast
    <3>2. lesson'[e] = lesson[e] /\ mine' = mine BY <1>2, <1>5
    <3> QED BY <1>1, <3>1, <3>2 DEF KeepsThePast, DaysOf, Teaches
  <2>4. \A e \in DOMAIN mine : DaysOf(mine[e])' = DaysOf(mine[e])
    BY <1>2 DEF DaysOf, Teaches
  <2>5. \A e \in DOMAIN mine : KeepsThePast(lesson[e], mine[e])' BY <2>3
  <2>6. \A n, e \in DOMAIN mine : lesson'[n] = None /\ lesson'[e] # None =>
          /\ DaysOf(mine[e])' \cup DaysOf(mine[n])' = DaysOf(lesson[e])'
          /\ DaysOf(mine[e])' \cap DaysOf(mine[n])' = {}
    BY <1>5, <2>1, <2>3, <2>4 DEF RowsKeepThePast
  <2>7. mine' = mine BY <1>2
  <2> HIDE DEF mine
  <2> QED BY <2>5, <2>6, <2>7 DEF RowsKeepThePast
<1> QED
  <2>1. mine' = mine BY <1>2
  <2>2. desks'[q].rows = mine /\ desks'[q].late = desks[q].late BY <1>2
  <2> QED BY <1>7, <1>8, <1>9, <2>1, <2>2 DEF WritingIsRight, Clash, WindowsMeet

\* A cover that others commit before meets what they committed.
LEMMA CommitKeepsCoverings ==
    ASSUME LessonsAreSound, NEW r \in Desks, Commit(r),
           NEW q \in Desks, q # r, desks[q].op = "covering"
    PROVE  CoveringIsRight(desks[q])'
<1> DEFINE rows == desks[r].rows
           c == desks[q].cover
<1>1. /\ desks[r].op = "written" /\ DOMAIN rows \in SUBSET Lessons
      /\ \A e \in Lessons : lesson'[e] = IF e \in DOMAIN rows THEN rows[e] ELSE lesson[e]
      /\ desks' = Freed(r, DOMAIN rows)
  BY CommitWrites
<1>2. /\ desks'[q].cover = c /\ c \in Covers
      /\ desks'[q].met = desks[q].met \cup DOMAIN rows
  BY <1>1, FreedDesks
<1>3. c.lesson \in Lessons BY <1>2 DEF Covers
<1>4. CoveringIsRight(desks[q]) BY DEF LessonsAreSound, DesksAreRight, DeskIsRight
<1>5. lesson'[c.lesson] # None
  <2>1. c.lesson \in DOMAIN rows => rows[c.lesson] # None
    BY <1>1 DEF LessonsAreSound, HandsAreApart, Apart
  <2> QED BY <1>1, <1>3, <1>4, <2>1 DEF CoveringIsRight
<1>6. ASSUME NEW f \in Lessons, CoverClash(c, f)'
      PROVE  f \in desks'[q].met \/ c.lesson \in desks'[q].met
  <2>1. ASSUME f \notin DOMAIN rows, c.lesson \notin DOMAIN rows
        PROVE  f \in desks[q].met \/ c.lesson \in desks[q].met
    <3>1. lesson'[f] = lesson[f] /\ lesson'[c.lesson] = lesson[c.lesson] BY <1>1, <1>3, <2>1
    <3>2. CoverClash(c, f) BY <1>2, <1>6, <3>1 DEF CoverClash, Teaches
    <3> QED BY <1>4, <3>2 DEF CoveringIsRight
  <2> QED BY <1>2, <2>1
<1>7. ASSUME NEW d \in covers, TwoCovers(c, d)'
      PROVE  d \in desks'[q].met \/ c.lesson \in desks'[q].met \/ d.lesson \in desks'[q].met
  <2>1. d.lesson \in Lessons BY DEF LessonsAreSound, LessonsTypeOK, Covers
  <2>2. ASSUME d.lesson \notin DOMAIN rows, c.lesson \notin DOMAIN rows
        PROVE  d \in desks[q].met \/ c.lesson \in desks[q].met \/ d.lesson \in desks[q].met
    <3>1. lesson'[d.lesson] = lesson[d.lesson] /\ lesson'[c.lesson] = lesson[c.lesson]
      BY <1>1, <1>3, <2>1, <2>2
    <3>2. TwoCovers(c, d) BY <1>2, <1>7, <3>1 DEF TwoCovers
    <3> QED BY <1>4, <3>2 DEF CoveringIsRight
  <2> QED BY <1>2, <2>2
<1>8. covers' \in SUBSET covers BY DEF Commit
<1>9. c' = c BY <1>2
<1> QED BY <1>2, <1>5, <1>6, <1>7, <1>8, <1>9 DEF CoveringIsRight

\* Covers that lessons were written over are known.
LEMMA CommitKeepsCovers ==
    ASSUME LessonsAreSound, NEW r \in Desks, Commit(r)
    PROVE  CoversAreFree'
<1> DEFINE rows == desks[r].rows
<1>1. /\ DOMAIN rows \in SUBSET Lessons
      /\ \A e \in Lessons : lesson'[e] = IF e \in DOMAIN rows THEN rows[e] ELSE lesson[e]
  BY CommitWrites
<1>2. covers' \in SUBSET covers BY DEF Commit
<1>3. \A c \in covers' : c.lesson \in Lessons
  BY <1>2 DEF LessonsAreSound, LessonsTypeOK, Covers
<1>4. \A c \in covers' : \A x : <<c, x>> \in later \/ x \in DOMAIN rows => <<c, x>> \in later'
  <2> TAKE c \in covers'
  <2> TAKE x
  <2> HAVE <<c, x>> \in later \/ x \in DOMAIN rows
  <2>1. <<c, x>> \in later \cup (covers \X DOMAIN rows) BY <1>2
  <2>2. later' = {p \in later \cup (covers \X DOMAIN rows) : p[1] \in covers'} BY DEF Commit
  <2> QED BY <2>1, <2>2
<1>5. ASSUME NEW c \in covers', NEW f \in Lessons, CoverClash(c, f)'
      PROVE  {c} \X {f, c.lesson} \cap later' # {}
  <2>1. ASSUME f \notin DOMAIN rows, c.lesson \notin DOMAIN rows
        PROVE  <<c, f>> \in later \/ <<c, c.lesson>> \in later
    <3>1. lesson'[f] = lesson[f] /\ lesson'[c.lesson] = lesson[c.lesson] BY <1>1, <1>3, <2>1
    <3>2. CoverClash(c, f) BY <1>5, <3>1 DEF CoverClash, Teaches
    <3>3. {c} \X {f, c.lesson} \cap later # {}
      BY <1>2, <3>2 DEF LessonsAreSound, CoversAreFree
    <3> QED BY <3>3, PairsMeet, ZenonT(40)
  <2>2. <<c, f>> \in later' \/ <<c, c.lesson>> \in later' BY <1>4, <2>1
  <2> QED BY <2>2, PairsMeet
<1>6. ASSUME NEW c \in covers', NEW d \in covers', TwoCovers(c, d)'
      PROVE  {c, d} \X {c, d, c.lesson, d.lesson} \cap later' # {}
  <2>1. ASSUME d.lesson \notin DOMAIN rows, c.lesson \notin DOMAIN rows
        PROVE  \E a \in {c, d}, b \in {c, d, c.lesson, d.lesson} : <<a, b>> \in later
    <3>1. lesson'[d.lesson] = lesson[d.lesson] /\ lesson'[c.lesson] = lesson[c.lesson]
      BY <1>1, <1>3, <2>1
    <3>2. TwoCovers(c, d) BY <1>6, <3>1 DEF TwoCovers
    <3>3. {c, d} \X {c, d, c.lesson, d.lesson} \cap later # {}
      BY <1>2, <3>2 DEF LessonsAreSound, CoversAreFree
    <3> QED BY <3>3, PairsMeet, ZenonT(40)
  <2>2. \E a \in {c, d}, b \in {c, d, c.lesson, d.lesson} : <<a, b>> \in later'
    <3>1. \A a \in {c, d} : a \in covers' OBVIOUS
    <3> QED BY <1>4, <2>1, <3>1
  <2> QED BY <2>2, PairsMeet
<1> QED BY <1>5, <1>6 DEF CoversAreFree

\* So are clashes.
LEMMA CommitKeepsClashes ==
    ASSUME LessonsAreSound, NEW r \in Desks, Commit(r)
    PROVE  ClashesAreKnown'
<1> DEFINE rows == desks[r].rows
<1>1. /\ DOMAIN rows \in SUBSET Lessons /\ WritingIsRight(desks[r])
      /\ \A e \in Lessons : lesson'[e] = IF e \in DOMAIN rows THEN rows[e] ELSE lesson[e]
      /\ lesson' = After(rows)
  BY CommitWrites, SMTT(30) DEF Commit
<1>2. overlapped' = overlapped \cup {{e, f} : e \in DOMAIN rows, f \in desks[r].met \cap Lessons}
  BY DEF Commit
<1>3. ASSUME NEW e \in DOMAIN rows, NEW f \in Lessons, e # f, Clash(lesson'[e], lesson'[f])
      PROVE  {e, f} \in overlapped'
  <2>1. lesson'[e] = rows[e] /\ lesson'[f] = After(rows)[f] BY <1>1
  <2>2. f \in desks[r].met BY <1>1, <1>3, <2>1 DEF WritingIsRight
  <2> QED BY <1>2, <2>2
<1>4. ASSUME NEW e \in Lessons, NEW f \in Lessons, e # f, Clash(lesson'[e], lesson'[f])
      PROVE  {e, f} \in overlapped'
  <2>1. ASSUME e \in DOMAIN rows PROVE {e, f} \in overlapped' BY <1>3, <1>4, <2>1
  <2>2. ASSUME f \in DOMAIN rows PROVE {e, f} \in overlapped'
    <3>1. Clash(lesson'[f], lesson'[e]) BY <1>4, ClashIsSymmetric
    <3>2. {f, e} \in overlapped' BY <1>3, <1>4, <2>2, <3>1
    <3>3. {f, e} = {e, f} OBVIOUS
    <3> QED BY <3>2, <3>3
  <2>3. ASSUME e \notin DOMAIN rows, f \notin DOMAIN rows PROVE {e, f} \in overlapped'
    <3>1. lesson'[e] = lesson[e] /\ lesson'[f] = lesson[f] BY <1>1, <2>3
    <3>2. {e, f} \in overlapped BY <1>4, <3>1 DEF LessonsAreSound, ClashesAreKnown
    <3> QED BY <1>2, <3>2
  <2> QED BY <2>1, <2>2, <2>3
<1> QED BY <1>4 DEF ClashesAreKnown, Clash, WindowsMeet

\* A commit of lessons keeps the invariant.
LEMMA CommitIsSound ==
    ASSUME LessonsAreSound, NEW r \in Desks, Commit(r)
    PROVE  LessonsAreSound'
<1> DEFINE rows == desks[r].rows
<1>1. /\ desks[r].op = "written" /\ DOMAIN rows \in SUBSET Lessons
      /\ \A e \in Lessons : lesson'[e] = IF e \in DOMAIN rows THEN rows[e] ELSE lesson[e]
      /\ lesson' \in [Lessons -> Rows \cup {None}]
      /\ desks' = Freed(r, DOMAIN rows) /\ day' = day
      /\ WritingIsRight(desks[r])
  BY CommitWrites
<1>2. DOMAIN rows \in SUBSET (Lessons \cup Covers) BY <1>1
<1>3. LessonsTypeOK'
  <2>1. covers' = {c \in covers : lesson'[c.lesson] # None} BY DEF Commit
  <2>2. \A e \in Lessons : lesson'[e] # None => lesson'[e].from <= lesson'[e].until
    BY <1>1 DEF WritingIsRight, LessonsAreSound, LessonsTypeOK
  <2>3. UNCHANGED <<day, bell, marked, events>> BY DEF Commit
  <2> QED BY <1>1, <2>1, <2>2, <2>3 DEF LessonsAreSound, LessonsTypeOK
<1>4. DesksTypeOK' /\ HandsAreApart'
  BY <1>1, <1>2, FreedDesks, HandsStayApart
<1>5. ASSUME NEW q \in Desks PROVE DeskIsRight(desks[q])'
  <2>1. ASSUME q = r PROVE DeskIsRight(desks[q])'
    <3>1. desks'[q] = FreeDesk BY <1>1, <1>2, <2>1, FreedDesks
    <3> QED BY <3>1 DEF DeskIsRight, FreeDesk
  <2>2. ASSUME q # r PROVE DeskIsRight(desks[q])'
    <3>1. /\ desks'[q].op = desks[q].op
          /\ desks[q].op \notin {"written", "covering"} => desks'[q] = desks[q]
      BY <1>1, <1>2, <2>2, FreedDesks
    <3>2. desks[q].op = "written" => WritingIsRight(desks[q])'
      BY <2>2, CommitKeepsWritings
    <3>3. desks[q].op = "covering" => CoveringIsRight(desks[q])'
      BY <2>2, CommitKeepsCoverings
    <3>4. desks[q].op \in {"rewrite", "split", "amend"} => ReadingIsRight(desks[q])'
      BY <3>1 DEF LessonsAreSound, DesksAreRight, DeskIsRight, ReadingIsRight
    <3> QED BY <3>1, <3>2, <3>3, <3>4 DEF DeskIsRight
  <2> QED BY <2>1, <2>2
<1>6. DesksAreRight' BY <1>5 DEF DesksAreRight
<1> QED BY <1>3, <1>4, <1>6, CommitKeepsCovers, CommitKeepsClashes DEF LessonsAreSound

\* A cover is committed that met nothing, or what is known to have come later.
LEMMA CommitCoverIsSound ==
    ASSUME LessonsAreSound, NEW r \in Desks, CommitCover(r)
    PROVE  LessonsAreSound'
<1> DEFINE c == desks[r].cover
<1>1. desks[r].op = "covering" BY DEF CommitCover, Coverings
<1>2. desks[r] \in CoverDesks BY <1>1, DeskKinds DEF LessonsAreSound, DesksTypeOK
<1>3. c \in Covers /\ c.lesson \in Lessons BY <1>2 DEF CoverDesks, Covers
<1>4. CoveringIsRight(desks[r]) BY <1>1 DEF LessonsAreSound, DesksAreRight, DeskIsRight
<1>5. /\ covers' = covers \cup {c} /\ later' = later \cup ({c} \X desks[r].met)
      /\ desks' = Freed(r, {c})
      /\ UNCHANGED <<day, bell, lesson, marked, events, overlapped>>
  BY DEF CommitCover
<1> DEFINE things == {c}
<1>6. things \in SUBSET (Lessons \cup Covers) /\ desks' = Freed(r, things) BY <1>3, <1>5
<1>17. things = {c} OBVIOUS
<1> HIDE DEF things
<1>7. LessonsTypeOK'
  BY <1>3, <1>4, <1>5 DEF LessonsAreSound, LessonsTypeOK, CoveringIsRight
<1>8. DesksTypeOK' /\ HandsAreApart' BY <1>6, FreedDesks, HandsStayApart
<1>9. \A x, y : (CoverClash(x, y)' <=> CoverClash(x, y)) /\ (TwoCovers(x, y)' <=> TwoCovers(x, y))
  BY <1>5 DEF CoverClash, TwoCovers, Teaches
<1>10. ASSUME NEW q \in Desks PROVE DeskIsRight(desks[q])'
  <2>1. ASSUME q = r PROVE DeskIsRight(desks[q])'
    <3>1. desks'[q] = FreeDesk BY <1>6, <2>1, FreedDesks
    <3> QED BY <3>1 DEF DeskIsRight, FreeDesk
  <2>2. ASSUME q # r, desks[q].op \notin {"written", "covering"} PROVE DeskIsRight(desks[q])'
    <3>1. desks'[q] = desks[q] BY <1>6, <2>2, FreedDesks
    <3> QED BY <2>2, <3>1 DEF LessonsAreSound, DesksAreRight, DeskIsRight, ReadingIsRight
  <2>3. ASSUME q # r, desks[q].op = "written" PROVE DeskIsRight(desks[q])'
    <3>1. /\ desks'[q].op = desks[q].op
          /\ desks'[q].rows = desks[q].rows /\ desks'[q].late = desks[q].late
          /\ desks'[q].met = desks[q].met \cup things
      BY <1>6, <2>3, FreedDesks
    <3>2. WritingIsRight(desks[q])
      BY <2>3 DEF LessonsAreSound, DesksAreRight, DeskIsRight
    <3>3. PICK rows : rows = desks[q].rows OBVIOUS
    <3>4. After(rows)' = After(rows) BY <1>5 DEF After
    <3>5. RowsKeepThePast(rows) => RowsKeepThePast(rows)'
      <4> HAVE RowsKeepThePast(rows)
      <4>1. day' = day /\ lesson' = lesson BY <1>5
      <4>2. \A e \in DOMAIN rows :
              KeepsThePast(lesson[e], rows[e]) => KeepsThePast(lesson[e], rows[e])'
        BY <4>1 DEF KeepsThePast, Teaches
      <4>3. \A e \in DOMAIN rows : DaysOf(rows[e])' = DaysOf(rows[e])
        BY DEF DaysOf, Teaches
      <4>4. \A e \in DOMAIN rows : DaysOf(lesson[e])' = DaysOf(lesson[e])
        BY <4>1 DEF DaysOf, Teaches
      <4> QED BY <4>1, <4>2, <4>3, <4>4 DEF RowsKeepThePast
    <3>6. WritingIsRight(desks[q])'
      BY <3>1, <3>2, <3>3, <3>4, <3>5 DEF WritingIsRight, Clash, WindowsMeet
    <3> QED BY <2>3, <3>1, <3>6 DEF DeskIsRight
  <2>4. ASSUME q # r, desks[q].op = "covering" PROVE DeskIsRight(desks[q])'
    <3>1. /\ desks'[q].op = desks[q].op
          /\ desks'[q].cover = desks[q].cover
          /\ desks'[q].met = desks[q].met \cup things
      BY <1>6, <2>4, FreedDesks
    <3>2. CoveringIsRight(desks[q])
      BY <2>4 DEF LessonsAreSound, DesksAreRight, DeskIsRight
    <3>3. CoveringIsRight(desks[q])'
      BY <1>5, <1>9, <1>17, <3>1, <3>2 DEF CoveringIsRight
    <3> QED BY <2>4, <3>1, <3>3 DEF DeskIsRight
  <2> QED BY <2>1, <2>2, <2>3, <2>4
<1>11. DesksAreRight' BY <1>10 DEF DesksAreRight
<1>12. ClashesAreKnown'
  BY <1>5 DEF LessonsAreSound, ClashesAreKnown, Clash, WindowsMeet
<1>13. \A x \in covers \cup {c}, f \in Lessons : CoverClash(x, f) =>
          {x} \X {f, x.lesson} \cap later' # {}
  <2>1. ASSUME NEW x \in covers, NEW f \in Lessons, CoverClash(x, f)
        PROVE  {x} \X {f, x.lesson} \cap later' # {}
    <3>1. {x} \X {f, x.lesson} \cap later # {}
      BY <2>1 DEF LessonsAreSound, CoversAreFree
    <3> QED BY <1>5, <3>1
  <2>2. ASSUME NEW f \in Lessons, CoverClash(c, f)
        PROVE  {c} \X {f, c.lesson} \cap later' # {}
    <3>1. f \in desks[r].met \/ c.lesson \in desks[r].met
      BY <1>4, <2>2 DEF CoveringIsRight
    <3>2. <<c, f>> \in later' \/ <<c, c.lesson>> \in later' BY <1>5, <3>1
    <3> QED BY <3>2, PairsMeet
  <2> QED BY <2>1, <2>2
<1>14. ASSUME NEW d \in covers, TwoCovers(c, d)
       PROVE  \E a \in {c, d}, b \in {c, d, c.lesson, d.lesson} : <<a, b>> \in later'
  <2>1. d \in desks[r].met \/ c.lesson \in desks[r].met \/ d.lesson \in desks[r].met
    BY <1>4, <1>14 DEF CoveringIsRight
  <2> QED BY <1>5, <2>1
<1>15. ASSUME NEW x \in covers \cup {c}, NEW y \in covers \cup {c}, TwoCovers(x, y)
       PROVE  {x, y} \X {x, y, x.lesson, y.lesson} \cap later' # {}
  <2>1. ASSUME x \in covers, y \in covers
        PROVE  {x, y} \X {x, y, x.lesson, y.lesson} \cap later' # {}
    <3>1. {x, y} \X {x, y, x.lesson, y.lesson} \cap later # {}
      BY <1>15, <2>1 DEF LessonsAreSound, CoversAreFree
    <3> QED BY <1>5, <3>1
  <2>2. ASSUME x = c, y \in covers
        PROVE  {x, y} \X {x, y, x.lesson, y.lesson} \cap later' # {}
    <3>1. \E a \in {x, y}, b \in {x, y, x.lesson, y.lesson} : <<a, b>> \in later'
      BY <1>14, <1>15, <2>2
    <3> QED BY <3>1, PairsMeet
  <2>3. ASSUME y = c, x \in covers
        PROVE  {x, y} \X {x, y, x.lesson, y.lesson} \cap later' # {}
    <3>1. TwoCovers(c, x) BY <1>15, <2>3 DEF TwoCovers
    <3>2. \E a \in {x, y}, b \in {x, y, x.lesson, y.lesson} : <<a, b>> \in later'
      BY <1>14, <2>3, <3>1
    <3> QED BY <3>2, PairsMeet
  <2>4. ~(x = c /\ y = c) BY <1>15 DEF TwoCovers
  <2> QED BY <2>1, <2>2, <2>3, <2>4
<1>16. CoversAreFree' BY <1>5, <1>9, <1>13, <1>15 DEF CoversAreFree
<1> QED BY <1>7, <1>8, <1>11, <1>12, <1>16 DEF LessonsAreSound

-----------------------------------------------------------------------------
(* What has been taught.                                                     *)

\* A step that writes no lesson keeps the past.
LEMMA PastStays ==
    ASSUME UNCHANGED lesson
    PROVE  PastLessonsStand /\ ReplacementKeepsTheDays
<1>1. PastLessonsStand BY DEF PastLessonsStand, Teaches
<1>2. ReplacementKeepsTheDays BY DEF ReplacementKeepsTheDays
<1> QED BY <1>1, <1>2

\* A commit keeps it, for what had been read was still so.
LEMMA CommitKeepsThePast ==
    ASSUME LessonsAreSound, NEW r \in Desks, Commit(r)
    PROVE  PastLessonsStand /\ ReplacementKeepsTheDays
<1> DEFINE rows == desks[r].rows
<1>1. /\ DOMAIN rows \in SUBSET Lessons /\ desks[r].late \in BOOLEAN
      /\ \A e \in Lessons : lesson'[e] = IF e \in DOMAIN rows THEN rows[e] ELSE lesson[e]
      /\ WritingIsRight(desks[r])
      /\ desks' = Freed(r, DOMAIN rows)
  BY CommitWrites
<1>2. ~desks[r].late => RowsKeepThePast(rows) BY <1>1 DEF WritingIsRight
<1>3. ASSUME NEW e \in Lessons, NEW d \in Days,
             d < day, Teaches(lesson[e], d), e \notin outdated'
      PROVE  /\ Teaches(lesson'[e], d)
             /\ lesson'[e].class = lesson[e].class /\ lesson'[e].teacher = lesson[e].teacher
             /\ lesson'[e].time = lesson[e].time \/ lesson[e].linked
  <2>1. ASSUME e \in DOMAIN rows PROVE KeepsThePast(lesson[e], lesson'[e])
    <3>1. ~desks[r].late BY <1>3, <2>1 DEF Commit
    <3> QED BY <1>1, <1>2, <2>1, <3>1 DEF RowsKeepThePast
  <2>2. e \notin DOMAIN rows => lesson'[e] = lesson[e] BY <1>1
  <2> QED BY <1>3, <2>1, <2>2 DEF KeepsThePast
<1>4. PastLessonsStand
  <2>1. \A row, d : Teaches(row, d)' = Teaches(row, d) BY DEF Teaches
  <2> QED BY <1>3 DEF PastLessonsStand
<1>5. ASSUME NEW q \in Writers, desks'[q] = FreeDesk, ~desks[q].late,
             NEW n \in Unused, NEW e \in DOMAIN desks[q].rows \ Unused, n \in DOMAIN desks[q].rows
      PROVE  /\ DaysOf(lesson'[e]) \cup DaysOf(lesson'[n]) = DaysOf(lesson[e])
             /\ DaysOf(lesson'[e]) \cap DaysOf(lesson'[n]) = {}
  <2>1. q \in Desks /\ desks[q].op = "written" BY <1>5 DEF Writers
  <2>2. FreeDesk.op = "free" BY DEF FreeDesk
  <2>3. DOMAIN rows \in SUBSET (Lessons \cup Covers) BY <1>1
  <2>4. q = r BY <1>1, <1>5, <2>1, <2>2, <2>3, FreedDesks
  <2>5. n \in DOMAIN rows /\ e \in DOMAIN rows /\ n \in Lessons /\ e \in Lessons
        /\ lesson[n] = None /\ lesson[e] # None
    BY <1>1, <1>5, <2>4 DEF Unused
  <2>6. lesson'[n] = rows[n] /\ lesson'[e] = rows[e] BY <1>1, <2>5
  <2>7. RowsKeepThePast(rows) BY <1>2, <1>5, <2>4
  <2> QED BY <2>5, <2>6, <2>7 DEF RowsKeepThePast
<1>6. ReplacementKeepsTheDays BY <1>5 DEF ReplacementKeepsTheDays
<1> QED BY <1>4, <1>6

-----------------------------------------------------------------------------
(* Every step.                                                               *)

\* An empty timetable is sound.
LEMMA LessonsStartSound ==
    ASSUME LessonsInit
    PROVE  LessonsAreSound
<1>1. LessonsTypeOK BY LessonsAssumption DEF LessonsInit, LessonsTypeOK, Days, Covers
<1>2. DesksTypeOK BY DEF LessonsInit, DesksTypeOK, DeskStates
<1>3. \A r \in Desks : desks[r].op = "free" BY DEF LessonsInit, FreeDesk
<1>4. DesksAreRight BY <1>3 DEF DesksAreRight, DeskIsRight
<1>5. HandsAreApart BY <1>3 DEF HandsAreApart, Apart
<1>6. ClashesAreKnown BY DEF LessonsInit, ClashesAreKnown, Clash
<1>7. CoversAreFree BY DEF LessonsInit, CoversAreFree
<1> QED BY <1>1, <1>2, <1>4, <1>5, <1>6, <1>7 DEF LessonsAreSound

\* A request's write leaves the lessons to its commit.
LEMMA WritesWait ==
    ASSUME NEW r \in Desks, NEW rows, NEW late, Write(r, rows, late)
    PROVE  UNCHANGED lesson
BY DEF Write

\* A step keeps the invariant, and the past.
LEMMA LessonsStepIsSound ==
    ASSUME LessonsAreSound, LessonsNext
    PROVE  LessonsAreSound' /\ PastLessonsStand /\ ReplacementKeepsTheDays
<1>1. ASSUME NEW r \in Desks, NEW e \in Lessons, NEW op \in {"rewrite", "split", "amend"},
             OpenDesk(r, op, e)
      PROVE  LessonsAreSound' /\ UNCHANGED lesson
  BY <1>1, OpenIsSound DEF OpenDesk
<1>2. ASSUME NEW r \in Desks, NEW e \in Lessons, NEW row \in Rows, CreateLesson(r, e, row)
      PROVE  LessonsAreSound' /\ UNCHANGED lesson
  <2>1. UNCHANGED lesson BY <1>2, WritesWait DEF CreateLesson
  <2> QED BY <1>2, <2>1, CreateIsSound
<1>3. ASSUME NEW r \in Desks, NEW e \in Lessons, NEW stop \in 1..LastDay + 1,
             NEW class \in Classes, NEW time \in Times, ReplaceLesson(r, e, stop, class, time)
      PROVE  LessonsAreSound' /\ UNCHANGED lesson
  <2>1. UNCHANGED lesson BY <1>3, WritesWait DEF ReplaceLesson
  <2> QED BY <1>3, <2>1, ReplaceIsSound
<1>4. ASSUME NEW r \in Desks, EditLesson(r) PROVE LessonsAreSound' /\ UNCHANGED lesson
  <2>1. UNCHANGED lesson BY <1>4, WritesWait, Zenon DEF EditLesson, Patch
  <2> QED BY <1>4, <2>1, EditIsSound, Zenon
<1>5. ASSUME NEW r \in Desks, NoteLesson(r) \/ RestoreLesson(r)
      PROVE  LessonsAreSound' /\ UNCHANGED lesson
  <2>1. UNCHANGED lesson BY <1>5, WritesWait DEF NoteLesson, RestoreLesson, Patch
  <2> QED BY <1>5, <2>1, AmendIsSound
<1>6. ASSUME NEW r \in Desks, WithdrawLesson(r) PROVE LessonsAreSound' /\ UNCHANGED lesson
  <2>1. UNCHANGED lesson BY <1>6, WritesWait DEF WithdrawLesson, Patch
  <2> QED BY <1>6, <2>1, WithdrawIsSound
<1>7. ASSUME NEW r \in Desks, NEW stop \in 1..LastDay + 1, EndLesson(r, stop)
      PROVE  LessonsAreSound' /\ UNCHANGED lesson
  <2>1. UNCHANGED lesson BY <1>7, WritesWait DEF EndLesson
  <2> QED BY <1>7, <2>1, EndIsSound
<1>8. ASSUME NEW r \in Desks, DeleteLesson(r) PROVE LessonsAreSound' /\ UNCHANGED lesson
  <2>1. UNCHANGED lesson BY <1>8, WritesWait DEF DeleteLesson
  <2> QED BY <1>8, <2>1, DeleteIsSound
<1>9. ASSUME NEW r \in Desks, Commit(r)
      PROVE  LessonsAreSound' /\ PastLessonsStand /\ ReplacementKeepsTheDays
  BY <1>9, CommitIsSound, CommitKeepsThePast
<1>10. ASSUME NEW r \in Desks, GiveUp(r) PROVE LessonsAreSound' /\ UNCHANGED lesson
  BY <1>10, GiveUpIsSound DEF GiveUp
<1>11. ASSUME NEW r \in Desks, NEW c \in Covers, AddCover(r, c)
       PROVE  LessonsAreSound' /\ UNCHANGED lesson
  BY <1>11, AddCoverIsSound DEF AddCover
<1>12. ASSUME NEW r \in Desks, CommitCover(r) PROVE LessonsAreSound' /\ UNCHANGED lesson
  BY <1>12, CommitCoverIsSound DEF CommitCover
<1>13. ASSUME NEW c \in Classes, NEW d \in Days, MarkClass(c, d)
       PROVE  LessonsAreSound' /\ UNCHANGED lesson
  <2>1. events' \in 0..MaxEvents /\ marked' \in SUBSET (Classes \X Days) /\ bell' \in Times
    BY <1>13, LessonsAssumption DEF MarkClass, Happens, LessonsAreSound, LessonsTypeOK
  <2>2. UNCHANGED <<day, lesson, covers, desks, overlapped, later>> BY <1>13 DEF MarkClass
  <2> QED BY <2>1, <2>2, SchoolIsSound
<1>14. ASSUME NEW time \in Times, MoveBell(time) PROVE LessonsAreSound' /\ UNCHANGED lesson
  <2>1. events' \in 0..MaxEvents /\ marked' \in SUBSET (Classes \X Days) /\ bell' \in Times
    BY <1>14, LessonsAssumption DEF MoveBell, Happens, LessonsAreSound, LessonsTypeOK
  <2>2. UNCHANGED <<day, lesson, covers, desks, overlapped, later>> BY <1>14 DEF MoveBell
  <2> QED BY <2>1, <2>2, SchoolIsSound
<1>15. ASSUME NextDay PROVE LessonsAreSound' /\ UNCHANGED lesson
  BY <1>15, NextDayIsSound DEF NextDay
<1> QED
  BY <1>1, <1>2, <1>3, <1>4, <1>5, <1>6, <1>7, <1>8, <1>9, <1>10, <1>11, <1>12, <1>13, <1>14,
     <1>15, PastStays DEF LessonsNext

\* Nothing happens.
LEMMA LessonsStutter ==
    ASSUME LessonsAreSound, UNCHANGED lessonVars
    PROVE  LessonsAreSound'
<1>1. UNCHANGED <<day, lesson, covers, desks, overlapped, later>>
      /\ bell' = bell /\ marked' = marked /\ events' = events
  BY DEF lessonVars
<1>2. events' \in 0..MaxEvents /\ marked' \in SUBSET (Classes \X Days) /\ bell' \in Times
  BY <1>1 DEF LessonsAreSound, LessonsTypeOK
<1> QED BY <1>1, <1>2, SchoolIsSound

\* Whatever the lessons, the requests and the year: no class and no teacher is in two
\* lessons at once, and no covering teacher is elsewhere, unless the requests that
\* wrote the two overlapped or the cover came first; and no request that acted on
\* what was still so changes what has been taught, or leaves a gap where it splits a
\* lesson (LessonsStand: the requests of routes/timetable.ts, computeRecurrenceStatus
\* and the triggers of migrations 0027 and 0046).
THEOREM TimetableStands == LessonsSpec => LessonsStand
<1>1. LessonsInit => LessonsAreSound BY LessonsStartSound
<1>2. LessonsAreSound /\ [LessonsNext]_lessonVars => LessonsAreSound'
  BY LessonsStepIsSound, LessonsStutter
<1>3. LessonsAreSound => LessonsTypeOK /\ ClashNeedsOverlap /\ CoversAreFree
  BY TwoPlacesClash DEF LessonsAreSound, ClashNeedsOverlap, ClashesAreKnown
<1>4. LessonsAreSound /\ [LessonsNext]_lessonVars
        => [PastLessonsStand /\ ReplacementKeepsTheDays]_lessonVars
  BY LessonsStepIsSound
<1> QED BY <1>1, <1>2, <1>3, <1>4, PTL DEF LessonsSpec, LessonsStand
=============================================================================
