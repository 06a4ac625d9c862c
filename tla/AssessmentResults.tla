--------------------------- MODULE AssessmentResults ---------------------------
(***************************************************************************)
(* One formal assessment and the results of its pupils:                    *)
(* routes/assessments.ts, core/src/assessments.ts and the triggers of      *)
(* migrations 0019 and 0021.                                               *)
(*                                                                         *)
(* Entering results and editing the definition read the assessment, check  *)
(* its status, and write without having locked it, so the assessment may   *)
(* be completed, reviewed or published in between.                         *)
(***************************************************************************)
EXTENDS Naturals

CONSTANTS
  Sitters,         \* the pupils who may sit the assessment
  Teachers,        \* requests that may be in flight at once
  MaxMarks         \* bound: the largest maximum the definition may have

ASSUME MaxMarksAssumption == MaxMarks \in Nat \ {0}

VARIABLES
  assessment,      \* status, maximum marks, and whether it was ever published
  included,        \* academic_assessment_inclusions: the snapshot of the pupils
  results,         \* the result of a pupil: score, maximum, released, review status
  teachers,        \* the requests in flight
  told,            \* the pupils whose released result was announced
  late             \* history: pupils whose result was written by a request older than the publication

resultVars == <<assessment, included, results, teachers, told, late>>

AssessmentStatuses == {"draft", "open", "completed", "reviewed", "published", "archived"}
NoTask == [op |-> "none"]
NoResult == [review |-> "none"]
Result(score, max, released, review) ==
  [score |-> score, max |-> max, released |-> released, review |-> review]

ResultsTypeOK ==
  /\ assessment \in [status : AssessmentStatuses, max : 1..MaxMarks, published : BOOLEAN]
  /\ included \subseteq Sitters
  /\ \A p \in Sitters :
        \/ results[p] = NoResult
        \/ /\ results[p].score \in 0..results[p].max
           /\ results[p].max \in 1..MaxMarks
           /\ p \in included
  /\ \A t \in Teachers : teachers[t] = NoTask \/ teachers[t].op \in {"enter", "edit"}
  /\ told \subseteq Sitters /\ late \subseteq Sitters

ResultsInit ==
  /\ assessment = [status |-> "draft", max |-> 1, published |-> FALSE]
  /\ included = {}
  /\ results = [p \in Sitters |-> NoResult]
  /\ teachers = [t \in Teachers |-> NoTask]
  /\ told = {}
  /\ late = {}

-----------------------------------------------------------------------------
(* The status machine and the checks *)

AssessmentMoves ==
  { <<"draft", "open">>, <<"draft", "archived">>, <<"open", "completed">>, <<"open", "archived">>,
    <<"completed", "reviewed">>, <<"completed", "published">>, <<"completed", "open">>,
    <<"reviewed", "published">>, <<"reviewed", "completed">>,
    <<"published", "archived">>, <<"archived", "published">> }

AssessmentAllowed(from, to) == from = to \/ <<from, to>> \in AssessmentMoves

\* Mutant: results may still be entered once the assessment is published.
EnterableAfterPublication(status) == status \in {"open", "completed", "reviewed", "published"}

CanEnterResults(status) == status \in {"open", "completed", "reviewed"}

-----------------------------------------------------------------------------
(* The routes that move the assessment *)

\* Opening takes the pupils enrolled at that moment into the snapshot, and
\* opening again adds those who have come since.
OpenAssessment(pupils) ==
  /\ AssessmentAllowed(assessment.status, "open")
  /\ assessment' = [assessment EXCEPT !.status = "open"]
  /\ included' = included \union pupils
  /\ UNCHANGED <<results, teachers, told, late>>

MoveAssessment(to) ==
  /\ <<assessment.status, to>> \in AssessmentMoves
  /\ assessment' = [assessment EXCEPT !.status = to]
  /\ UNCHANGED <<included, results, teachers, told, late>>

\* Publishing, also a second time or out of the archive, announces every result
\* that is released.
PublishAssessment ==
  /\ AssessmentAllowed(assessment.status, "published")
  /\ assessment' = [assessment EXCEPT !.status = "published", !.published = TRUE]
  /\ told' = told \union {p \in Sitters : results[p] # NoResult /\ results[p].released}
  /\ UNCHANGED <<included, results, teachers, late>>

-----------------------------------------------------------------------------
(* Editing the definition and entering results *)

EditRead(t) ==
  /\ teachers[t] = NoTask
  /\ assessment.status \in {"draft", "open"}
  /\ teachers' = [teachers EXCEPT ![t] = [op |-> "edit"]]
  /\ UNCHANGED <<assessment, included, results, told, late>>

\* The status is not looked at again, and results entered against another
\* maximum keep theirs.
EditWrite(t, max) ==
  /\ teachers[t].op = "edit"
  /\ assessment' = [assessment EXCEPT !.max = max]
  /\ teachers' = [teachers EXCEPT ![t] = NoTask]
  /\ UNCHANGED <<included, results, told, late>>

EnterRead(t, p) ==
  /\ teachers[t] = NoTask
  /\ CanEnterResults(assessment.status)
  /\ teachers' = [teachers EXCEPT ![t] = [op |-> "enter", pupil |-> p, max |-> assessment.max,
                                          published |-> assessment.published]]
  /\ UNCHANGED <<assessment, included, results, told, late>>

\* The route measures the score against the maximum that it read.  The trigger wants
\* the pupil included, measures the score once more and stores the maximum that the
\* definition has now.
\* A release is announced only by a request that read a published assessment.
EnterWrite(t, score, release) ==
  LET p == teachers[t].pupil
      old == results[p]
      released == IF release = "keep" THEN old # NoResult /\ old.released ELSE release = "yes" IN
  /\ teachers[t].op = "enter"
  /\ score <= teachers[t].max
  /\ p \in included
  /\ score <= assessment.max
  /\ results' = [results EXCEPT ![p] =
                   Result(score, assessment.max, released,
                          IF old = NoResult THEN "entered" ELSE old.review)]
  /\ told' = IF teachers[t].published /\ released /\ ~(old # NoResult /\ old.released)
             THEN told \union {p} ELSE told
  /\ late' = IF assessment.published /\ ~teachers[t].published THEN late \union {p} ELSE late
  /\ teachers' = [teachers EXCEPT ![t] = NoTask]
  /\ UNCHANGED <<assessment, included>>

TaskFails(t) ==
  /\ teachers[t] # NoTask
  /\ teachers' = [teachers EXCEPT ![t] = NoTask]
  /\ UNCHANGED <<assessment, included, results, told, late>>

\* A review touches the row whatever the status of the assessment, and the trigger
\* brings the stored maximum up to the present one.
ReviewResult(p, verdict) ==
  /\ results[p] # NoResult
  /\ results[p].score <= assessment.max
  /\ results' = [results EXCEPT ![p].review = verdict, ![p].max = assessment.max]
  /\ UNCHANGED <<assessment, included, teachers, told, late>>

ResultsNext ==
  \/ \E pupils \in SUBSET Sitters : OpenAssessment(pupils)
  \/ \E to \in {"completed", "reviewed", "archived"} : MoveAssessment(to)
  \/ PublishAssessment
  \/ \E t \in Teachers :
        \/ EditRead(t)
        \/ \E max \in 1..MaxMarks : EditWrite(t, max)
        \/ \E p \in Sitters : EnterRead(t, p)
        \/ \E score \in 0..MaxMarks, release \in {"yes", "no", "keep"} :
              EnterWrite(t, score, release)
        \/ TaskFails(t)
  \/ \E p \in Sitters, verdict \in {"reviewed", "approved"} : ReviewResult(p, verdict)

ResultsSpec == ResultsInit /\ [][ResultsNext]_resultVars

-----------------------------------------------------------------------------
(* Properties *)

\* A family can see a result when it is released and the assessment published.
VisibleTo(p) == assessment.published /\ results[p] # NoResult /\ results[p].released

\* What a family can see it was told of, unless the result was written by a
\* request that had read the assessment before it was published.
VisibleIsAnnounced == \A p \in Sitters : VisibleTo(p) => p \in told \union late

\* The score and the release of a published result move only under such a request,
\* or not at all: entry is closed by then.  (Its maximum may follow the definition
\* at a review.)
PublishedStays ==
  \A p \in Sitters :
    assessment.published /\ results'[p] # NoResult =>
      \/ p \in late'
      \/ /\ results[p] # NoResult
         /\ results'[p].score = results[p].score
         /\ results'[p].released = results[p].released

\* ADR 0017: published results are official and the portal follows the
\* publication (the two formulas above, with the type invariant).
ResultsStand == [](ResultsTypeOK /\ VisibleIsAnnounced) /\ [][PublishedStays]_resultVars
=============================================================================
