----------------------------- MODULE LearningWork -----------------------------
(***************************************************************************)
(* One piece of learning work and one pupil's submission to it:            *)
(* routes/student.ts, routes/learning.ts, learning-pupil.ts, the rules of  *)
(* core/src/learning.ts and the triggers of migration 0018.                *)
(*                                                                         *)
(* A pupil's request reads the work and the submission, then the current   *)
(* revision, and only then writes; no row is locked in between, so the     *)
(* teacher, or the same pupil in another tab, may write first.  What the   *)
(* write meets is the transition trigger and the unique revision number.   *)
(***************************************************************************)
EXTENDS Naturals, Sequences

CONSTANTS
  WorkFiles,       \* files a pupil may attach
  PupilTabs,       \* requests of the pupil that may be in flight at once
  MaxRevisions,    \* bound: revisions of the submission
  NoBase           \* the current revision has not been read yet

ASSUME RevisionsAssumption == MaxRevisions \in Nat \ {0} /\ NoBase \notin 0..MaxRevisions

VARIABLES
  work,            \* status of the learning assignment
  submission,      \* status of the submission and the number of its current revision (0: null)
  revisions,       \* the files of each revision, in the order of their numbers
  mark,            \* the mark row: none, asking for the work again, or settled
  tabs,            \* the pupil's requests in flight
  strayed          \* history: files whose upload, or whose copy, was overtaken by a newer revision

workVars == <<work, submission, revisions, mark, tabs, strayed>>

WorkStatuses == {"draft", "published", "closed", "archived"}
SubmissionStatuses ==
  {"not_started", "in_progress", "submitted", "returned", "resubmission_requested", "completed"}
IdleTab == [op |-> "idle"]

WorkTypeOK ==
  /\ work \in WorkStatuses
  /\ submission.status \in SubmissionStatuses \union {"none"}
  /\ submission.current \in 0..MaxRevisions
  /\ revisions \in Seq(SUBSET WorkFiles) /\ Len(revisions) <= MaxRevisions
  /\ mark \in {"none", "again", "settled"}
  /\ \A t \in PupilTabs :
        tabs[t] = IdleTab \/ tabs[t].base \in {NoBase} \union 0..Len(revisions)
  /\ strayed \subseteq WorkFiles

WorkInit ==
  /\ work = "draft"
  /\ submission = [status |-> "none", current |-> 0]
  /\ revisions = <<>>
  /\ mark = "none"
  /\ tabs = [t \in PupilTabs |-> IdleTab]
  /\ strayed = {}

-----------------------------------------------------------------------------
(* The status machines, as the triggers enforce them *)

WorkMoves == { <<"draft", "published">>, <<"draft", "archived">>,
               <<"published", "closed">>, <<"published", "archived">>,
               <<"closed", "published">>, <<"closed", "archived">>,
               <<"archived", "closed">> }

SubmissionMoves ==
  { <<"not_started", "in_progress">>, <<"not_started", "submitted">>,
    <<"in_progress", "submitted">>,
    <<"submitted", "returned">>, <<"submitted", "completed">>,
    <<"submitted", "resubmission_requested">>,
    <<"returned", "completed">>, <<"returned", "resubmission_requested">>,
    <<"resubmission_requested", "in_progress">>, <<"resubmission_requested", "submitted">>,
    <<"resubmission_requested", "returned">>, <<"resubmission_requested", "completed">>,
    <<"completed", "resubmission_requested">> }

\* Mutant: the trigger lets work that was marked be handed in once more.
SubmissionAllowedAfterReturn(from, to) ==
  from = to \/ <<from, to>> \in SubmissionMoves \union { <<"returned", "submitted">> }

SubmissionAllowed(from, to) == from = to \/ <<from, to>> \in SubmissionMoves

\* pupilCanWriteOnAssignment, for a save as for a submit.
PupilMayWrite(assignment, status) ==
  /\ status \in {"not_started", "in_progress", "resubmission_requested"}
  /\ \/ assignment = "published"
     \/ assignment = "closed" /\ status \in {"resubmission_requested", "in_progress"}

-----------------------------------------------------------------------------
(* The teacher *)

\* Publish, close and archive update the status and let the trigger judge.
MoveWork(to) ==
  /\ <<work, to>> \in WorkMoves
  /\ work' = to
  /\ UNCHANGED <<submission, revisions, mark, tabs, strayed>>

\* One upsert of the mark and one update of the submission, in one transaction
\* that looks at neither: the trigger alone judges the status.
GiveMark(status) ==
  /\ submission.status # "none"
  /\ SubmissionAllowed(submission.status, status)
  /\ submission' = [submission EXCEPT !.status = status]
  /\ mark' = IF status = "resubmission_requested" THEN "again" ELSE "settled"
  /\ UNCHANGED <<work, revisions, tabs, strayed>>

-----------------------------------------------------------------------------
(* The pupil *)

\* The statuses are read and checked; a missing row is inserted as not_started,
\* unseen by others until the request commits.
OpenTab(t, op) ==
  LET absent == submission.status = "none" IN
  /\ tabs[t] = IdleTab
  /\ PupilMayWrite(work, IF absent THEN "not_started" ELSE submission.status)
  /\ tabs' = [tabs EXCEPT ![t] = [op |-> op, first |-> absent, base |-> NoBase]]
  /\ UNCHANGED <<work, submission, revisions, mark, strayed>>

\* The current revision is read: the one to copy the files from, or to attach to.
ReadBase(t) ==
  /\ tabs[t] # IdleTab
  /\ tabs[t].base = NoBase
  /\ tabs' = [tabs EXCEPT ![t].base = IF tabs[t].first THEN 0 ELSE submission.current]
  /\ UNCHANGED <<work, submission, revisions, mark, strayed>>

\* What a commit meets: one row per pupil and work, and the transition trigger.
Admitted(t, status) ==
  /\ tabs[t].base # NoBase
  /\ tabs[t].first => submission.status = "none"
  /\ SubmissionAllowed(IF tabs[t].first THEN "not_started" ELSE submission.status, status)

FilesOf(n) == IF n = 0 THEN {} ELSE revisions[n]

\* A save or a submit: a new revision with the files of the revision it read.
WriteRevision(t, op, status) ==
  /\ tabs[t].op = op
  /\ Len(revisions) < MaxRevisions
  /\ Admitted(t, status)
  /\ revisions' = Append(revisions, FilesOf(tabs[t].base))
  /\ submission' = [status |-> status, current |-> Len(revisions) + 1]
  /\ strayed' = IF tabs[t].base = submission.current
                THEN strayed
                ELSE strayed \union (FilesOf(submission.current) \ FilesOf(tabs[t].base))
  /\ tabs' = [tabs EXCEPT ![t] = IdleTab]
  /\ UNCHANGED <<work, mark>>

\* An attachment to the revision that was read.
AttachFile(t, f) ==
  LET n == tabs[t].base IN
  /\ tabs[t].op = "attach"
  /\ n \notin {NoBase, 0}
  /\ \A k \in 1..Len(revisions) : f \notin revisions[k]
  /\ revisions' = [revisions EXCEPT ![n] = @ \union {f}]
  /\ strayed' = IF n = submission.current THEN strayed ELSE strayed \union {f}
  /\ tabs' = [tabs EXCEPT ![t] = IdleTab]
  /\ UNCHANGED <<work, submission, mark>>

\* An attachment before anything was written: revision 1 is made for it, and the
\* unique number refuses it when another revision came first.
AttachFirst(t, f) ==
  /\ tabs[t].op = "attach"
  /\ tabs[t].base = 0
  /\ revisions = <<>>
  /\ Admitted(t, "in_progress")
  /\ revisions' = << {f} >>
  /\ submission' = [status |-> "in_progress", current |-> 1]
  /\ tabs' = [tabs EXCEPT ![t] = IdleTab]
  /\ UNCHANGED <<work, mark, strayed>>

TabFails(t) ==
  /\ tabs[t] # IdleTab
  /\ tabs' = [tabs EXCEPT ![t] = IdleTab]
  /\ UNCHANGED <<work, submission, revisions, mark, strayed>>

WorkNext ==
  \/ \E to \in WorkStatuses : MoveWork(to)
  \/ \E status \in {"returned", "completed", "resubmission_requested"} : GiveMark(status)
  \/ \E t \in PupilTabs :
        \/ \E op \in {"save", "submit", "attach"} : OpenTab(t, op)
        \/ ReadBase(t)
        \/ WriteRevision(t, "save", "in_progress")
        \/ WriteRevision(t, "submit", "submitted")
        \/ \E f \in WorkFiles : AttachFile(t, f) \/ AttachFirst(t, f)
        \/ TabFails(t)

WorkSpec == WorkInit /\ [][WorkNext]_workVars

-----------------------------------------------------------------------------
(* Properties *)

\* The verdict a pupil reads and the status of the work agree: settled work stays
\* settled, whatever the pupil had in flight when it was marked.
VerdictStands ==
  /\ mark = "settled" => submission.status \in {"returned", "completed"}
  /\ mark = "again" => submission.status \in {"resubmission_requested", "in_progress", "submitted"}
  /\ mark = "none" => submission.status \in {"none", "not_started", "in_progress", "submitted"}

\* The teacher is shown the newest revision, with every file the pupil attached
\* but those an overlapping request left behind.
NewestIsShown ==
  /\ submission.current = Len(revisions)
  /\ \A n \in 1..Len(revisions) :
        revisions[n] \subseteq FilesOf(submission.current) \union strayed

\* What is handed in is kept and the verdict on it stands (the two formulas above,
\* with the type invariant).
WorkIsKept == WorkTypeOK /\ VerdictStands /\ NewestIsShown
=============================================================================
