--------------------------- MODULE MCSchoolOffice -----------------------------
(* An application for a place, and the timetable, which share no state, on    *)
(* small instances for TLC.  "focus" names the one that moves, the other      *)
(* stays where it starts.                                                     *)
EXTENDS AdmissionsWorkflow, TimetableLessons, TLC

VARIABLE focus

\* The two take the same values for their rows, and for their requests, so that TLC
\* needs no permutations of each.
Anyone ==
  Permutations(Sessions) \union Permutations(Entries) \union Permutations(Classes)
    \union Permutations(Staff) \union Permutations(Times)

\* The lessons of a timetable are linked to its periods, or none is; and if none is,
\* moving a period is no concern of theirs, and one event less will do.
LinkedAlike ==
  LET rows == {lesson[e] : e \in Lessons} \ {None} IN
  /\ \A a, b \in rows : a.linked = b.linked
  /\ (\E a \in rows : ~a.linked) => events < MaxEvents

OfficeInit ==
  /\ AdmissionsInit /\ LessonsInit
  /\ \/ focus = "admissions" /\ bell = CHOOSE time \in Times : TRUE
     \/ focus = "lessons" /\ application = "submitted"

OfficeNext ==
  /\ UNCHANGED focus
  /\ \/ focus = "admissions" /\ AdmissionsNext /\ UNCHANGED lessonVars
     \/ focus = "lessons" /\ LessonsNext /\ UNCHANGED admissionsVars

OfficeSpec == OfficeInit /\ [][OfficeNext]_<<focus, admissionsVars, lessonVars>>
===============================================================================
