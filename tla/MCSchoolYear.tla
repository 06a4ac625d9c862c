----------------------------- MODULE MCSchoolYear -----------------------------
(* Six components that share no state, on small instances for TLC: the       *)
(* statutory census, learning work, assessment results, pupil reports,       *)
(* practice rewards and competitions.  "focus" names the one that moves, the *)
(* others stay where they start.                                             *)
EXTENDS CensusRuns, LearningWork, AssessmentResults, PupilReports, PracticeRewards,
        CompetitionResults, TLC

CONSTANTS x1, x2, r1, r2, blank, text

VARIABLE focus

\* What the requests are about, and the requests: the components take the same
\* values, so that TLC needs no permutations of each of them.
Things     == {x1, x2}
Requests   == {r1, r2}
TwoTexts   == {blank, text}
Anyone     == Permutations(Things) \cup Permutations(Requests)

YearInit ==
  /\ focus \in {"census", "work", "results", "reports", "practice", "contest"}
  /\ CensusInit /\ WorkInit /\ ResultsInit /\ ReportsInit
  /\ PracticeInit /\ (focus # "practice" => policy.xp)
  /\ ContestInit /\ (focus # "contest" => contest.enabled)

YearNext ==
  /\ UNCHANGED focus
  /\ \/ /\ focus = "census" /\ CensusNext
        /\ UNCHANGED <<workVars, resultVars, reportVars, practiceVars, contestVars>>
     \/ /\ focus = "work" /\ WorkNext
        /\ UNCHANGED <<censusVars, resultVars, reportVars, practiceVars, contestVars>>
     \/ /\ focus = "results" /\ ResultsNext
        /\ UNCHANGED <<censusVars, workVars, reportVars, practiceVars, contestVars>>
     \/ /\ focus = "reports" /\ ReportsNext
        /\ UNCHANGED <<censusVars, workVars, resultVars, practiceVars, contestVars>>
     \/ /\ focus = "practice" /\ PracticeNext
        /\ UNCHANGED <<censusVars, workVars, resultVars, reportVars, contestVars>>
     \/ /\ focus = "contest" /\ ContestNext
        /\ UNCHANGED <<censusVars, workVars, resultVars, reportVars, practiceVars>>

YearSpec ==
  YearInit
    /\ [][YearNext]_<<focus, censusVars, workVars, resultVars, reportVars, practiceVars,
                     contestVars>>
===============================================================================
