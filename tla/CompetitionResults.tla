-------------------------- MODULE CompetitionResults --------------------------
(***************************************************************************)
(* One competition scored by its teachers, and the board it is frozen to:  *)
(* routes/engagement.ts, api/src/engagement-service.ts and the trigger and *)
(* grants of migration 0034.                                               *)
(*                                                                         *)
(* A score and a completion check result_frozen without locking the row of *)
(* the competition, so a score that passed its trigger may be committed    *)
(* after the board was read, and two completions may both freeze one.      *)
(***************************************************************************)
EXTENDS Naturals, Sequences

CONSTANTS
  Entrants,        \* the pupils who take part
  Judges,          \* requests that may be in flight at once
  MaxScore         \* bound: the largest score; 0 says that none was recorded

ASSUME MaxScoreAssumption == MaxScore \in Nat \ {0}

VARIABLES
  contest,         \* status, result_frozen, and whether competitions are enabled for the school
  scores,          \* competition_manual_scores
  boards,          \* competition_results: what each completion inserted
  judges,          \* the requests in flight
  crossings        \* history: "late" a score was committed after the board was read,
                   \* "twice" a completion found the results frozen when it ended,
                   \* "disabled" one read its board with competitions switched off

contestVars == <<contest, scores, boards, judges, crossings>>

NoCall == [op |-> "none"]
Scoreboards == [Entrants -> 0..MaxScore]

ContestTypeOK ==
  /\ contest \in [status : {"draft", "published", "completed"}, frozen : BOOLEAN,
                  enabled : BOOLEAN]
  /\ scores \in Scoreboards
  /\ \A k \in 1..Len(boards) : boards[k] \in Scoreboards
  /\ \A j \in Judges : judges[j].op \in {"none", "publish", "score", "complete", "freeze"}
  /\ crossings \subseteq {"late", "twice", "disabled"}

ContestInit ==
  /\ contest \in [status : {"draft"}, frozen : {FALSE}, enabled : BOOLEAN]
  /\ scores = [e \in Entrants |-> 0]
  /\ boards = <<>>
  /\ judges = [j \in Judges |-> NoCall]
  /\ crossings = {}

-----------------------------------------------------------------------------
(* Publishing and scoring *)

Call(j, request) == judges' = [judges EXCEPT ![j] = request]
Crossed(kind, when) == crossings' = IF when THEN crossings \union {kind} ELSE crossings

PublishContestRead(j) ==
  /\ judges[j] = NoCall
  /\ contest.status \in {"draft", "published"}
  /\ Call(j, [op |-> "publish"])
  /\ UNCHANGED <<contest, scores, boards, crossings>>

\* The trigger keeps a completed competition completed.
PublishContest(j) ==
  /\ judges[j].op = "publish"
  /\ contest.status # "completed"
  /\ contest' = [contest EXCEPT !.status = "published"]
  /\ Call(j, NoCall)
  /\ UNCHANGED <<scores, boards, crossings>>

\* Mutant: a score is taken whether or not the results are frozen.
ScoredAnyTime == TRUE

\* The route asks this before its write, the trigger during it.
MayScore == ~contest.frozen

\* The statement of a score; the scores of one pupil wait for each other.  Nothing
\* keeps the competition from being frozen until the score is committed.
ScoreStatement(j, e, score) ==
  /\ judges[j] = NoCall
  /\ MayScore
  /\ \A i \in Judges : judges[i].op = "score" => judges[i].entrant # e
  /\ Call(j, [op |-> "score", entrant |-> e, score |-> score, open |-> ~contest.frozen])
  /\ UNCHANGED <<contest, scores, boards, crossings>>

\* Late is a score that its trigger let through before the freeze and that is
\* committed after the board of a completion was read.
ScoreCommit(j) ==
  /\ judges[j].op = "score"
  /\ scores' = [scores EXCEPT ![judges[j].entrant] = judges[j].score]
  /\ Crossed("late", judges[j].open
       /\ (contest.frozen \/ \E i \in Judges : judges[i].op = "freeze"))
  /\ Call(j, NoCall)
  /\ UNCHANGED <<contest, boards>>

-----------------------------------------------------------------------------
(* Completing *)

\* freezeCompetitionResults first reads result_frozen; any status will do.
CompleteRead(j) ==
  /\ judges[j] = NoCall
  /\ ~contest.frozen
  /\ Call(j, [op |-> "complete"])
  /\ UNCHANGED <<contest, scores, boards, crossings>>

\* buildLeaderboard reads the row again: no entries when competitions are switched
\* off, the frozen results when another completion has ended, the scores otherwise.
BuildLeaderboard(j) ==
  LET entries == IF ~contest.enabled THEN <<>>
                 ELSE IF contest.frozen THEN boards ELSE <<scores>> IN
  /\ judges[j].op = "complete"
  /\ Call(j, [op |-> "freeze", entries |-> entries])
  /\ Crossed("disabled", ~contest.enabled)
  /\ UNCHANGED <<contest, scores, boards>>

\* The entries are inserted and the competition is frozen.
FreezeResults(j) ==
  /\ judges[j].op = "freeze"
  /\ boards' = boards \o judges[j].entries
  /\ contest' = [contest EXCEPT !.status = "completed", !.frozen = TRUE]
  /\ Crossed("twice", contest.frozen)
  /\ Call(j, NoCall)
  /\ UNCHANGED scores

\* The school switches competitions on or off.
SwitchCompetitions(on) ==
  /\ contest' = [contest EXCEPT !.enabled = on]
  /\ UNCHANGED <<scores, boards, judges, crossings>>

CallFails(j) ==
  /\ judges[j] # NoCall
  /\ Call(j, NoCall)
  /\ UNCHANGED <<contest, scores, boards, crossings>>

ContestNext ==
  \/ \E j \in Judges :
        \/ PublishContestRead(j)
        \/ PublishContest(j)
        \/ \E e \in Entrants, score \in 1..MaxScore : ScoreStatement(j, e, score)
        \/ ScoreCommit(j)
        \/ CompleteRead(j)
        \/ BuildLeaderboard(j)
        \/ FreezeResults(j)
        \/ CallFails(j)
  \/ \E on \in BOOLEAN : SwitchCompetitions(on)

ContestSpec == ContestInit /\ [][ContestNext]_contestVars

-----------------------------------------------------------------------------
(* Properties *)

\* What a competition is frozen to is one board, and it is the board of the scores,
\* unless a score or a second completion crossed the completion, or competitions were
\* switched off when it was read.
BoardIsTheScores ==
  contest.frozen /\ crossings = {} => boards = <<scores>>

\* The results are frozen exactly when the competition is completed, and there is
\* nothing to show before.
FrozenIsCompleted ==
  /\ contest.frozen <=> contest.status = "completed"
  /\ ~contest.frozen => boards = <<>>

\* Frozen results are neither rewritten nor taken back, and rows are added to them
\* only by a completion that overlapped the first.
FrozenStays ==
  contest.frozen =>
    /\ contest'.frozen
    /\ SubSeq(boards', 1, Len(boards)) = boards
    /\ boards' # boards => "twice" \in crossings'

\* "Frozen competition results must not be rewritten by later scoring" (migration
\* 0034): the three formulas above, with the type invariant.
ResultsStayFrozen ==
  [](ContestTypeOK /\ BoardIsTheScores /\ FrozenIsCompleted) /\ [][FrozenStays]_contestVars
=============================================================================
