---------------------------- MODULE PracticeRewards ----------------------------
(***************************************************************************)
(* One pupil, one practice activity, and what the pupil earns: attempts,   *)
(* the XP ledger, rewards and one achievement for a total of reward        *)
(* points.  api/src/engagement-service.ts, routes/engagement.ts and the    *)
(* triggers and indexes of migrations 0034 and 0035.                       *)
(*                                                                         *)
(* No request locks a row of the pupil.  Two requests meet only where one  *)
(* waits for the other's uncommitted unique key: the answers of an attempt *)
(* and the XP of the activity.                                             *)
(***************************************************************************)
EXTENDS Integers, Sequences, FiniteSets

CONSTANTS
  PlayChannels,    \* the channels an attempt is played on: the pupil's, the parent's
  Players,         \* requests that may be in flight at once
  AttemptsAllowed, \* attempts_allowed of the activity
  MaxRewards,      \* bound: rows of pupil_rewards
  BadgeAt          \* reward points the achievement asks for

ASSUME PracticeAssumption ==
  AttemptsAllowed \in Nat \ {0} /\ MaxRewards \in Nat /\ BadgeAt \in Nat \ {0}

VARIABLES
  policy,          \* whether XP is enabled for the year group
  attempts,        \* the attempts: channel, number, completed
  xpEvents,        \* pupil_xp_events: how many rows a source type and id have
  rewards,         \* pupil_rewards: kind, active, XP awarded
  badge,           \* whether the achievement was awarded
  players,         \* the requests in flight
  overlaps         \* history: which pairs of requests overlapped without waiting

practiceVars == <<policy, attempts, xpEvents, rewards, badge, players, overlaps>>

NoPlay == [op |-> "none"]
ActivityId == 0

\* The XP of the activity, of a reward and of the reward's reversal: one point each.
XpKeys == {<<"learning_attempt", ActivityId>>}
            \union ({"reward", "reversal"} \X (1..MaxRewards))

PracticeTypeOK ==
  /\ policy \in [xp : BOOLEAN]
  /\ \A i \in 1..Len(attempts) :
        attempts[i] \in [channel : PlayChannels, number : 1..AttemptsAllowed, done : BOOLEAN]
  /\ xpEvents \in [XpKeys -> Nat]
  /\ \A k \in 1..Len(rewards) :
        rewards[k] \in [kind : {"manual", "learning_activity"}, active : BOOLEAN, xp : 0..1]
  /\ badge \in BOOLEAN
  /\ \A r \in Players : players[r].op \in {"none", "start", "scored", "award"}
  /\ overlaps \subseteq {"start", "reward", "badge"}

PracticeInit ==
  /\ policy \in [xp : BOOLEAN]
  /\ attempts = <<>>
  /\ xpEvents = [key \in XpKeys |-> 0]
  /\ rewards = <<>>
  /\ badge = FALSE
  /\ players = [r \in Players |-> NoPlay]
  /\ overlaps = {}

-----------------------------------------------------------------------------
(* The ledgers *)

XpRecorded(source, id) == <<source, id>> \in XpKeys /\ xpEvents[<<source, id>>] > 0

\* Mutant: the row is inserted whether or not its key is there.
XpInsertedAgain(source, id) == [xpEvents EXCEPT ![<<source, id>>] = @ + 1]

\* insert ... on conflict (source_type, source_id) do nothing.
XpInserted(source, id) ==
  IF XpRecorded(source, id) THEN xpEvents ELSE [xpEvents EXCEPT ![<<source, id>>] = @ + 1]

\* reverseXpForSource: a compensating row for the XP the reward granted.
XpReversed(id) ==
  IF XpRecorded("reward", id) THEN XpInserted("reversal", id) ELSE xpEvents

ActiveRewards(rows) == {k \in 1..Len(rows) : rows[k].active}
ActiveLearning(rows) == {k \in ActiveRewards(rows) : rows[k].kind = "learning_activity"}

\* evaluateAchievements: the request counts the points it sees, its own row with the
\* committed ones, one point a reward; a badge once awarded is never taken back.
Evaluated(seen) == badge \/ seen >= BadgeAt

\* The points were counted before a reward of another request was committed.
CountedShort(seen, rows) == seen < Cardinality(ActiveRewards(rows))

Idle(r) == players' = [players EXCEPT ![r] = NoPlay]

-----------------------------------------------------------------------------
(* Playing *)

\* The open attempt of the channel is resumed, which changes nothing; otherwise
\* the attempts are counted.
StartRead(r, ch) ==
  /\ players[r] = NoPlay
  /\ ~\E i \in 1..Len(attempts) : attempts[i].channel = ch /\ ~attempts[i].done
  /\ Len(attempts) < AttemptsAllowed
  /\ players' = [players EXCEPT ![r] = [op |-> "start", channel |-> ch, used |-> Len(attempts)]]
  /\ UNCHANGED <<policy, attempts, xpEvents, rewards, badge, overlaps>>

StartWrite(r) ==
  /\ players[r].op = "start"
  /\ attempts' = Append(attempts, [channel |-> players[r].channel,
                                   number |-> players[r].used + 1, done |-> FALSE])
  /\ overlaps' = IF players[r].used = Len(attempts) THEN overlaps
                 ELSE overlaps \union {"start"}
  /\ Idle(r)
  /\ UNCHANGED <<policy, xpEvents, rewards, badge>>

\* The requests that have scored and not yet committed.
Scored == {r \in Players : players[r].op = "scored"}

\* The answers are written, the XP is granted, the activity's reward looked for and the
\* points counted.  The answers wait for another submission of the attempt, a
\* completed attempt is answered as it is or refused by the trigger of the answers,
\* and the XP row waits for another first grant.  (A submission below the threshold
\* leaves its attempt in progress and earns nothing: its answers are not modelled.)
Score(r, i) ==
  LET grants == policy.xp /\ ~XpRecorded("learning_attempt", ActivityId)
      rewarding == ActiveLearning(rewards) = {} IN
  /\ players[r] = NoPlay
  /\ ~attempts[i].done
  /\ \A o \in Scored : players[o].attempt # i
  /\ grants => \A o \in Scored : ~players[o].grants
  /\ rewarding => Len(rewards) < MaxRewards
  /\ players' = [players EXCEPT ![r] =
                   [op |-> "scored", attempt |-> i, grants |-> grants, rewards |-> rewarding,
                    seen |-> Cardinality(ActiveRewards(rewards)) + IF rewarding THEN 1 ELSE 0]]
  /\ overlaps' = IF rewarding /\ \E o \in Scored : players[o].rewards
                 THEN overlaps \union {"reward"} ELSE overlaps
  /\ UNCHANGED <<policy, attempts, xpEvents, rewards, badge>>

\* The attempt is completed, the badge given, and all of it commits.
SubmitCommit(r) ==
  LET p == players[r]
      rows == IF p.rewards
              THEN Append(rewards, [kind |-> "learning_activity", active |-> TRUE, xp |-> 0])
              ELSE rewards IN
  /\ p.op = "scored"
  /\ attempts' = [attempts EXCEPT ![p.attempt].done = TRUE]
  /\ xpEvents' = IF p.grants THEN XpInserted("learning_attempt", ActivityId) ELSE xpEvents
  /\ rewards' = rows
  /\ badge' = Evaluated(p.seen)
  /\ overlaps' = IF CountedShort(p.seen, rows) THEN overlaps \union {"badge"} ELSE overlaps
  /\ Idle(r)
  /\ UNCHANGED policy

-----------------------------------------------------------------------------
(* Rewards given by hand *)

\* The reward and its XP are inserted and the points counted, the request's own
\* row with those committed.
AwardWrite(r) ==
  /\ players[r] = NoPlay
  /\ Len(rewards) < MaxRewards
  /\ players' = [players EXCEPT ![r] =
                   [op |-> "award", xp |-> IF policy.xp THEN 1 ELSE 0,
                    seen |-> Cardinality(ActiveRewards(rewards)) + 1]]
  /\ UNCHANGED <<policy, attempts, xpEvents, rewards, badge, overlaps>>

AwardCommit(r) ==
  LET p == players[r]
      k == Len(rewards) + 1
      rows == Append(rewards, [kind |-> "manual", active |-> TRUE, xp |-> p.xp]) IN
  /\ p.op = "award"
  /\ Len(rewards) < MaxRewards
  /\ rewards' = rows
  /\ xpEvents' = IF p.xp > 0 THEN XpInserted("reward", k) ELSE xpEvents
  /\ badge' = Evaluated(p.seen)
  /\ overlaps' = IF CountedShort(p.seen, rows) THEN overlaps \union {"badge"} ELSE overlaps
  /\ Idle(r)
  /\ UNCHANGED <<policy, attempts>>

\* A reward is revoked once, but the request may be repeated; the XP of a learning
\* reward was granted under the activity and stays.
RevokeReward(k) ==
  /\ rewards' = [rewards EXCEPT ![k].active = FALSE]
  /\ xpEvents' = XpReversed(k)
  /\ UNCHANGED <<policy, attempts, badge, players, overlaps>>

\* The school turns XP on or off for the year group.
SetPolicy(xp) ==
  /\ policy' = [xp |-> xp]
  /\ UNCHANGED <<attempts, xpEvents, rewards, badge, players, overlaps>>

PlayFails(r) ==
  /\ players[r] # NoPlay
  /\ Idle(r)
  /\ UNCHANGED <<policy, attempts, xpEvents, rewards, badge, overlaps>>

PracticeNext ==
  \/ \E r \in Players :
        \/ \E ch \in PlayChannels : StartRead(r, ch)
        \/ StartWrite(r)
        \/ \E i \in 1..Len(attempts) : Score(r, i)
        \/ SubmitCommit(r)
        \/ AwardWrite(r)
        \/ AwardCommit(r)
        \/ PlayFails(r)
  \/ \E k \in 1..Len(rewards) : RevokeReward(k)
  \/ \E xp \in BOOLEAN : SetPolicy(xp)

PracticeSpec == PracticeInit /\ [][PracticeNext]_practiceVars

-----------------------------------------------------------------------------
(* Properties *)

\* The XP of a reward is what it awarded while it is active and nothing once it is
\* revoked, however often the revocation is repeated; the activity grants once.
XpFollowsRewards ==
  /\ \A k \in 1..Len(rewards) \intersect (1..MaxRewards) :
        xpEvents[<<"reward", k>>] - xpEvents[<<"reversal", k>>]
          = IF rewards[k].active THEN rewards[k].xp ELSE 0
  /\ xpEvents[<<"learning_attempt", ActivityId>>] <= 1
  /\ XpRecorded("learning_attempt", ActivityId) => \E i \in 1..Len(attempts) : attempts[i].done

\* An activity has one active reward, unless two completions looked for it before
\* either committed: only a first XP grant makes one wait for the other.
OneLearningReward == "reward" \notin overlaps => Cardinality(ActiveLearning(rewards)) <= 1

\* A pupil with the points has the badge, unless two rewards were counted apart.
BadgeFollowsPoints ==
  Cardinality(ActiveRewards(rewards)) >= BadgeAt => badge \/ "badge" \in overlaps

\* The attempts stay within what is allowed and are numbered apart, unless two
\* starts overlapped.
AttemptsWithinLimit ==
  "start" \notin overlaps =>
    /\ Len(attempts) <= AttemptsAllowed
    /\ \A i, j \in 1..Len(attempts) : i # j => attempts[i].number # attempts[j].number

\* An attempt that was completed stays completed.
CompletedStays == \A i \in 1..Len(attempts) : attempts[i].done => attempts'[i].done

\* ADR 0028: rewards, XP and attempts are booked once and XP is compensated, never
\* rewritten (the formulas above, with the type invariant).
RewardsAreFair ==
  /\ [](PracticeTypeOK /\ XpFollowsRewards /\ OneLearningReward
        /\ BadgeFollowsPoints /\ AttemptsWithinLimit)
  /\ [][CompletedStays]_practiceVars
=============================================================================
