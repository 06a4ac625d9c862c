---------------------------- MODULE WebhookClaims ----------------------------
(***************************************************************************)
(* How concurrent webhook deliveries share one row per provider event:     *)
(* claim_payment_provider_event and finish_payment_provider_event          *)
(* (migration 0066) and the handler processVerifiedPaymentEvent around     *)
(* them (packages/api/src/routes/webhooks-payments.ts).                    *)
(*                                                                         *)
(* A delivery is handled by a worker in separate database transactions:    *)
(* claim, settle, finish, record the result, answer.  Between any two of   *)
(* them the process may die, a statement may fail, or more than the two    *)
(* minutes may pass after which another delivery takes the claim over.     *)
(* What settling does is left to the module that extends this one.         *)
(***************************************************************************)
EXTENDS Integers, FiniteSets

CONSTANTS
    EventIds,   \* provider_key and event_id of the provider's events
    Workers,    \* deliveries being handled at the same time
    MaxCrashes, \* bound: deaths of a worker, or of its answer, in a behaviour
    MaxFailures \* bound: statements that fail in a behaviour

ASSUME ClaimsAssumption == MaxCrashes \in Nat /\ MaxFailures \in Nat

VARIABLES
    row,     \* status of an event's row in school_payment_provider_events
    stale,   \* events whose row was last claimed more than two minutes ago
    worker,  \* what each delivery in progress has done so far
    acked,   \* events the provider has had a 2xx answer for
    crashes, \* crashes so far, to bound them
    failures \* failed statements so far, to bound them

claimVars == <<row, stale, worker, acked, crashes, failures>>

Terminal  == {"processed", "ignored", "manual_review"}
RowStatus == {"none", "processing", "failed"} \cup Terminal

Idle == [pc |-> "idle"]
Claimed(e)       == [pc |-> "claimed", event |-> e]
Settled(e, res)  == [pc |-> "settled", event |-> e, result |-> res]
Finished(e)      == [pc |-> "finished", event |-> e]

SettleResults == {"settled", "noop", "ignored", "manual_review", "error"}

ClaimsTypeOK ==
    /\ row \in [EventIds -> RowStatus]
    /\ stale \subseteq EventIds
    /\ worker \in [Workers -> {Idle} \cup {Claimed(e) : e \in EventIds}
                                \cup {Settled(e, res) : e \in EventIds, res \in SettleResults}
                                \cup {Finished(e) : e \in EventIds}]
    /\ acked \subseteq EventIds
    /\ crashes \in 0 .. MaxCrashes
    /\ failures \in 0 .. MaxFailures

ClaimsInit ==
    /\ row    = [e \in EventIds |-> "none"]
    /\ stale  = {}
    /\ worker = [w \in Workers |-> Idle]
    /\ acked  = {}
    /\ crashes = 0
    /\ failures = 0

\* Mutant: a claim is never taken over.
ClaimableUnlessTaken(e) == row[e] \in {"none", "failed"}

\* A row a delivery may claim: new, failed, or processing for too long.
Claimable(e) ==
    \/ row[e] \in {"none", "failed"}
    \/ row[e] = "processing" /\ e \in stale

\* claim_payment_provider_event grants the event to this delivery.
Claim(w, e) ==
    /\ worker[w] = Idle
    /\ Claimable(e)
    /\ row' = [row EXCEPT ![e] = "processing"]
    /\ stale' = stale \ {e}
    /\ worker' = [worker EXCEPT ![w] = Claimed(e)]
    /\ UNCHANGED <<acked, crashes, failures>>

\* A delivery of an event that is already decided is answered at once.  (One
\* that finds it in progress gets 409 and changes nothing.)
AnswerReplay(w, e) ==
    /\ worker[w] = Idle
    /\ row[e] \in Terminal
    /\ acked' = acked \cup {e}
    /\ UNCHANGED <<row, stale, worker, crashes, failures>>

\* The settlement of the worker's event ended with `res`; "error" when it
\* threw and its transaction was rolled back.
Settle(w, e, res) ==
    /\ worker[w] = Claimed(e)
    /\ worker' = [worker EXCEPT ![w] = Settled(e, res)]
    /\ UNCHANGED <<row, stale, acked, crashes, failures>>

\* Mutants: every outcome but an error counts as processed; a settlement that
\* changes nothing is ignored.
FinishProcessed(res) == IF res = "error" THEN "failed" ELSE "processed"
FinishNoopIgnored(res) == IF res = "error" THEN "failed" ELSE IF res = "settled" THEN "processed" ELSE "ignored"

FinishStatus(res) ==
    CASE res = "manual_review" -> "manual_review"
      [] res = "ignored"       -> "ignored"
      [] res = "error"         -> "failed"
      [] OTHER                 -> "processed"

\* finish_payment_provider_event writes the row whatever its status is by
\* then.  After an error the provider gets an error and will deliver again.
Finish(w) ==
    /\ worker[w].pc = "settled"
    /\ LET e == worker[w].event
           res == worker[w].result
       IN  /\ row' = [row EXCEPT ![e] = FinishStatus(res)]
           /\ worker' = [worker EXCEPT ![w] = IF res = "error" THEN Idle ELSE Finished(e)]
    /\ UNCHANGED <<stale, acked, crashes, failures>>

\* recordOrganisationWebhookResult, then the 200 answer.
Answer(w) ==
    /\ worker[w].pc = "finished"
    /\ acked' = acked \cup {worker[w].event}
    /\ worker' = [worker EXCEPT ![w] = Idle]
    /\ UNCHANGED <<row, stale, crashes, failures>>

-----------------------------------------------------------------------------
(* Faults.                                                                  *)

StatementFails ==
    /\ failures < MaxFailures
    /\ failures' = failures + 1
    /\ UNCHANGED crashes

\* The process dies, or its answer is lost: the provider sees no 2xx.
Crash(w) ==
    /\ crashes < MaxCrashes
    /\ worker[w] # Idle
    /\ crashes' = crashes + 1
    /\ worker' = [worker EXCEPT ![w] = Idle]
    /\ UNCHANGED <<row, stale, acked, failures>>

\* A statement fails before the settlement commits.
SettleFails(w, e) ==
    /\ StatementFails
    /\ worker[w] = Claimed(e)
    /\ worker' = [worker EXCEPT ![w] = Settled(e, "error")]
    /\ UNCHANGED <<row, stale, acked>>

\* A statement after the settlement committed fails, in finish or in
\* recordOrganisationWebhookResult: the handler's catch marks the row failed.
FinishFails(w) ==
    /\ StatementFails
    /\ worker[w].pc \in {"settled", "finished"}
    /\ row' = [row EXCEPT ![worker[w].event] = "failed"]
    /\ worker' = [worker EXCEPT ![w] = Idle]
    /\ UNCHANGED <<stale, acked>>

\* Two minutes pass for a row in progress, whether its worker is dead or slow.
Age(e) ==
    /\ row[e] = "processing"
    /\ e \notin stale
    /\ stale' = stale \cup {e}
    /\ UNCHANGED <<row, worker, acked, crashes, failures>>

-----------------------------------------------------------------------------
\* The steps of the handler that do not settle anything.
HandlerStep(w) ==
    \/ Finish(w)
    \/ Answer(w)

FaultStep ==
    \/ \E w \in Workers : Crash(w) \/ FinishFails(w)
    \/ \E w \in Workers, e \in EventIds : SettleFails(w, e)
=============================================================================
