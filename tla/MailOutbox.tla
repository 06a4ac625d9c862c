----------------------------- MODULE MailOutbox -----------------------------
(* The outbox of transactional email: the functions of migrations 0048 and  *)
(* 0057 on mail_outbox, and the workers that deliver it                     *)
(* (packages/api/src/email-delivery.ts), which are requests that have just  *)
(* enqueued a message and the scheduled delivery.                           *)
(*                                                                          *)
(* Messages are numbered in the order of their creation.  A link message    *)
(* carries a one-time link (an invitation, a password reset); all of them   *)
(* here are of one purpose and to one address, so that a newer supersedes   *)
(* an older.  A message has one idempotency key: enqueueing it again finds  *)
(* its row and is no step.                                                  *)
EXTENDS Integers, FiniteSets

CONSTANTS
    MaxMessage,     \* bound: messages are 1 .. MaxMessage
    LinkSets,       \* the choices of messages that carry a one-time link
    Workers,
    BatchSize,      \* p_limit of a scheduled delivery
    MaxAttempts,    \* mail_outbox.max_attempts
    MaxFaults,      \* bound: workers that die or are slow, answers that are lost
    MaxRequeues     \* bound: messages requeued by staff

Messages == 1 .. MaxMessage

ASSUME MailAssumption ==
    /\ MaxMessage \in Nat /\ LinkSets \subseteq SUBSET Messages
    /\ BatchSize \in Nat \ {0} /\ MaxAttempts \in Nat \ {0}
    /\ MaxFaults \in Nat /\ MaxRequeues \in Nat
    /\ IsFiniteSet(Workers)

VARIABLES
    links,      \* the messages that carry a one-time link
    status,     \* mail_outbox.status, "none" for no row
    link,       \* whether action_url is there
    attempts,   \* attempt_count
    due,        \* next_retry_at is null or past
    stale,      \* updated_at is five minutes back
    old,        \* created_at is back further than links live
    batch,      \* claimed rows a worker has not come to
    sending,    \* the row a worker is sending, 0 for none
    outcome,    \* what became of it
    delivered,  \* times the mail server took the message
    lost,       \* times it did and the worker was told otherwise
    lapses,     \* times the lease of the row lapsed
    requeues,   \* times staff requeued a message
    faults      \* workers that died or were slow, answers that were lost

mailVars == <<links, status, link, attempts, due, stale, old, batch, sending, outcome,
              delivered, lost, lapses, requeues, faults>>
workerVars == <<batch, sending, outcome>>
outsideVars == <<links, delivered, lost, lapses, requeues, faults>>

MailStatus == {"none", "queued", "sending", "sent", "failed", "cancelled"}
Terminal   == {"sent", "failed", "cancelled"}
Outcomes   == {"sent", "retryable", "permanent"}

MailTypeOK ==
    /\ links \in LinkSets
    /\ status \in [Messages -> MailStatus]
    /\ link \in [Messages -> BOOLEAN] /\ due \in [Messages -> BOOLEAN]
    /\ stale \in [Messages -> BOOLEAN] /\ old \in [Messages -> BOOLEAN]
    /\ attempts \in [Messages -> Nat]
    /\ batch \in [Workers -> SUBSET Messages]
    /\ sending \in [Workers -> Messages \cup {0}]
    /\ outcome \in [Workers -> Outcomes \cup {"none"}]
    /\ delivered \in [Messages -> Nat] /\ lost \in [Messages -> Nat]
    /\ lapses \in [Messages -> Nat]
    /\ requeues \in Nat /\ faults \in Nat

MailInit ==
    /\ links \in LinkSets
    /\ status = [m \in Messages |-> "none"]
    /\ link  = [m \in Messages |-> FALSE]
    /\ due   = [m \in Messages |-> TRUE]
    /\ stale = [m \in Messages |-> FALSE]
    /\ old   = [m \in Messages |-> FALSE]
    /\ attempts = [m \in Messages |-> 0]
    /\ batch   = [w \in Workers |-> {}]
    /\ sending = [w \in Workers |-> 0]
    /\ outcome = [w \in Workers |-> "none"]
    /\ delivered = [m \in Messages |-> 0] /\ lost = [m \in Messages |-> 0]
    /\ lapses = [m \in Messages |-> 0]
    /\ requeues = 0 /\ faults = 0

\* The others are messages of the admissions office, which keep no link.
Acks == Messages \ links

Live(m) == status[m] \in {"queued", "sending"}

-----------------------------------------------------------------------------
(* Enqueueing.                                                              *)

\* enqueue_transactional_email: a newer link cancels the older ones that are
\* not sent, a row a worker is sending included.
Enqueue(m) ==
    LET superseded == IF m \in links THEN {n \in links \ {m} : Live(n)} ELSE {} IN
    /\ status[m] = "none" /\ \A n \in Messages : n < m => status[n] # "none"
    /\ status' = [n \in Messages |-> IF n = m THEN "queued"
                                     ELSE IF n \in superseded THEN "cancelled"
                                     ELSE status[n]]
    /\ link' = [n \in Messages |-> IF n = m THEN m \in links
                                   ELSE link[n] /\ n \notin superseded]
    /\ UNCHANGED <<attempts, due, stale, old, workerVars, outsideVars>>

\* Mutant: a failed link is queued again although its address is wiped.
RequeueAny(m) == TRUE

\* What requeue_mail_outbox_message asks beside the status.
CanRequeue(m) == link[m] \/ m \in Acks

\* Staff send a message once more.  The delivery the handler then tries runs on
\* another connection and does not see the row: it does nothing.
Requeue(m) ==
    /\ status[m] \in {"failed", "queued"} /\ CanRequeue(m)
    /\ requeues < MaxRequeues
    /\ status' = [status EXCEPT ![m] = "queued"]
    /\ due' = [due EXCEPT ![m] = TRUE]
    /\ requeues' = requeues + 1
    /\ UNCHANGED <<links, link, attempts, stale, old, workerVars, delivered, lost, lapses, faults>>

-----------------------------------------------------------------------------
(* Claiming.                                                                *)

\* expire_stale_mail_outbox
Expired == {m \in links : Live(m) /\ old[m]}

\* Mutants: every row that is being sent is taken back; none is.
RecoverAny(ms) == {m \in ms \ Expired : status[m] = "sending"}
RecoverNone(ms) == {}

\* Rows whose worker has been silent for five minutes go back to the queue.
Recovered(ms) == {m \in ms \ Expired : status[m] = "sending" /\ stale[m]}

\* The oldest of the rows that may be sent, at most BatchSize of them.
Due == {m \in Messages \ Expired :
            (status[m] = "queued" \/ m \in Recovered(Messages)) /\ due[m]}
Picked == {m \in Due : Cardinality({n \in Due : n < m}) < BatchSize}

\* The part both claims share: expire, recover among `ms`, hand out `ps`.
Take(w, ms, ps) ==
    /\ batch[w] = {} /\ sending[w] = 0
    /\ status' = [m \in Messages |-> IF m \in ps THEN "sending"
                                     ELSE IF m \in Expired THEN "cancelled"
                                     ELSE IF m \in Recovered(ms) THEN "queued"
                                     ELSE status[m]]
    /\ link' = [m \in Messages |-> link[m] /\ m \notin Expired]
    /\ attempts' = [m \in Messages |-> IF m \in ps THEN attempts[m] + 1 ELSE attempts[m]]
    /\ stale' = [m \in Messages |-> stale[m] /\ m \notin ps \cup Recovered(ms)]
    /\ batch' = [batch EXCEPT ![w] = ps]
    /\ UNCHANGED <<due, old, sending, outcome, outsideVars>>

\* claim_mail_outbox_messages, for the scheduled delivery
ClaimBatch(w) ==
    /\ Picked \cup Expired \cup Recovered(Messages) # {}
    /\ Take(w, Messages, Picked)

\* claim_mail_outbox_message, for the request that enqueued the message; it
\* does not wait for the time of the next retry.
ClaimOne(w, m) ==
    /\ m \notin Expired /\ (status[m] = "queued" \/ m \in Recovered({m}))
    /\ Take(w, {m}, {m})

-----------------------------------------------------------------------------
(* Sending: deliverQueuedMail takes its rows in turn and does not look at   *)
(* them again before it sends.                                              *)

\* The mail server takes the message and says so; it takes it and the answer
\* is lost, or recording the answer fails; it refuses, for now or for good.
Send(w, m) ==
    /\ sending[w] = 0 /\ m \in batch[w]
    /\ batch' = [batch EXCEPT ![w] = @ \ {m}]
    /\ sending' = [sending EXCEPT ![w] = m]
    /\ \/ /\ outcome' = [outcome EXCEPT ![w] = "sent"]
          /\ delivered' = [delivered EXCEPT ![m] = @ + 1]
          /\ UNCHANGED <<lost, faults>>
       \/ /\ faults < MaxFaults /\ faults' = faults + 1
          /\ outcome' = [outcome EXCEPT ![w] = "retryable"]
          /\ delivered' = [delivered EXCEPT ![m] = @ + 1]
          /\ lost' = [lost EXCEPT ![m] = @ + 1]
       \/ /\ \E o \in {"retryable", "permanent"} : outcome' = [outcome EXCEPT ![w] = o]
          /\ UNCHANGED <<delivered, lost, faults>>
    /\ UNCHANGED <<status, link, attempts, due, stale, old, links, lapses, requeues>>

\* complete_mail_outbox_send and fail_mail_outbox_send touch a row only while
\* it is being sent, by whomever.
BeingSent(m) == status[m] = "sending"

\* v_retry of fail_mail_outbox_send, for a failure that may pass.
Retries(m) == attempts[m] < MaxAttempts

Requeued(w, m) == outcome[w] = "retryable" /\ Retries(m)

Recorded(w, m) ==
    IF outcome[w] = "sent" THEN "sent" ELSE IF Requeued(w, m) THEN "queued" ELSE "failed"

\* The address is wiped unless the message will be tried again.
LinkAfter(w, m) == link[m] /\ Requeued(w, m)

Record(w) ==
    LET m == sending[w] IN
    /\ m # 0
    /\ IF BeingSent(m)
       THEN /\ status' = [status EXCEPT ![m] = Recorded(w, m)]
            /\ link' = [link EXCEPT ![m] = LinkAfter(w, m)]
            /\ due' = [due EXCEPT ![m] = ~Requeued(w, m)]
            /\ stale' = [stale EXCEPT ![m] = FALSE]
       ELSE UNCHANGED <<status, link, due, stale>>
    /\ sending' = [sending EXCEPT ![w] = 0]
    /\ outcome' = [outcome EXCEPT ![w] = "none"]
    /\ UNCHANGED <<attempts, old, batch, outsideVars>>

\* The process dies, or recording a failure fails: its rows stay as they are.
Crash(w) ==
    /\ batch[w] # {} \/ sending[w] # 0
    /\ faults < MaxFaults
    /\ faults' = faults + 1
    /\ batch' = [batch EXCEPT ![w] = {}]
    /\ sending' = [sending EXCEPT ![w] = 0]
    /\ outcome' = [outcome EXCEPT ![w] = "none"]
    /\ UNCHANGED <<status, link, attempts, due, stale, old, links, delivered, lost, lapses, requeues>>

-----------------------------------------------------------------------------
(* Time.                                                                    *)

Held(m) == \E w \in Workers : m \in batch[w] \cup {sending[w]}

\* Five minutes pass since a row was claimed, its worker dead or only slow.
LeaseLapses(m) ==
    /\ status[m] = "sending" /\ ~stale[m]
    /\ IF Held(m) THEN faults < MaxFaults /\ faults' = faults + 1 ELSE UNCHANGED faults
    /\ stale' = [stale EXCEPT ![m] = TRUE]
    /\ lapses' = [lapses EXCEPT ![m] = @ + 1]
    /\ UNCHANGED <<status, link, attempts, due, old, workerVars, links, delivered, lost, requeues>>

RetryFallsDue(m) ==
    /\ status[m] = "queued" /\ ~due[m]
    /\ due' = [due EXCEPT ![m] = TRUE]
    /\ UNCHANGED <<status, link, attempts, stale, old, workerVars, outsideVars>>

LinkAges(m) ==
    /\ m \in links /\ status[m] # "none" /\ ~old[m]
    /\ old' = [old EXCEPT ![m] = TRUE]
    /\ UNCHANGED <<status, link, attempts, due, stale, workerVars, outsideVars>>

MailNext ==
    \/ \E m \in Messages : Enqueue(m) \/ Requeue(m)
    \/ \E w \in Workers : ClaimBatch(w) \/ Record(w) \/ Crash(w)
    \/ \E w \in Workers, m \in Messages : ClaimOne(w, m) \/ Send(w, m)
    \/ \E m \in Messages : LeaseLapses(m) \/ RetryFallsDue(m) \/ LinkAges(m)

\* The scheduled delivery runs again and again, a worker that lives goes on,
\* and time passes.
MailFairness ==
    /\ WF_mailVars(\E w \in Workers : ClaimBatch(w))
    /\ \A w \in Workers : WF_mailVars(Record(w) \/ \E m \in Messages : Send(w, m))
    /\ \A m \in Messages : WF_mailVars(LeaseLapses(m)) /\ WF_mailVars(RetryFallsDue(m))

MailSpec == MailInit /\ [][MailNext]_mailVars
FairMailSpec == MailSpec /\ MailFairness

-----------------------------------------------------------------------------
(* Properties.                                                              *)

\* A one-time link is kept exactly as long as its message may still be sent: no
\* message goes out without its link, and no settled row keeps one, whichever
\* of the workers, the staff or a newer message settled it.
LinkFollowsStatus == \A m \in Messages : link[m] <=> m \in links /\ Live(m)

\* What the school is shown as sent was taken by the mail server, although any
\* worker may record the outcome of a row that another has claimed since.
SentWasDelivered == \A m \in Messages : status[m] = "sent" => delivered[m] > 0

\* A message is delivered once, and once more at most for each answer that was
\* lost and each lease that lapsed: claims, retries, requeues and newer
\* messages alone never send one twice.
DuplicatesNeedALapse == \A m \in Messages : delivered[m] <= 1 + lost[m] + lapses[m]

\* A message that was never refused for good is given up after all its attempts
\* only.
GivenUpForCause ==
    [][\A m \in Messages :
          status[m] # "failed" /\ status'[m] = "failed" =>
             \/ attempts[m] >= MaxAttempts
             \/ \E w \in Workers : sending[w] = m /\ outcome[w] = "permanent"]_mailVars

\* Every message is sent, given up or cancelled in the end, through faults,
\* slow workers, retries and batches that are too small.
EveryMessageSettles ==
    \A m \in Messages : status[m] = "queued" ~> status[m] \in Terminal

\* The rows of the mail queue have their types, keep a one-time link exactly while
\* it may be sent, and say sent only of what was delivered.
MailInv == MailTypeOK /\ LinkFollowsStatus /\ SentWasDelivered

\* Every message settles, and a message is given up for cause only.
SettledForCause == GivenUpForCause /\ EveryMessageSettles
=============================================================================
