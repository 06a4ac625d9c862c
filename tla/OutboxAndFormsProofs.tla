------------------------ MODULE OutboxAndFormsProofs ------------------------
(***************************************************************************)
(* Theorems about MailOutbox, for every number of messages, workers,       *)
(* attempts and faults and every size of a batch: a one-time link is kept  *)
(* exactly while its message may be sent, what is called sent was          *)
(* delivered, and a message is delivered twice only for a cause.           *)
(*                                                                         *)
(* Theorems about PublicForm, for every number of pages, forms, filings and *)
(* documents: a form files once and a page sends once, what was sent stands, *)
(* and an attached file is there.  The two share no state.                 *)
(***************************************************************************)
EXTENDS MailOutbox, PublicForm, FiniteSetTheorems, TLAPS

-----------------------------------------------------------------------------
(* The inductive invariant.                                                 *)

\* The workers that may still deliver the message, or have failed to and will say so.
Holders(m) ==
    {w \in Workers : m \in batch[w] \/ (sending[w] = m /\ outcome[w] # "sent")}

\* Deliveries of the message that have been made or may be.
Charged(m) == delivered[m] + Cardinality(Holders(m))

\* A row that is not with a worker the queue still trusts.
Loose(m) ==
    \/ status[m] \in {"none", "queued", "failed"}
    \/ status[m] = "sending" /\ stale[m]

\* A delivery of a message, made or to come, has a lost answer or a lapsed lease to
\* answer for it, but for the one the queue is waiting for.
DeliveriesAnswered ==
    \A m \in Messages : /\ Charged(m) <= 1 + lost[m] + lapses[m]
                        /\ Loose(m) => Charged(m) <= lost[m] + lapses[m]

\* What a worker holds in its hands.
WorkersKnow ==
    \A w \in Workers : /\ sending[w] = 0 <=> outcome[w] = "none"
                       /\ sending[w] \notin batch[w]
                       /\ outcome[w] = "sent" => delivered[sending[w]] > 0

\* The conjunction is inductive.
QueueInv == MailInv /\ WorkersKnow /\ DeliveriesAnswered

-----------------------------------------------------------------------------
(* Counting workers.                                                        *)

\* Workers are finitely many.
LEMMA WorkersCount ==
    ASSUME NEW S \in SUBSET Workers
    PROVE  IsFiniteSet(S) /\ Cardinality(S) \in Nat
  BY MailAssumption, FS_Subset, FS_CardinalityType

\* One worker more is one more, and one less is one less.
LEMMA OneWorker ==
    ASSUME NEW S \in SUBSET Workers, NEW w \in Workers
    PROVE  /\ Cardinality(S \cup {w}) <= Cardinality(S) + 1
           /\ w \in S => Cardinality(S \ {w}) = Cardinality(S) - 1
  BY WorkersCount, FS_AddElement, FS_RemoveElement, SMTT(30)

\* Fewer workers are not more.
LEMMA FewerWorkers ==
    ASSUME NEW S \in SUBSET Workers, NEW T \in SUBSET S
    PROVE  Cardinality(T) <= Cardinality(S)
  BY WorkersCount, FS_Subset

\* A step that makes no delivery, takes no message in hand and loosens none keeps the
\* account of the deliveries.
LEMMA NothingCharged ==
    ASSUME MailTypeOK, DeliveriesAnswered, NEW m \in Messages,
           Holders(m)' \subseteq Holders(m), delivered'[m] = delivered[m],
           lost'[m] = lost[m], lapses'[m] = lapses[m]
    PROVE  /\ Charged(m)' <= Charged(m)
           /\ Charged(m)' <= 1 + lost'[m] + lapses'[m]
           /\ Loose(m) => Charged(m)' <= lost'[m] + lapses'[m]
<1> DEFINE H == Holders(m)
           K == Holders(m)'
<1>1. H \in SUBSET Workers /\ K \in SUBSET H
  BY DEF Holders
<1> HIDE DEF H, K
<1>2. Cardinality(K) <= Cardinality(H) /\ Cardinality(K) \in Nat /\ Cardinality(H) \in Nat
  BY <1>1, WorkersCount, FewerWorkers
<1>3. delivered[m] \in Nat /\ lost[m] \in Nat /\ lapses[m] \in Nat
  BY DEF MailTypeOK
<1>4. Charged(m) = delivered[m] + Cardinality(H) /\ Charged(m)' = delivered'[m] + Cardinality(K)
  BY DEF Charged, H, K
<1>5. Charged(m) <= 1 + lost[m] + lapses[m] /\ (Loose(m) => Charged(m) <= lost[m] + lapses[m])
  BY DEF DeliveriesAnswered
<1> QED
  BY <1>2, <1>3, <1>4, <1>5

-----------------------------------------------------------------------------
(* The steps.                                                               *)

\* Enqueueing and requeueing leave the workers alone and make a message loose that
\* was so before.
LEMMA EnqueueStep ==
    ASSUME QueueInv, NEW m \in Messages, Enqueue(m)
    PROVE  QueueInv'
<1>1. MailTypeOK /\ LinkFollowsStatus /\ SentWasDelivered /\ WorkersKnow /\ DeliveriesAnswered
  BY DEF QueueInv, MailInv
<1>2. /\ UNCHANGED <<batch, sending, outcome, delivered, lost, lapses, links, stale, old, due>>
      /\ UNCHANGED <<attempts, requeues, faults>>
  BY DEF Enqueue, workerVars, outsideVars
<1> DEFINE gone == IF m \in links THEN {n \in links \ {m} : Live(n)} ELSE {}
<1>3. /\ status[m] = "none"
      /\ status' = [n \in Messages |-> IF n = m THEN "queued"
                                       ELSE IF n \in gone THEN "cancelled" ELSE status[n]]
      /\ link' = [n \in Messages |-> IF n = m THEN m \in links ELSE link[n] /\ n \notin gone]
  BY DEF Enqueue
<1>4. MailTypeOK'
  <2>1. status' \in [Messages -> MailStatus]
    BY <1>1, <1>3 DEF MailTypeOK, MailStatus
  <2>2. link' \in [Messages -> BOOLEAN]
    <3>1. ASSUME NEW n \in Messages
          PROVE  (IF n = m THEN m \in links ELSE link[n] /\ n \notin gone) \in BOOLEAN
      <4>1. (m \in links) \in BOOLEAN /\ (link[n] /\ n \notin gone) \in BOOLEAN
        OBVIOUS
      <4> QED
        BY <4>1
    <3> QED
      BY <1>3, <3>1, Zenon
  <2> QED
    BY <1>1, <1>2, <2>1, <2>2 DEF MailTypeOK
<1>5. LinkFollowsStatus'
  BY <1>1, <1>2, <1>3 DEF LinkFollowsStatus, Live
<1>6. SentWasDelivered'
  BY <1>1, <1>2, <1>3 DEF SentWasDelivered
<1>7. WorkersKnow'
  BY <1>1, <1>2 DEF WorkersKnow
<1>8. DeliveriesAnswered'
  <2> SUFFICES ASSUME NEW n \in Messages
               PROVE  /\ Charged(n)' <= 1 + lost'[n] + lapses'[n]
                      /\ Loose(n)' => Charged(n)' <= lost'[n] + lapses'[n]
    BY DEF DeliveriesAnswered
  <2>1. Holders(n)' = Holders(n)
    BY <1>2 DEF Holders
  <2>2. Loose(n)' => Loose(n)
    BY <1>2, <1>3 DEF Loose
  <2> QED
    BY <1>1, <1>2, <2>1, <2>2, NothingCharged
<1> QED
  BY <1>4, <1>5, <1>6, <1>7, <1>8 DEF QueueInv, MailInv

\* Staff queue again only what has failed without a link, or is queued.
LEMMA RequeueStep ==
    ASSUME QueueInv, NEW m \in Messages, Requeue(m)
    PROVE  QueueInv'
<1>1. MailTypeOK /\ LinkFollowsStatus /\ SentWasDelivered /\ WorkersKnow /\ DeliveriesAnswered
  BY DEF QueueInv, MailInv
<1>2. /\ UNCHANGED <<batch, sending, outcome, delivered, lost, lapses, links, stale, old, link>>
      /\ UNCHANGED <<attempts, faults>> /\ requeues' = requeues + 1
  BY DEF Requeue, workerVars
<1>3. /\ status[m] \in {"failed", "queued"}
      /\ status' = [status EXCEPT ![m] = "queued"] /\ due' = [due EXCEPT ![m] = TRUE]
  BY DEF Requeue
<1>4. MailTypeOK'
  <2>1. status' \in [Messages -> MailStatus] /\ requeues' \in Nat
    BY <1>1, <1>2, <1>3 DEF MailTypeOK, MailStatus
  <2>2. due' \in [Messages -> BOOLEAN]
    BY <1>1, <1>3 DEF MailTypeOK
  <2> QED
    BY <1>1, <1>2, <2>1, <2>2 DEF MailTypeOK
<1>5. \A n \in Messages : status'[n] = status[n] \/ (n = m /\ status'[n] = "queued")
  BY <1>1, <1>3 DEF MailTypeOK

\* A message that failed keeps no link, and is queued again only if it never had one.
<1>6. LinkFollowsStatus'
  <2>1. status[m] = "failed" => m \notin links
    BY <1>1 DEF LinkFollowsStatus, Live, Requeue, CanRequeue, Acks
  <2> QED
    BY <1>1, <1>2, <1>3, <1>5, <2>1 DEF LinkFollowsStatus, Live
<1>7. SentWasDelivered' /\ WorkersKnow'
  BY <1>1, <1>2, <1>5 DEF SentWasDelivered, WorkersKnow
<1>8. DeliveriesAnswered'
  <2> SUFFICES ASSUME NEW n \in Messages
               PROVE  /\ Charged(n)' <= 1 + lost'[n] + lapses'[n]
                      /\ Loose(n)' => Charged(n)' <= lost'[n] + lapses'[n]
    BY DEF DeliveriesAnswered
  <2>1. Holders(n)' = Holders(n)
    BY <1>2 DEF Holders
  <2>2. Loose(n)' => Loose(n)
    BY <1>2, <1>3, <1>5 DEF Loose
  <2> QED
    BY <1>1, <1>2, <2>1, <2>2, NothingCharged
<1> QED
  BY <1>4, <1>6, <1>7, <1>8 DEF QueueInv, MailInv

\* A claim hands out rows that are queued, or that a worker has been silent about;
\* each costs one delivery that may be made.
LEMMA TakeStep ==
    ASSUME QueueInv, NEW w \in Workers, NEW ms \in SUBSET Messages,
           NEW ps \in SUBSET Messages, Take(w, ms, ps),
           \A m \in ps : m \notin Expired /\ (status[m] = "queued" \/ m \in Recovered(ms))
    PROVE  QueueInv'
<1>1. MailTypeOK /\ LinkFollowsStatus /\ SentWasDelivered /\ WorkersKnow /\ DeliveriesAnswered
  BY DEF QueueInv, MailInv
<1>2. /\ UNCHANGED <<sending, outcome, delivered, lost, lapses, links, due, old>>
      /\ UNCHANGED <<requeues, faults>>
      /\ batch[w] = {} /\ sending[w] = 0
      /\ batch' = [batch EXCEPT ![w] = ps]
  BY DEF Take, outsideVars
<1> DEFINE R == Recovered(ms)
           X == Expired
<1>3. /\ status' = [m \in Messages |-> IF m \in ps THEN "sending"
                                       ELSE IF m \in X THEN "cancelled"
                                       ELSE IF m \in R THEN "queued"
                                       ELSE status[m]]
      /\ link' = [m \in Messages |-> link[m] /\ m \notin X]
      /\ attempts' = [m \in Messages |-> IF m \in ps THEN attempts[m] + 1 ELSE attempts[m]]
      /\ stale' = [m \in Messages |-> stale[m] /\ m \notin ps \cup R]
  BY DEF Take
<1>4. /\ \A m \in R : status[m] = "sending" /\ stale[m]
      /\ \A m \in X : m \in links /\ Live(m)
      /\ \A m \in ps : m \notin X /\ (status[m] = "queued" \/ m \in R)
  BY DEF Recovered, Expired
<1> HIDE DEF R, X
<1>5. MailTypeOK'
  <2>1. status' \in [Messages -> MailStatus]
    BY <1>1, <1>3 DEF MailTypeOK, MailStatus
  <2>2. attempts' \in [Messages -> Nat]
    BY <1>1, <1>3 DEF MailTypeOK
  <2>3. link' \in [Messages -> BOOLEAN]
    <3>1. \A m \in Messages : (link[m] /\ m \notin X) \in BOOLEAN
      OBVIOUS
    <3> QED
      BY <1>3, <3>1, Zenon
  <2>4. stale' \in [Messages -> BOOLEAN]
    <3>1. \A m \in Messages : (stale[m] /\ m \notin ps \cup R) \in BOOLEAN
      OBVIOUS
    <3> QED
      BY <1>3, <3>1, Zenon
  <2>5. batch' \in [Workers -> SUBSET Messages]
    BY <1>1, <1>2 DEF MailTypeOK
  <2> QED
    BY <1>1, <1>2, <2>1, <2>2, <2>3, <2>4, <2>5 DEF MailTypeOK
<1>6. LinkFollowsStatus'
  <2> SUFFICES ASSUME NEW m \in Messages
               PROVE  link'[m] <=> m \in links /\ status'[m] \in {"queued", "sending"}
    BY <1>2 DEF LinkFollowsStatus, Live
  <2>1. link'[m] <=> link[m] /\ m \notin X
    BY <1>3
  <2>2. link[m] <=> m \in links /\ status[m] \in {"queued", "sending"}
    BY <1>1 DEF LinkFollowsStatus, Live
  <2>3. CASE m \in ps
    BY <1>3, <1>4, <2>1, <2>2, <2>3
  <2>4. CASE m \notin ps
    BY <1>3, <1>4, <2>1, <2>2, <2>4
  <2> QED
    BY <2>3, <2>4
<1>7. SentWasDelivered' /\ WorkersKnow'
  <2>1. SentWasDelivered'
    BY <1>1, <1>2, <1>3 DEF SentWasDelivered
  <2>2. \A v \in Workers : batch'[v] = batch[v] \/ (v = w /\ sending[v] = 0 /\ batch'[v] = ps)
    BY <1>1, <1>2 DEF MailTypeOK
  <2>3. 0 \notin ps
    BY DEF Messages
  <2> QED
    BY <1>1, <1>2, <2>1, <2>2, <2>3 DEF WorkersKnow
<1>8. DeliveriesAnswered'
  <2> SUFFICES ASSUME NEW m \in Messages
               PROVE  /\ Charged(m)' <= 1 + lost'[m] + lapses'[m]
                      /\ Loose(m)' => Charged(m)' <= lost'[m] + lapses'[m]
    BY DEF DeliveriesAnswered
  <2>1. \A v \in Workers : batch'[v] = IF v = w THEN ps ELSE batch[v]
    BY <1>1, <1>2 DEF MailTypeOK
  <2>2. CASE m \notin ps
    <3>1. Holders(m)' \subseteq Holders(m)
      BY <1>2, <2>1, <2>2 DEF Holders
    <3>2. Loose(m)' => Loose(m)
      BY <1>3, <1>4, <2>2 DEF Loose
    <3> QED
      BY <1>1, <1>2, <3>1, <3>2, NothingCharged
  <2>3. CASE m \in ps
    <3> DEFINE H == Holders(m)
               K == Holders(m)'
    <3>1. H \in SUBSET Workers /\ K = H \cup {w}
      BY <1>2, <2>1, <2>3 DEF Holders, Messages
    <3>2. Loose(m) /\ ~Loose(m)'
      BY <1>3, <1>4, <2>3 DEF Loose
    <3> HIDE DEF H, K
    <3>3. Cardinality(K) <= Cardinality(H) + 1 /\ Cardinality(H) \in Nat /\ Cardinality(K) \in Nat
      <4>1. K \in SUBSET Workers
        BY <3>1
      <4> QED
        BY <3>1, <4>1, OneWorker, WorkersCount
    <3>4. delivered[m] \in Nat /\ lost[m] \in Nat /\ lapses[m] \in Nat
      BY <1>1 DEF MailTypeOK
    <3>5. delivered[m] + Cardinality(H) <= lost[m] + lapses[m]
      BY <1>1, <3>2 DEF DeliveriesAnswered, Charged, H
    <3>6. Charged(m)' = delivered[m] + Cardinality(K)
      BY <1>2 DEF Charged, K
    <3> QED
      BY <1>2, <3>2, <3>3, <3>4, <3>5, <3>6
  <2> QED
    BY <2>2, <2>3
<1> QED
  BY <1>5, <1>6, <1>7, <1>8 DEF QueueInv, MailInv

\* A delivery is one that was to come, and one whose answer is lost answers for
\* another.
LEMMA SendStep ==
    ASSUME QueueInv, NEW w \in Workers, NEW m \in Messages, Send(w, m)
    PROVE  QueueInv'
<1>1. MailTypeOK /\ LinkFollowsStatus /\ SentWasDelivered /\ WorkersKnow /\ DeliveriesAnswered
  BY DEF QueueInv, MailInv
<1>2. /\ UNCHANGED <<status, link, attempts, due, stale, old, links, lapses, requeues>>
      /\ sending[w] = 0 /\ m \in batch[w]
      /\ batch' = [batch EXCEPT ![w] = @ \ {m}]
      /\ sending' = [sending EXCEPT ![w] = m]
  BY DEF Send
<1>3. \/ /\ outcome' = [outcome EXCEPT ![w] = "sent"]
         /\ delivered' = [delivered EXCEPT ![m] = @ + 1]
         /\ UNCHANGED <<lost, faults>>
      \/ /\ faults' = faults + 1
         /\ outcome' = [outcome EXCEPT ![w] = "retryable"]
         /\ delivered' = [delivered EXCEPT ![m] = @ + 1]
         /\ lost' = [lost EXCEPT ![m] = @ + 1]
      \/ \E o \in {"retryable", "permanent"} :
           outcome' = [outcome EXCEPT ![w] = o] /\ UNCHANGED <<delivered, lost, faults>>
  BY DEF Send
<1>4. MailTypeOK'
  <2>1. batch' \in [Workers -> SUBSET Messages] /\ sending' \in [Workers -> Messages \cup {0}]
    BY <1>1, <1>2 DEF MailTypeOK
  <2>2. /\ outcome' \in [Workers -> Outcomes \cup {"none"}]
        /\ delivered' \in [Messages -> Nat] /\ lost' \in [Messages -> Nat] /\ faults' \in Nat
    BY <1>1, <1>3 DEF MailTypeOK, Outcomes
  <2> QED
    BY <1>1, <1>2, <2>1, <2>2 DEF MailTypeOK
<1>5. /\ \A v \in Workers \ {w} : /\ sending'[v] = sending[v] /\ outcome'[v] = outcome[v]
                                  /\ batch'[v] = batch[v]
      /\ sending'[w] = m /\ batch'[w] = batch[w] \ {m}
      /\ outcome'[w] \in {"sent", "retryable", "permanent"}
  BY <1>1, <1>2, <1>3 DEF MailTypeOK
<1>6. /\ \A n \in Messages \ {m} : delivered'[n] = delivered[n] /\ lost'[n] = lost[n]
      /\ delivered[m] \in Nat /\ lost[m] \in Nat /\ lapses[m] \in Nat
      /\ \/ /\ outcome'[w] = "sent" /\ delivered'[m] = delivered[m] + 1 /\ lost'[m] = lost[m]
         \/ /\ outcome'[w] # "sent" /\ delivered'[m] = delivered[m] + 1
            /\ lost'[m] = lost[m] + 1
         \/ outcome'[w] # "sent" /\ delivered'[m] = delivered[m] /\ lost'[m] = lost[m]
  BY <1>1, <1>3 DEF MailTypeOK
<1>7. \A n \in Messages : delivered'[n] >= delivered[n] /\ delivered[n] \in Nat /\ delivered'[n] \in Nat
  BY <1>1, <1>4, <1>6 DEF MailTypeOK
<1>8. LinkFollowsStatus' /\ SentWasDelivered'
  BY <1>1, <1>2, <1>7 DEF LinkFollowsStatus, Live, SentWasDelivered
<1>9. WorkersKnow'
  <2> SUFFICES ASSUME NEW v \in Workers
               PROVE  /\ sending'[v] = 0 <=> outcome'[v] = "none"
                      /\ sending'[v] \notin batch'[v]
                      /\ outcome'[v] = "sent" => delivered'[sending'[v]] > 0
    BY DEF WorkersKnow
  <2>1. CASE v = w
    BY <1>5, <1>6, <2>1 DEF Messages
  <2>2. CASE v # w
    <3>1. sending[v] # 0 => sending[v] \in Messages
      BY <1>1 DEF MailTypeOK
    <3> QED
      BY <1>1, <1>5, <1>7, <2>2, <3>1 DEF WorkersKnow
  <2> QED
    BY <2>1, <2>2
<1>10. DeliveriesAnswered'
  <2> SUFFICES ASSUME NEW n \in Messages
               PROVE  /\ Charged(n)' <= 1 + lost'[n] + lapses'[n]
                      /\ Loose(n)' => Charged(n)' <= lost'[n] + lapses'[n]
    BY DEF DeliveriesAnswered
  <2>1. Loose(n)' => Loose(n)
    BY <1>2 DEF Loose
  <2>2. CASE n # m
    <3>1. Holders(n)' \subseteq Holders(n)
      BY <1>5, <2>2 DEF Holders
    <3> QED
      BY <1>1, <1>2, <1>6, <2>1, <2>2, <3>1, NothingCharged
  <2>3. CASE n = m
    <3> DEFINE H == Holders(m)
               K == Holders(m)'
    <3>1. H \in SUBSET Workers /\ w \in H
      BY <1>2 DEF Holders
    <3>2. K = IF outcome'[w] = "sent" THEN H \ {w} ELSE H
      BY <1>2, <1>5 DEF Holders
    <3> HIDE DEF H, K
    <3>3. Cardinality(H) \in Nat /\ Cardinality(H \ {w}) = Cardinality(H) - 1
      BY <3>1, OneWorker, WorkersCount
    <3>4. /\ delivered[m] + Cardinality(H) <= 1 + lost[m] + lapses[m]
          /\ Loose(m) => delivered[m] + Cardinality(H) <= lost[m] + lapses[m]
      BY <1>1 DEF DeliveriesAnswered, Charged, H
    <3>5. Charged(m)' = delivered'[m] + Cardinality(K)
      BY DEF Charged, K
    <3>6. delivered'[m] + Cardinality(K) - lost'[m] <= delivered[m] + Cardinality(H) - lost[m]
      BY <1>6, <3>2, <3>3
    <3>7. Cardinality(K) \in Nat
      BY <3>2, <3>1, WorkersCount
    <3> QED
      BY <1>2, <1>6, <2>1, <2>3, <3>3, <3>4, <3>5, <3>6, <3>7
  <2> QED
    BY <2>2, <2>3
<1> QED
  BY <1>4, <1>8, <1>9, <1>10 DEF QueueInv, MailInv

\* The worker that records is not one that may still deliver, and only one that has
\* delivered records that.
LEMMA RecordStep ==
    ASSUME QueueInv, NEW w \in Workers, Record(w)
    PROVE  QueueInv'
<1>1. MailTypeOK /\ LinkFollowsStatus /\ SentWasDelivered /\ WorkersKnow /\ DeliveriesAnswered
  BY DEF QueueInv, MailInv
<1>2. PICK m \in Messages : m = sending[w]
  BY <1>1 DEF Record, MailTypeOK
<1>3. /\ UNCHANGED <<attempts, old, batch, links, delivered, lost, lapses, requeues, faults>>
      /\ sending' = [sending EXCEPT ![w] = 0]
      /\ outcome' = [outcome EXCEPT ![w] = "none"]
  BY DEF Record, outsideVars
<1>4. /\ outcome[w] \in {"sent", "retryable", "permanent"} /\ m \notin batch[w]
      /\ outcome[w] = "sent" => delivered[m] > 0
  BY <1>1, <1>2 DEF WorkersKnow, MailTypeOK, Outcomes, Messages
<1>5. \/ /\ status[m] = "sending"
         /\ status' = [status EXCEPT ![m] = Recorded(w, m)]
         /\ link' = [link EXCEPT ![m] = LinkAfter(w, m)]
         /\ due' = [due EXCEPT ![m] = ~Requeued(w, m)]
         /\ stale' = [stale EXCEPT ![m] = FALSE]
      \/ UNCHANGED <<status, link, due, stale>>
  BY <1>2 DEF Record, BeingSent
<1>6. /\ Recorded(w, m) \in {"sent", "queued", "failed"}
      /\ Recorded(w, m) = "sent" <=> outcome[w] = "sent"
      /\ Recorded(w, m) = "queued" <=> Requeued(w, m)
      /\ LinkAfter(w, m) <=> link[m] /\ Requeued(w, m)
      /\ LinkAfter(w, m) \in BOOLEAN /\ (~Requeued(w, m)) \in BOOLEAN
  BY <1>4 DEF Recorded, LinkAfter, Requeued
<1>7. MailTypeOK'
  <2>1. status' \in [Messages -> MailStatus]
    BY <1>1, <1>5, <1>6 DEF MailTypeOK, MailStatus
  <2>2. /\ link' \in [Messages -> BOOLEAN] /\ due' \in [Messages -> BOOLEAN]
        /\ stale' \in [Messages -> BOOLEAN]
    BY <1>1, <1>5, <1>6, ZenonT(40) DEF MailTypeOK
  <2>3. /\ sending' \in [Workers -> Messages \cup {0}]
        /\ outcome' \in [Workers -> Outcomes \cup {"none"}]
    BY <1>1, <1>3 DEF MailTypeOK
  <2> QED
    BY <1>1, <1>3, <2>1, <2>2, <2>3 DEF MailTypeOK
<1>8. /\ \A n \in Messages \ {m} : /\ status'[n] = status[n] /\ stale'[n] = stale[n]
                                   /\ link'[n] <=> link[n]
      /\ \/ /\ status[m] = "sending" /\ status'[m] = Recorded(w, m)
            /\ link'[m] <=> LinkAfter(w, m)
         \/ status'[m] = status[m] /\ (link'[m] <=> link[m]) /\ stale'[m] = stale[m]
  BY <1>1, <1>5 DEF MailTypeOK
<1>9. LinkFollowsStatus'
  <2> SUFFICES ASSUME NEW n \in Messages
               PROVE  link'[n] <=> n \in links /\ status'[n] \in {"queued", "sending"}
    BY <1>3 DEF LinkFollowsStatus, Live
  <2>1. link[n] <=> n \in links /\ status[n] \in {"queued", "sending"}
    BY <1>1 DEF LinkFollowsStatus, Live
  <2> QED
    BY <1>6, <1>8, <2>1
<1>10. SentWasDelivered'
  BY <1>1, <1>3, <1>4, <1>6, <1>8 DEF SentWasDelivered
<1>11. /\ \A v \in Workers \ {w} : sending'[v] = sending[v] /\ outcome'[v] = outcome[v]
       /\ sending'[w] = 0 /\ outcome'[w] = "none"
  BY <1>1, <1>3 DEF MailTypeOK
<1>12. WorkersKnow'
  <2>1. 0 \notin batch[w]
    BY <1>1 DEF MailTypeOK, Messages
  <2> QED
    BY <1>1, <1>3, <1>11, <2>1 DEF WorkersKnow
<1>13. DeliveriesAnswered'
  <2> SUFFICES ASSUME NEW n \in Messages
               PROVE  /\ Charged(n)' <= 1 + lost'[n] + lapses'[n]
                      /\ Loose(n)' => Charged(n)' <= lost'[n] + lapses'[n]
    BY DEF DeliveriesAnswered
  <2>1. Holders(n)' \subseteq Holders(n)
    BY <1>3, <1>11 DEF Holders, Messages
  <2>2. CASE Loose(n)' => Loose(n)
    BY <1>1, <1>3, <2>1, <2>2, NothingCharged
  <2>3. CASE Loose(n)' /\ ~Loose(n)
    <3> DEFINE H == Holders(n)
               K == Holders(n)'
    <3>1. n = m /\ status[m] = "sending" /\ status'[m] = Recorded(w, m)
      BY <1>8, <2>3 DEF Loose
    <3>2. outcome[w] # "sent"
      BY <1>6, <2>3, <3>1 DEF Loose
    <3>3. H \in SUBSET Workers /\ w \in H /\ K = H \ {w}
      BY <1>2, <1>3, <1>4, <1>11, <3>1, <3>2 DEF Holders, Messages
    <3> HIDE DEF H, K
    <3>4. Cardinality(H) \in Nat /\ Cardinality(K) = Cardinality(H) - 1
      BY <3>3, OneWorker, WorkersCount
    <3>5. delivered[n] + Cardinality(H) <= 1 + lost[n] + lapses[n]
      BY <1>1 DEF DeliveriesAnswered, Charged, H
    <3>6. Charged(n)' = delivered[n] + Cardinality(K)
      BY <1>3 DEF Charged, K
    <3>7. delivered[n] \in Nat /\ lost[n] \in Nat /\ lapses[n] \in Nat
      BY <1>1 DEF MailTypeOK
    <3> QED
      BY <1>3, <3>4, <3>5, <3>6, <3>7
  <2> QED
    BY <2>2, <2>3
<1> QED
  BY <1>7, <1>9, <1>10, <1>12, <1>13 DEF QueueInv, MailInv

\* A worker that dies leaves its rows as they are: they stay with the queue, which
\* waits for the lease.
LEMMA CrashStep ==
    ASSUME QueueInv, NEW w \in Workers, Crash(w)
    PROVE  QueueInv'
<1>1. MailTypeOK /\ LinkFollowsStatus /\ SentWasDelivered /\ WorkersKnow /\ DeliveriesAnswered
  BY DEF QueueInv, MailInv
<1>2. /\ UNCHANGED <<status, link, attempts, due, stale, old, links, delivered, lost, lapses>>
      /\ UNCHANGED requeues /\ faults' = faults + 1
      /\ batch' = [batch EXCEPT ![w] = {}]
      /\ sending' = [sending EXCEPT ![w] = 0]
      /\ outcome' = [outcome EXCEPT ![w] = "none"]
  BY DEF Crash
<1>3. MailTypeOK'
  <2>1. /\ batch' \in [Workers -> SUBSET Messages] /\ sending' \in [Workers -> Messages \cup {0}]
        /\ outcome' \in [Workers -> Outcomes \cup {"none"}] /\ faults' \in Nat
    BY <1>1, <1>2 DEF MailTypeOK
  <2> QED
    BY <1>1, <1>2, <2>1 DEF MailTypeOK
<1>4. /\ \A v \in Workers \ {w} : /\ sending'[v] = sending[v] /\ outcome'[v] = outcome[v]
                                  /\ batch'[v] = batch[v]
      /\ sending'[w] = 0 /\ outcome'[w] = "none" /\ batch'[w] = {}
  BY <1>1, <1>2 DEF MailTypeOK
<1>5. LinkFollowsStatus' /\ SentWasDelivered'
  BY <1>1, <1>2 DEF LinkFollowsStatus, Live, SentWasDelivered
<1>6. WorkersKnow'
  BY <1>1, <1>2, <1>4 DEF WorkersKnow
<1>7. DeliveriesAnswered'
  <2> SUFFICES ASSUME NEW m \in Messages
               PROVE  /\ Charged(m)' <= 1 + lost'[m] + lapses'[m]
                      /\ Loose(m)' => Charged(m)' <= lost'[m] + lapses'[m]
    BY DEF DeliveriesAnswered
  <2>1. Holders(m)' \subseteq Holders(m)
    BY <1>4 DEF Holders, Messages
  <2>2. Loose(m)' => Loose(m)
    BY <1>2 DEF Loose
  <2> QED
    BY <1>1, <1>2, <2>1, <2>2, NothingCharged
<1> QED
  BY <1>3, <1>5, <1>6, <1>7 DEF QueueInv, MailInv

\* Time makes a row loose only by a lapse, which is counted.
LEMMA TimeStep ==
    ASSUME QueueInv, NEW m \in Messages, LeaseLapses(m) \/ RetryFallsDue(m) \/ LinkAges(m)
    PROVE  QueueInv'
<1>1. MailTypeOK /\ LinkFollowsStatus /\ SentWasDelivered /\ WorkersKnow /\ DeliveriesAnswered
  BY DEF QueueInv, MailInv
<1>2. /\ UNCHANGED <<status, link, attempts, batch, sending, outcome, links, delivered, lost>>
      /\ UNCHANGED requeues
  BY DEF LeaseLapses, RetryFallsDue, LinkAges, workerVars, outsideVars
<1>3. \/ /\ status[m] = "sending" /\ faults' \in {faults, faults + 1}
         /\ stale' = [stale EXCEPT ![m] = TRUE] /\ lapses' = [lapses EXCEPT ![m] = @ + 1]
         /\ UNCHANGED <<due, old>>
      \/ due' = [due EXCEPT ![m] = TRUE] /\ UNCHANGED <<stale, old, lapses, faults>>
      \/ old' = [old EXCEPT ![m] = TRUE] /\ UNCHANGED <<stale, due, lapses, faults>>
  BY DEF LeaseLapses, RetryFallsDue, LinkAges, workerVars, outsideVars
<1>4. MailTypeOK'
  <2>1. /\ stale' \in [Messages -> BOOLEAN] /\ due' \in [Messages -> BOOLEAN]
        /\ old' \in [Messages -> BOOLEAN]
    BY <1>1, <1>3 DEF MailTypeOK
  <2>2. lapses' \in [Messages -> Nat] /\ faults' \in Nat
    BY <1>1, <1>3 DEF MailTypeOK
  <2> QED
    BY <1>1, <1>2, <2>1, <2>2 DEF MailTypeOK
<1>5. LinkFollowsStatus' /\ SentWasDelivered' /\ WorkersKnow'
  BY <1>1, <1>2 DEF LinkFollowsStatus, Live, SentWasDelivered, WorkersKnow
<1>6. DeliveriesAnswered'
  <2> SUFFICES ASSUME NEW n \in Messages
               PROVE  /\ Charged(n)' <= 1 + lost'[n] + lapses'[n]
                      /\ Loose(n)' => Charged(n)' <= lost'[n] + lapses'[n]
    BY DEF DeliveriesAnswered
  <2> DEFINE H == Holders(n)
  <2>1. Charged(n) = delivered[n] + Cardinality(H) /\ Charged(n)' = delivered[n] + Cardinality(H)
    BY <1>2 DEF Charged, Holders
  <2>2. H \in SUBSET Workers
    BY DEF Holders
  <2> HIDE DEF H
  <2>3. /\ Cardinality(H) \in Nat
        /\ delivered[n] \in Nat /\ lost[n] \in Nat /\ lapses[n] \in Nat
    BY <1>1, <2>2, WorkersCount DEF MailTypeOK
  <2>4. \/ lapses'[n] = lapses[n] /\ (Loose(n)' <=> Loose(n))
        \/ lapses'[n] = lapses[n] + 1
    BY <1>1, <1>2, <1>3 DEF MailTypeOK, Loose
  <2>5. /\ Charged(n) <= 1 + lost[n] + lapses[n]
        /\ Loose(n) => Charged(n) <= lost[n] + lapses[n]
    BY <1>1 DEF DeliveriesAnswered
  <2> QED
    BY <1>2, <2>1, <2>3, <2>4, <2>5
<1> QED
  BY <1>4, <1>5, <1>6 DEF QueueInv, MailInv

-----------------------------------------------------------------------------
(* The queue.                                                               *)

\* The queue starts empty.
LEMMA QueueOpen == MailInit => QueueInv
<1> SUFFICES ASSUME MailInit
             PROVE  QueueInv
  OBVIOUS
<1>1. MailTypeOK
  BY DEF MailInit, MailTypeOK, MailStatus
<1>2. LinkFollowsStatus /\ SentWasDelivered
  BY DEF MailInit, LinkFollowsStatus, SentWasDelivered, Live
<1>3. WorkersKnow
  BY DEF MailInit, WorkersKnow
<1>4. DeliveriesAnswered
  <2> SUFFICES ASSUME NEW m \in Messages
               PROVE  Charged(m) <= lost[m] + lapses[m] /\ Charged(m) <= 1 + lost[m] + lapses[m]
    BY DEF DeliveriesAnswered
  <2>1. Holders(m) = {}
    BY DEF MailInit, Holders, Messages
  <2> QED
    BY <2>1, FS_EmptySet DEF MailInit, Charged
<1> QED
  BY <1>1, <1>2, <1>3, <1>4 DEF QueueInv, MailInv

\* Every step of the queue, its workers and time keeps the invariant.
LEMMA QueueStep == QueueInv /\ [MailNext]_mailVars => QueueInv'
<1> SUFFICES ASSUME QueueInv, [MailNext]_mailVars
             PROVE  QueueInv'
  OBVIOUS
<1>1. ASSUME NEW m \in Messages, Enqueue(m)
      PROVE  QueueInv'
  BY <1>1, EnqueueStep
<1>2. ASSUME NEW m \in Messages, Requeue(m)
      PROVE  QueueInv'
  BY <1>2, RequeueStep
<1>3. ASSUME NEW w \in Workers, ClaimBatch(w)
      PROVE  QueueInv'
  <2>1. /\ Picked \in SUBSET Messages /\ Messages \in SUBSET Messages
        /\ \A m \in Picked : m \notin Expired /\ (status[m] = "queued" \/ m \in Recovered(Messages))
    BY DEF Picked, Due
  <2>2. Take(w, Messages, Picked)
    BY <1>3 DEF ClaimBatch
  <2> QED
    BY <2>1, <2>2, TakeStep
<1>4. ASSUME NEW w \in Workers, NEW m \in Messages, ClaimOne(w, m)
      PROVE  QueueInv'
  <2> DEFINE one == {m}
  <2>1. /\ one \in SUBSET Messages
        /\ \A n \in one : n \notin Expired /\ (status[n] = "queued" \/ n \in Recovered(one))
        /\ Take(w, one, one)
    BY <1>4 DEF ClaimOne
  <2> HIDE DEF one
  <2> QED
    BY <2>1, TakeStep
<1>5. ASSUME NEW w \in Workers, NEW m \in Messages, Send(w, m)
      PROVE  QueueInv'
  BY <1>5, SendStep
<1>6. ASSUME NEW w \in Workers, Record(w)
      PROVE  QueueInv'
  BY <1>6, RecordStep
<1>7. ASSUME NEW w \in Workers, Crash(w)
      PROVE  QueueInv'
  BY <1>7, CrashStep
<1>8. ASSUME NEW m \in Messages, LeaseLapses(m) \/ RetryFallsDue(m) \/ LinkAges(m)
      PROVE  QueueInv'
  BY <1>8, TimeStep
<1>9. ASSUME UNCHANGED mailVars
      PROVE  QueueInv'
  BY <1>9 DEF mailVars, QueueInv, MailInv, MailTypeOK, LinkFollowsStatus, Live, SentWasDelivered,
              WorkersKnow, DeliveriesAnswered, Charged, Holders, Loose
<1> QED
  BY <1>1, <1>2, <1>3, <1>4, <1>5, <1>6, <1>7, <1>8, <1>9 DEF MailNext

\* The invariant holds in every behaviour of the queue.
LEMMA QueueHolds == MailSpec => []QueueInv
  BY QueueOpen, QueueStep, PTL DEF MailSpec

\* The rows of the mail queue keep a one-time link exactly while their message may
\* still be sent, and say sent only of what the mail server took, whoever settled
\* them: workers, staff, newer messages or age.
THEOREM LinksAndSentRows == MailSpec => []MailInv
<1>1. QueueInv => MailInv
  BY DEF QueueInv
<1> QED
  BY <1>1, QueueHolds, PTL

\* A message is delivered once, and once more at most for each answer that was lost
\* and each lease that lapsed, with any number of workers and batches of any size.
THEOREM DeliveredOnceButForALapse == MailSpec => []DuplicatesNeedALapse
<1>1. QueueInv => DuplicatesNeedALapse
  <2> SUFFICES ASSUME QueueInv, NEW m \in Messages
               PROVE  delivered[m] <= 1 + lost[m] + lapses[m]
    BY DEF DuplicatesNeedALapse
  <2> DEFINE H == Holders(m)
  <2>1. H \in SUBSET Workers /\ delivered[m] + Cardinality(H) <= 1 + lost[m] + lapses[m]
    BY DEF QueueInv, DeliveriesAnswered, Charged, Holders
  <2>2. delivered[m] \in Nat /\ lost[m] \in Nat /\ lapses[m] \in Nat
    BY DEF QueueInv, MailInv, MailTypeOK
  <2> HIDE DEF H
  <2>3. Cardinality(H) \in Nat
    BY <2>1, WorkersCount
  <2> QED
    BY <2>1, <2>2, <2>3
<1> QED
  BY <1>1, QueueHolds, PTL

\* A message is given up after all its attempts, or because a worker was told that it
\* will never be taken; no claim, crash, lapse or newer message gives one up.
THEOREM GivenUpForCauseOnly == MailSpec => GivenUpForCause
<1> DEFINE ForCause ==
             \A m \in Messages :
               status[m] # "failed" /\ status'[m] = "failed" =>
                 \/ attempts[m] >= MaxAttempts
                 \/ \E w \in Workers : sending[w] = m /\ outcome[w] = "permanent"
<1>1. QueueInv /\ [MailNext]_mailVars => [ForCause]_mailVars
  <2> SUFFICES ASSUME QueueInv, MailNext, NEW m \in Messages,
                      status[m] # "failed", status'[m] = "failed"
               PROVE  \/ attempts[m] >= MaxAttempts
                      \/ \E w \in Workers : sending[w] = m /\ outcome[w] = "permanent"
    OBVIOUS
  <2>1. MailTypeOK /\ WorkersKnow
    BY DEF QueueInv, MailInv
  <2>2. PICK w \in Workers : Record(w)
    <3>1. ~ \E n \in Messages : Enqueue(n) \/ Requeue(n)
      BY <2>1 DEF Enqueue, Requeue, MailTypeOK
    <3>2. ASSUME NEW w, NEW ms, NEW ps
          PROVE  ~Take(w, ms, ps)
      BY DEF Take
    <3>3. ~ \E w \in Workers : ClaimBatch(w) \/ Crash(w)
      BY <3>2 DEF ClaimBatch, Crash
    <3>4. ~ \E w \in Workers, n \in Messages : ClaimOne(w, n) \/ Send(w, n)
      BY <3>2 DEF ClaimOne, Send
    <3>5. ~ \E n \in Messages : LeaseLapses(n) \/ RetryFallsDue(n) \/ LinkAges(n)
      BY DEF LeaseLapses, RetryFallsDue, LinkAges
    <3> QED
      BY <3>1, <3>3, <3>4, <3>5 DEF MailNext
  <2>3. /\ sending[w] = m /\ Recorded(w, m) = "failed"
    BY <2>1, <2>2 DEF Record, MailTypeOK
  <2>4. outcome[w] \in {"retryable", "permanent"} /\ ~Requeued(w, m)
    <3>1. outcome[w] \in {"sent", "retryable", "permanent"}
      BY <2>1, <2>3 DEF WorkersKnow, MailTypeOK, Outcomes, Messages
    <3> QED
      BY <2>3, <3>1 DEF Recorded
  <2>5. attempts[m] \in Nat /\ MaxAttempts \in Nat
    BY <2>1, MailAssumption DEF MailTypeOK
  <2> QED
    BY <2>3, <2>4, <2>5 DEF Requeued, Retries
<1> QED
  BY <1>1, QueueHolds, PTL DEF MailSpec, GivenUpForCause

-----------------------------------------------------------------------------
(* The inductive invariant of the public form.                              *)

\* A filing is of one form, and a form that was sent has one.
FilingsHaveOneForm ==
    /\ \A f \in Forms : form[f].filing # None => filing[form[f].filing] # "none"
    /\ \A a \in Filings : filing[a] # "none" => \E f \in Forms : form[f].filing = a
    /\ \A f, g \in Forms : form[f].filing = form[g].filing /\ form[f].filing # None => f = g
    /\ \A f \in Forms : form[f].state = "submitted" => form[f].filing # None

\* A key names one form, and the page that sent a form has its key.
KeysHaveOneForm ==
    /\ \A f, g \in Forms : form[f].key = form[g].key /\ form[f].key # None => f = g
    /\ \A f \in Forms :
          form[f].sender # None => form[f].state = "submitted" /\ form[f].key = form[f].sender

\* An upload that has not come to its end is of a pending object, and its bytes
\* are there before it is completed; bytes go once the row is gone.
UploadsInOrder(d) ==
    /\ doc[d].step \in {"put", "complete"} => doc[d].object = "pending"
    /\ doc[d].step = "complete" => doc[d].bytes
    /\ doc[d].step = "erase" => ~doc[d].live
    /\ doc[d].live /\ doc[d].object = "active" => doc[d].bytes

\* A document that was ever attached is active, or was taken out.
WasAttached(d) == doc[d].object = "active" \/ (doc[d].object = "deleted" /\ ~doc[d].live)

\* A document that an answer, a form or a call in flight refers to.
Attached(d) ==
    \/ \E p \in Pages : answer[p] = d
    \/ \E f \in Forms : form[f].file = d
    \/ \E c \in calls : c.file = d

\* Only what is or was active is attached.
AttachmentsWereActive == \A d \in Documents : Attached(d) => WasAttached(d)

\* The clean-up is at a document that no upload is at, and that is not active.
CleanerIsAlone ==
    /\ cleaner.step # "idle" => cleaner.at # None
    /\ cleaner.at # None =>
          /\ doc[cleaner.at].step = "over"
          /\ doc[cleaner.at].object \in {"pending", "rejected", "deleted"}

\* The conjunction is inductive.
FormIsSound ==
    /\ FormTypeOK
    /\ FilingsHaveOneForm
    /\ KeysHaveOneForm
    /\ \A d \in Documents : UploadsInOrder(d)
    /\ AttachmentsWereActive
    /\ CleanerIsAlone

-----------------------------------------------------------------------------
(* Saving a form.                                                           *)

\* What is sent is final, and what staff decided stands, in one step.
SentStays == \A f \in Forms : form[f].state = "submitted" => form'[f] = form[f]

\* What staff took up or the family withdrew is not written by saving a form.
StaffStand ==
    form' # form =>
        \A a \in Filings : filing[a] \in {"under_review", "withdrawn"} => filing'[a] = filing[a]

\* The row that a call saves was not sent yet.
LEMMA RowsAreNotSent ==
    ASSUME FormTypeOK, NEW c \in calls, Replayed(c) = {}, NEW f \in RowsFor(c)
    PROVE  f \in Forms /\ form[f].state # "submitted"
<1>1. c.of \in Forms \cup {None} BY DEF FormTypeOK, Calls
<1>2. CASE c.of # None BY <1>1, <1>2 DEF RowsFor, IsDraft
<1>3. CASE c.of = None /\ f \in SameKey(c)
  BY <1>3 DEF SameKey, Replayed
<1>4. CASE c.of = None /\ f \in NewForm
  <2>1. definition.forms \in SUBSET Forms
    BY FormAssumption DEF FormTypeOK, FormAssumption
  <2> QED BY <1>4, <2>1 DEF NewForm, NewOf
<1> QED BY <1>2, <1>3, <1>4 DEF RowsFor

\* A row is saved: it files nothing that another row filed, its key is its own,
\* and its file is the one of the call.
LEMMA SaveIsSound ==
    ASSUME FormIsSound, NEW c \in calls, NEW f \in Forms,
           form[f].state # "submitted", Save(f, c)
    PROVE  /\ form' \in [Forms -> FormRows]
           /\ filing' \in [Filings -> FilingStatus \cup {"none"}]
           /\ FilingsHaveOneForm' /\ KeysHaveOneForm'
           /\ SentStays /\ StaffStand
           /\ \A g \in Forms : form'[g].file \in {form[g].file, c.file}
<1> USE DEF FormIsSound
<1>1. /\ form \in [Forms -> FormRows]
      /\ filing \in [Filings -> FilingStatus \cup {"none"}]
  BY DEF FormTypeOK
<1>2. /\ c.page \in Pages /\ c.file \in Documents \cup {None}
      /\ c.kind \in {"nameless", "draft", "final"}
  BY DEF FormTypeOK, Calls
<1>3. /\ \A p \in Pages : p # None
      /\ \A a \in Filings : a # None
  BY FormAssumption DEF FormAssumption
<1> DEFINE row(a) ==
              [state |-> IF c.kind = "final" THEN "submitted" ELSE "draft",
               key |-> c.page, filing |-> a, file |-> c.file,
               sender |-> IF c.kind = "final" THEN c.page ELSE None]
<1>4. ASSUME NEW a \in Filings \cup {None}, form' = Saved(f, c, a)
      PROVE  /\ form' \in [Forms -> FormRows]
             /\ form'[f] = row(a)
             /\ \A g \in Forms \ {f} : form'[g] = form[g]
  <2>1. row(a) \in FormRows BY <1>2 DEF FormRows
  <2>2. form' = [form EXCEPT ![f] = row(a)] BY <1>4 DEF Saved, KeyFor
  <2> HIDE DEF row
  <2> QED BY <1>1, <2>1, <2>2
<1>5. PICK a \in Filings \cup {None} : form' = Saved(f, c, a)
           /\ \/ /\ MakesFiling(f, c) /\ a \in NewFiling
                 /\ filing' = [filing EXCEPT ![a] = NewFilingStatus(c)]
              \/ /\ ~MakesFiling(f, c) /\ a = form[f].filing
                 /\ IF c.kind = "final"
                    THEN MaySubmit(a) /\ filing' = [filing EXCEPT ![a] = "submitted"]
                    ELSE UNCHANGED filing
  <2>1. form[f].filing \in Filings \cup {None} BY <1>1 DEF FormRows
  <2>2. \A a \in NewFiling : a \in Filings BY DEF NewFiling, NewOf
  <2>3. CASE MakesFiling(f, c)
    <3>1. PICK a \in NewFiling : filing' = [filing EXCEPT ![a] = NewFilingStatus(c)]
                                 /\ form' = Saved(f, c, a)
      BY <2>3 DEF Save
    <3> QED BY <2>2, <2>3, <3>1
  <2>4. CASE ~MakesFiling(f, c)
    <3>1. /\ form' = Saved(f, c, form[f].filing)
          /\ IF c.kind = "final"
             THEN MaySubmit(form[f].filing)
                  /\ filing' = [filing EXCEPT ![form[f].filing] = "submitted"]
             ELSE UNCHANGED filing
      BY <2>4 DEF Save
    <3> QED BY <2>1, <2>4, <3>1
  <2> QED BY <2>3, <2>4
<1>6. /\ form' \in [Forms -> FormRows]
      /\ form'[f] = row(a)
      /\ \A g \in Forms \ {f} : form'[g] = form[g]
  <2> HIDE DEF row
  <2> QED BY <1>4, <1>5
<1>7. /\ form'[f].state = (IF c.kind = "final" THEN "submitted" ELSE "draft")
      /\ form'[f].key = c.page /\ form'[f].filing = a /\ form'[f].file = c.file
      /\ form'[f].sender = (IF c.kind = "final" THEN c.page ELSE None)
  BY <1>6
<1> HIDE DEF row
<1>8. /\ SentStays
      /\ \A g \in Forms : form'[g].file \in {form[g].file, c.file}
  BY <1>6, <1>7 DEF SentStays
<1>9. KeysHaveOneForm'
  <2>1. \A g \in Forms \ {f} : form[g].key # c.page
    BY <1>2, <1>3 DEF Save, KeyIsFree, KeyFor
  <2>2. \A g \in Forms : form'[g].key = IF g = f THEN c.page ELSE form[g].key
    BY <1>6, <1>7
  <2>3. ASSUME NEW g \in Forms, NEW h \in Forms, form'[g].key = form'[h].key, form'[g].key # None
        PROVE  g = h
    BY <2>1, <2>2, <2>3 DEF KeysHaveOneForm
  <2>4. ASSUME NEW g \in Forms, form'[g].sender # None
        PROVE  form'[g].state = "submitted" /\ form'[g].key = form'[g].sender
    <3>1. CASE g = f BY <1>7, <2>4, <3>1
    <3>2. CASE g # f BY <1>6, <2>4, <3>2 DEF KeysHaveOneForm
    <3> QED BY <3>1, <3>2
  <2> QED BY <2>3, <2>4 DEF KeysHaveOneForm
<1>10. /\ filing' \in [Filings -> FilingStatus \cup {"none"}]
       /\ FilingsHaveOneForm' /\ StaffStand
  <2>1. CASE MakesFiling(f, c) /\ a \in NewFiling
             /\ filing' = [filing EXCEPT ![a] = NewFilingStatus(c)]
    <3>1. a \in Filings /\ filing[a] = "none" BY <2>1 DEF NewFiling, NewOf
    <3>2. NewFilingStatus(c) \in FilingStatus /\ NewFilingStatus(c) # "none"
      BY DEF NewFilingStatus, FilingStatus
    <3>3. /\ filing' \in [Filings -> FilingStatus \cup {"none"}]
          /\ \A b \in Filings : filing'[b] = IF b = a THEN NewFilingStatus(c) ELSE filing[b]
      BY <1>1, <2>1, <3>1, <3>2
    <3>4. \A g \in Forms : form[g].filing # a
      BY <1>3, <3>1 DEF FilingsHaveOneForm
    <3>5. form[f].filing = None BY <2>1 DEF MakesFiling
    <3>6. \A g \in Forms : form[g].filing \in Filings \cup {None} BY <1>1 DEF FormRows
    <3>7. \A g \in Forms : form'[g].filing = IF g = f THEN a ELSE form[g].filing BY <1>6, <1>7
    <3>8. \A g \in Forms : form'[g].filing # None => filing'[form'[g].filing] # "none"
      BY <3>1, <3>2, <3>3, <3>6, <3>7 DEF FilingsHaveOneForm
    <3>9. ASSUME NEW b \in Filings, filing'[b] # "none" PROVE \E g \in Forms : form'[g].filing = b
      <4>1. CASE b = a BY <3>7, <4>1
      <4>2. CASE b # a
        <5>1. PICK g \in Forms : form[g].filing = b BY <3>3, <3>9, <4>2 DEF FilingsHaveOneForm
        <5>2. g # f BY <1>3, <3>5, <5>1
        <5> QED BY <3>7, <5>1, <5>2
      <4> QED BY <4>1, <4>2
    <3>10. \A g, h \in Forms : form'[g].filing = form'[h].filing /\ form'[g].filing # None => g = h
      BY <3>4, <3>7 DEF FilingsHaveOneForm
    <3>11. \A g \in Forms : form'[g].state = "submitted" => form'[g].filing # None
      BY <1>3, <1>6, <3>1, <3>7 DEF FilingsHaveOneForm
    <3>12. StaffStand BY <3>1, <3>3 DEF StaffStand
    <3> QED BY <3>3, <3>8, <3>9, <3>10, <3>11, <3>12 DEF FilingsHaveOneForm
  <2>2. CASE ~MakesFiling(f, c) /\ a = form[f].filing
             /\ IF c.kind = "final"
                THEN MaySubmit(a) /\ filing' = [filing EXCEPT ![a] = "submitted"]
                ELSE UNCHANGED filing
    <3>1. \A g \in Forms : form'[g].filing = form[g].filing BY <1>6, <1>7, <2>2
    <3>2. c.kind = "final" => a # None /\ a \in Filings BY <2>2 DEF MakesFiling
    <3>3. /\ filing' \in [Filings -> FilingStatus \cup {"none"}]
          /\ \A b \in Filings : (filing'[b] = "none" <=> filing[b] = "none")
          /\ \A b \in Filings : filing[b] \in {"under_review", "withdrawn"} => filing'[b] = filing[b]
      <4>1. CASE c.kind = "final"
        <5>1. filing' = [filing EXCEPT ![a] = "submitted"] /\ MaySubmit(a) BY <2>2, <4>1
        <5>2. filing' \in [Filings -> FilingStatus \cup {"none"}]
              /\ \A b \in Filings : filing'[b] = IF b = a THEN "submitted" ELSE filing[b]
          BY <1>1, <5>1 DEF FilingStatus
        <5>3. filing[a] \in {"draft", "information_required", "submitted"} BY <5>1 DEF MaySubmit
        <5> QED BY <5>2, <5>3
      <4>2. CASE c.kind # "final" BY <1>1, <2>2, <4>2
      <4> QED BY <4>1, <4>2
    <3>4. \A g \in Forms : form[g].filing \in Filings \cup {None} BY <1>1 DEF FormRows
    <3>5. \A g \in Forms : form'[g].state = "submitted" => form'[g].filing # None
      BY <1>6, <1>7, <2>2, <3>1, <3>2 DEF FilingsHaveOneForm
    <3> QED BY <3>1, <3>3, <3>4, <3>5 DEF FilingsHaveOneForm, StaffStand
  <2> QED BY <1>5, <2>1, <2>2
<1> QED BY <1>6, <1>8, <1>9, <1>10

-----------------------------------------------------------------------------
(* Requests, links and staff: the documents stay as they are.               *)

\* Nothing is attached that was not attached or active before.
LEMMA FormsOnly ==
    ASSUME FormIsSound, UNCHANGED <<definition, doc, cleaner, failures>>,
           form' \in [Forms -> FormRows],
           filing' \in [Filings -> FilingStatus \cup {"none"}],
           known' \in [Pages -> Forms \cup {None}],
           answer' \in [Pages -> Documents \cup {None}],
           calls' \subseteq Calls,
           FilingsHaveOneForm', KeysHaveOneForm',
           \A d \in Documents : Attached(d)' => Attached(d)
    PROVE  FormIsSound'
<1> USE DEF FormIsSound
<1>1. FormTypeOK' BY DEF FormTypeOK
<1>2. AttachmentsWereActive' BY DEF AttachmentsWereActive, WasAttached
<1> QED BY <1>1, <1>2 DEF UploadsInOrder, CleanerIsAlone

\* A page asks for a form to be saved.
LEMMA AskIsSound ==
    ASSUME FormIsSound, NEW p \in Pages, NEW kind \in {"nameless", "draft", "final"}, Ask(p, kind)
    PROVE  FormIsSound' /\ form' = form
<1> USE DEF FormIsSound
<1> DEFINE c == [page |-> p, kind |-> kind, of |-> known[p], file |-> answer[p]]
<1>1. /\ calls' = calls \cup {c}
      /\ UNCHANGED <<definition, form, filing, known, answer, doc, cleaner, failures>>
  BY DEF Ask
<1>2. c \in Calls BY DEF FormTypeOK, Calls
<1>3. \A d \in Documents : Attached(d)' => Attached(d)
  <2>1. c.file = answer[p] OBVIOUS
  <2> HIDE DEF c
  <2> QED BY <1>1, <2>1 DEF Attached
<1>4. FilingsHaveOneForm' /\ KeysHaveOneForm'
  BY <1>1 DEF FilingsHaveOneForm, KeysHaveOneForm
<1>5. /\ form' \in [Forms -> FormRows]
      /\ filing' \in [Filings -> FilingStatus \cup {"none"}]
      /\ known' \in [Pages -> Forms \cup {None}]
      /\ answer' \in [Pages -> Documents \cup {None}]
      /\ calls' \subseteq Calls
  BY <1>1, <1>2 DEF FormTypeOK
<1> QED BY <1>1, <1>3, <1>4, <1>5, FormsOnly

\* A form is saved, or its repetition answered.
LEMMA SubmitIsSound ==
    ASSUME FormIsSound, NEW c \in calls, SubmitForm(c)
    PROVE  FormIsSound' /\ SentStays /\ StaffStand
<1> USE DEF FormIsSound
<1>1. calls' = calls \ {c} /\ UNCHANGED <<definition, answer, doc, cleaner, failures>>
  BY DEF SubmitForm
<1>2. answer' \in [Pages -> Documents \cup {None}] /\ calls' \subseteq Calls
  BY <1>1 DEF FormTypeOK
<1>3. CASE UNCHANGED <<form, filing, known>>
  <2>1. FilingsHaveOneForm' /\ KeysHaveOneForm'
    BY <1>3 DEF FilingsHaveOneForm, KeysHaveOneForm
  <2>2. /\ form' \in [Forms -> FormRows]
        /\ filing' \in [Filings -> FilingStatus \cup {"none"}]
        /\ known' \in [Pages -> Forms \cup {None}]
    BY <1>3 DEF FormTypeOK
  <2>3. \A d \in Documents : Attached(d)' => Attached(d) BY <1>1, <1>3 DEF Attached
  <2> QED BY <1>1, <1>2, <1>3, <2>1, <2>2, <2>3, FormsOnly DEF SentStays, StaffStand
<1>4. ASSUME Replayed(c) = {}, NEW f \in RowsFor(c), Save(f, c),
             IF c.kind = "final" THEN UNCHANGED known ELSE Learns(c.page, f)
      PROVE  FormIsSound' /\ SentStays /\ StaffStand
  <2>1. f \in Forms /\ form[f].state # "submitted" BY <1>4, RowsAreNotSent
  <2>2. /\ form' \in [Forms -> FormRows]
        /\ filing' \in [Filings -> FilingStatus \cup {"none"}]
        /\ FilingsHaveOneForm' /\ KeysHaveOneForm'
        /\ SentStays /\ StaffStand
        /\ \A g \in Forms : form'[g].file \in {form[g].file, c.file}
    BY <1>4, <2>1, SaveIsSound
  <2>3. known' \in [Pages -> Forms \cup {None}]
    <3>1. known \in [Pages -> Forms \cup {None}] /\ c.page \in Pages BY DEF FormTypeOK, Calls
    <3>2. known' = known \/ known' = [known EXCEPT ![c.page] = f] BY <1>4 DEF Learns
    <3> QED BY <2>1, <3>1, <3>2
  <2>4. \A d \in Documents : Attached(d)' => Attached(d) BY <1>1, <2>2 DEF Attached
  <2> QED BY <1>1, <1>2, <2>2, <2>3, <2>4, FormsOnly
<1> QED BY <1>3, <1>4 DEF SubmitForm

\* A form is shared by a link.
LEMMA LinkIsSound ==
    ASSUME FormIsSound, NEW p \in Pages, NEW q \in Pages, OpenLink(p, q)
    PROVE  FormIsSound' /\ form' = form
<1> USE DEF FormIsSound
<1>1. /\ known' = [known EXCEPT ![p] = known[q]]
      /\ answer' = [answer EXCEPT ![p] = form[known[q]].file]
      /\ UNCHANGED <<definition, form, filing, calls, doc, cleaner, failures>>
      /\ known[q] # None
  BY DEF OpenLink, IsDraft
<1>2. known[q] \in Forms BY <1>1 DEF FormTypeOK
<1>3. form[known[q]].file \in Documents \cup {None} BY <1>2 DEF FormTypeOK, FormRows
<1>4. \A x \in Pages : answer'[x] = IF x = p THEN form[known[q]].file ELSE answer[x]
  BY <1>1 DEF FormTypeOK
<1>5. \A d \in Documents : Attached(d)' => Attached(d) BY <1>1, <1>2, <1>4 DEF Attached
<1>6. /\ form' \in [Forms -> FormRows]
      /\ filing' \in [Filings -> FilingStatus \cup {"none"}]
      /\ known' \in [Pages -> Forms \cup {None}]
      /\ answer' \in [Pages -> Documents \cup {None}]
      /\ calls' \subseteq Calls
  BY <1>1, <1>2, <1>3 DEF FormTypeOK
<1>7. FilingsHaveOneForm' /\ KeysHaveOneForm'
  BY <1>1 DEF FilingsHaveOneForm, KeysHaveOneForm
<1> QED BY <1>1, <1>5, <1>6, <1>7, FormsOnly

\* A link lapses.
LEMMA LapseIsSound ==
    ASSUME FormIsSound, NEW f \in Forms, Lapse(f)
    PROVE  FormIsSound' /\ SentStays /\ filing' = filing
<1> USE DEF FormIsSound
<1>1. /\ form[f].state = "draft"
      /\ form' = [form EXCEPT ![f].state = "lapsed"]
      /\ UNCHANGED <<definition, filing, known, answer, calls, doc, cleaner, failures>>
  BY DEF Lapse, IsDraft
<1>2. form \in [Forms -> FormRows] BY DEF FormTypeOK
<1>3. form' \in [Forms -> FormRows] BY <1>1, <1>2 DEF FormRows
<1>4. \A g \in Forms :
        /\ form'[g].filing = form[g].filing /\ form'[g].key = form[g].key
        /\ form'[g].file = form[g].file /\ form'[g].sender = form[g].sender
        /\ g # f => form'[g] = form[g]
        /\ form'[f].state = "lapsed"
  BY <1>1, <1>2 DEF FormRows
<1>5. FilingsHaveOneForm' BY <1>1, <1>4 DEF FilingsHaveOneForm
<1>6. KeysHaveOneForm'
  <2>1. form[f].sender = None BY <1>1 DEF KeysHaveOneForm
  <2> QED BY <1>4, <2>1 DEF KeysHaveOneForm
<1>7. \A d \in Documents : Attached(d)' => Attached(d) BY <1>1, <1>4 DEF Attached
<1>8. /\ filing' \in [Filings -> FilingStatus \cup {"none"}]
      /\ known' \in [Pages -> Forms \cup {None}]
      /\ answer' \in [Pages -> Documents \cup {None}]
      /\ calls' \subseteq Calls
  BY <1>1 DEF FormTypeOK
<1>9. SentStays BY <1>1, <1>4 DEF SentStays
<1> QED BY <1>1, <1>3, <1>5, <1>6, <1>7, <1>8, <1>9, FormsOnly

\* Staff move a filing.
LEMMA StaffMoveIsSound ==
    ASSUME FormIsSound, NEW a \in Filings, NEW to \in FilingStatus, StaffMove(a, to)
    PROVE  FormIsSound' /\ form' = form
<1> USE DEF FormIsSound
<1>1. PICK f \in Forms : form[f].filing = a BY DEF StaffMove
<1>2. filing' = [filing EXCEPT ![a] = to]
      /\ UNCHANGED <<definition, form, known, answer, calls, doc, cleaner, failures>>
  BY DEF StaffMove
<1>3. to # "none" BY DEF FilingStatus
<1>4. a # None BY FormAssumption DEF FormAssumption
<1>5. /\ filing' \in [Filings -> FilingStatus \cup {"none"}]
      /\ \A b \in Filings : filing'[b] = IF b = a THEN to ELSE filing[b]
  BY <1>2 DEF FormTypeOK
<1>6. \A g \in Forms : form[g].filing \in Filings \cup {None} BY DEF FormTypeOK, FormRows
<1>7. FilingsHaveOneForm' BY <1>1, <1>2, <1>3, <1>4, <1>5, <1>6 DEF FilingsHaveOneForm
<1>8. /\ form' \in [Forms -> FormRows]
      /\ known' \in [Pages -> Forms \cup {None}]
      /\ answer' \in [Pages -> Documents \cup {None}]
      /\ calls' \subseteq Calls
  BY <1>2 DEF FormTypeOK
<1>9. KeysHaveOneForm' BY <1>2 DEF KeysHaveOneForm
<1>10. \A d \in Documents : Attached(d)' => Attached(d) BY <1>2 DEF Attached
<1> QED BY <1>2, <1>5, <1>7, <1>8, <1>9, <1>10, FormsOnly

-----------------------------------------------------------------------------
(* Uploads.                                                                 *)

\* The same of a row, for a row that is written.
RowInOrder(row) ==
    /\ row.step \in {"put", "complete"} => row.object = "pending"
    /\ row.step = "complete" => row.bytes
    /\ row.step = "erase" => ~row.live
    /\ row.live /\ row.object = "active" => row.bytes

\* One document changes, and stays in order; what was attached stays active or
\* taken out, and only an active document is attached anew.
LEMMA OneDocument ==
    ASSUME FormIsSound, NEW d \in Documents, NEW row \in DocumentRows,
           doc' = [doc EXCEPT ![d] = row],
           UNCHANGED <<definition, form, filing, known, calls, cleaner>>,
           failures' \in 0 .. MaxFailures,
           answer' \in [Pages -> Documents \cup {None}],
           \A p \in Pages : answer'[p] \in {answer[p], None} \/ (answer'[p] = d /\ row.object = "active"),
           RowInOrder(row),
           WasAttached(d) => row.object = "active" \/ (row.object = "deleted" /\ ~row.live),
           cleaner.at = d => row.step = "over" /\ row.object \in {"pending", "rejected", "deleted"}
    PROVE  FormIsSound'
<1> USE DEF FormIsSound
<1>1. /\ doc' \in [Documents -> DocumentRows]
      /\ \A e \in Documents : doc'[e] = IF e = d THEN row ELSE doc[e]
  BY DEF FormTypeOK
<1>2. FormTypeOK' BY <1>1 DEF FormTypeOK
<1>3. FilingsHaveOneForm' /\ KeysHaveOneForm' BY DEF FilingsHaveOneForm, KeysHaveOneForm
<1>4. \A e \in Documents : UploadsInOrder(e)'
  <2> TAKE e \in Documents
  <2>1. CASE e = d BY <1>1, <2>1 DEF UploadsInOrder, RowInOrder
  <2>2. CASE e # d
    <3>1. doc'[e] = doc[e] BY <1>1, <2>2
    <3> QED BY <3>1 DEF UploadsInOrder
  <2> QED BY <2>1, <2>2
<1>5. AttachmentsWereActive'
  <2>1. ASSUME NEW e \in Documents, Attached(e)' PROVE WasAttached(e)'
    <3>1. e # None BY FormAssumption DEF FormAssumption
    <3>2. CASE Attached(e)
      <4>1. WasAttached(e) BY <3>2 DEF AttachmentsWereActive
      <4> QED BY <1>1, <4>1 DEF WasAttached
    <3>3. CASE ~Attached(e)
      <4>1. PICK p \in Pages : answer'[p] = e BY <2>1, <3>3 DEF Attached
      <4>2. e = d /\ row.object = "active" BY <3>1, <3>3, <4>1 DEF Attached
      <4> QED BY <1>1, <4>2 DEF WasAttached
    <3> QED BY <3>2, <3>3
  <2> QED BY <2>1 DEF AttachmentsWereActive
<1>6. CleanerIsAlone'
  <2>1. cleaner.at \in Documents \cup {None} BY DEF FormTypeOK
  <2> QED BY <1>1, <2>1 DEF CleanerIsAlone
<1> QED BY <1>2, <1>3, <1>4, <1>5, <1>6

\* What a document's row may be: used by each action below.
LEMMA DocumentFacts ==
    ASSUME FormIsSound, NEW d \in Documents
    PROVE  /\ doc[d] \in DocumentRows /\ UploadsInOrder(d) /\ d # None
           /\ answer \in [Pages -> Documents \cup {None}]
           /\ failures \in 0 .. MaxFailures
           /\ cleaner.at = d => doc[d].step = "over"
                                /\ doc[d].object \in {"pending", "rejected", "deleted"}
           /\ Attached(d) => WasAttached(d)
           /\ Failure => failures' \in 0 .. MaxFailures
           /\ doc \in [Documents -> DocumentRows]
BY FormAssumption DEF FormIsSound, FormTypeOK, CleanerIsAlone, AttachmentsWereActive,
   Failure, FormAssumption

\* An upload starts with a row.
LEMMA RegisterIsSound ==
    ASSUME FormIsSound, NEW p \in Pages, NEW d \in Documents, Register(p, d)
    PROVE  FormIsSound'
<1> DEFINE row == [of |-> known[p], by |-> p, live |-> TRUE,
                   object |-> "pending", bytes |-> FALSE, step |-> "put"]
<1>1. /\ doc[d].object = "none" /\ doc' = [doc EXCEPT ![d] = row]
      /\ UploadOnly /\ UNCHANGED <<answer, failures>>
  BY DEF Register
<1>2. row \in DocumentRows BY DEF FormIsSound, FormTypeOK, DocumentRows, ObjectStatus
<1>3. RowInOrder(row) BY DEF RowInOrder
<1>4. cleaner.at # d /\ ~WasAttached(d) BY <1>1, DocumentFacts DEF WasAttached
<1> HIDE DEF row
<1> QED BY <1>1, <1>2, <1>3, <1>4, DocumentFacts, OneDocument DEF UploadOnly

\* Its bytes are written.
LEMMA PutIsSound ==
    ASSUME FormIsSound, NEW d \in Documents, Put(d)
    PROVE  FormIsSound'
<1>1. /\ doc[d].step = "put" /\ UploadOnly /\ UNCHANGED <<answer, failures>>
  BY DEF Put
<1>2. doc[d] \in DocumentRows /\ doc[d].object = "pending" /\ cleaner.at # d
  BY <1>1, DocumentFacts DEF UploadsInOrder
<1>3. PICK row \in DocumentRows :
        /\ doc' = [doc EXCEPT ![d] = row]
        /\ RowInOrder(row) /\ row.object = "pending"
  <2>1. ASSUME doc' = [doc EXCEPT ![d].bytes = TRUE, ![d].step = "complete"]
        PROVE  \E row \in DocumentRows : /\ doc' = [doc EXCEPT ![d] = row]
                                        /\ RowInOrder(row) /\ row.object = "pending"
    <3> DEFINE row == [doc[d] EXCEPT !.bytes = TRUE, !.step = "complete"]
    <3>1. row \in DocumentRows /\ RowInOrder(row) /\ row.object = "pending"
      BY <1>2 DEF DocumentRows, RowInOrder
    <3>2. doc' = [doc EXCEPT ![d] = row] BY <2>1
    <3> HIDE DEF row
    <3> QED BY <3>1, <3>2
  <2>2. ASSUME NEW b \in BOOLEAN, doc' = [doc EXCEPT ![d].bytes = b, ![d].step = "reject"]
        PROVE  \E row \in DocumentRows : /\ doc' = [doc EXCEPT ![d] = row]
                                        /\ RowInOrder(row) /\ row.object = "pending"
    <3> DEFINE row == [doc[d] EXCEPT !.bytes = b, !.step = "reject"]
    <3>1. row \in DocumentRows /\ RowInOrder(row) /\ row.object = "pending"
      BY <1>2 DEF DocumentRows, RowInOrder
    <3>2. doc' = [doc EXCEPT ![d] = row] BY <2>2
    <3> HIDE DEF row
    <3> QED BY <3>1, <3>2
  <2> QED BY <2>1, <2>2 DEF Put
<1>4. ~WasAttached(d) BY <1>2 DEF WasAttached
<1> QED BY <1>1, <1>2, <1>3, <1>4, DocumentFacts, OneDocument DEF UploadOnly

\* It is completed, and the document active.
LEMMA CompleteIsSound ==
    ASSUME FormIsSound, NEW d \in Documents, Complete(d)
    PROVE  FormIsSound'
<1>1. doc[d].step = "complete" /\ UploadOnly BY DEF Complete
<1>2. /\ doc[d] \in DocumentRows /\ doc[d].object = "pending" /\ doc[d].bytes /\ cleaner.at # d
      /\ ~WasAttached(d)
  BY <1>1, DocumentFacts DEF UploadsInOrder, WasAttached
<1>3. PICK row \in DocumentRows :
        /\ doc' = [doc EXCEPT ![d] = row]
        /\ RowInOrder(row)
        /\ \/ row.object = "active" /\ answer' = [answer EXCEPT ![doc[d].by] = d]
           \/ UNCHANGED answer
        /\ failures' \in 0 .. MaxFailures
  <2>1. ASSUME doc' = [doc EXCEPT ![d].object = "active", ![d].step = "over", ![d].by = None],
               answer' = [answer EXCEPT ![doc[d].by] = d], UNCHANGED failures
        PROVE  \E row \in DocumentRows :
                  /\ doc' = [doc EXCEPT ![d] = row]
                  /\ RowInOrder(row)
                  /\ \/ row.object = "active" /\ answer' = [answer EXCEPT ![doc[d].by] = d]
                     \/ UNCHANGED answer
                  /\ failures' \in 0 .. MaxFailures
    <3> DEFINE row == [doc[d] EXCEPT !.object = "active", !.step = "over", !.by = None]
    <3>1. row \in DocumentRows /\ RowInOrder(row) /\ row.object = "active"
      BY <1>2 DEF DocumentRows, RowInOrder, ObjectStatus
    <3>2. doc' = [doc EXCEPT ![d] = row] BY <2>1
    <3> HIDE DEF row
    <3> QED BY <2>1, <3>1, <3>2, DocumentFacts
  <2>2. ASSUME doc' = [doc EXCEPT ![d].object = "active", ![d].step = "reject"],
               UNCHANGED answer, Failure
        PROVE  \E row \in DocumentRows :
                  /\ doc' = [doc EXCEPT ![d] = row]
                  /\ RowInOrder(row)
                  /\ \/ row.object = "active" /\ answer' = [answer EXCEPT ![doc[d].by] = d]
                     \/ UNCHANGED answer
                  /\ failures' \in 0 .. MaxFailures
    <3> DEFINE row == [doc[d] EXCEPT !.object = "active", !.step = "reject"]
    <3>1. row \in DocumentRows /\ RowInOrder(row)
      BY <1>2 DEF DocumentRows, RowInOrder, ObjectStatus
    <3>2. doc' = [doc EXCEPT ![d] = row] BY <2>2
    <3> HIDE DEF row
    <3> QED BY <2>2, <3>1, <3>2, DocumentFacts
  <2>3. ASSUME doc' = [doc EXCEPT ![d].step = "reject"], UNCHANGED <<answer, failures>>
        PROVE  \E row \in DocumentRows :
                  /\ doc' = [doc EXCEPT ![d] = row]
                  /\ RowInOrder(row)
                  /\ \/ row.object = "active" /\ answer' = [answer EXCEPT ![doc[d].by] = d]
                     \/ UNCHANGED answer
                  /\ failures' \in 0 .. MaxFailures
    <3> DEFINE row == [doc[d] EXCEPT !.step = "reject"]
    <3>1. row \in DocumentRows /\ RowInOrder(row)
      BY <1>2 DEF DocumentRows, RowInOrder
    <3>2. doc' = [doc EXCEPT ![d] = row] BY <2>3
    <3> HIDE DEF row
    <3> QED BY <2>3, <3>1, <3>2, DocumentFacts
  <2> QED BY <2>1, <2>2, <2>3 DEF Complete
<1>4. /\ answer' \in [Pages -> Documents \cup {None}]
      /\ \A p \in Pages : answer'[p] \in {answer[p], None} \/ (answer'[p] = d /\ row.object = "active")
  BY <1>3, DocumentFacts
<1> QED BY <1>1, <1>2, <1>3, <1>4, OneDocument DEF UploadOnly

\* It is rejected.
LEMMA RejectIsSound ==
    ASSUME FormIsSound, NEW d \in Documents, Reject(d)
    PROVE  FormIsSound'
<1>1. /\ doc[d].step = "reject" /\ doc' = [doc EXCEPT ![d] = RejectedRow(d)]
      /\ UploadOnly /\ UNCHANGED <<answer, failures>>
  BY DEF Reject
<1>2. doc[d] \in DocumentRows /\ cleaner.at # d BY <1>1, DocumentFacts
<1>3. /\ RejectedRow(d) \in DocumentRows /\ RowInOrder(RejectedRow(d))
      /\ WasAttached(d) => RejectedRow(d).object = "active"
                           \/ (RejectedRow(d).object = "deleted" /\ ~RejectedRow(d).live)
  BY <1>2 DEF RejectedRow, DocumentRows, RowInOrder, ObjectStatus, WasAttached
<1> QED BY <1>1, <1>2, <1>3, DocumentFacts, OneDocument DEF UploadOnly

\* The end of an upload: the step is over, and the bytes may be gone of a row
\* that is not live.
LEMMA OverIsSound ==
    ASSUME FormIsSound, NEW d \in Documents, NEW row \in DocumentRows,
           doc[d].step # "over",
           doc' = [doc EXCEPT ![d] = row],
           row.object = doc[d].object, row.live = doc[d].live, row.step = "over",
           row.bytes = doc[d].bytes \/ ~doc[d].live,
           UploadOnly, UNCHANGED answer, failures' \in 0 .. MaxFailures
    PROVE  FormIsSound'
<1>1. RowInOrder(row) BY DocumentFacts DEF UploadsInOrder, RowInOrder, DocumentRows
<1>2. cleaner.at # d BY DocumentFacts
<1>3. WasAttached(d) => row.object = "active" \/ (row.object = "deleted" /\ ~row.live)
  BY DEF WasAttached
<1> QED BY <1>1, <1>2, <1>3, DocumentFacts, OneDocument DEF UploadOnly

\* Its bytes are erased after its row.
LEMMA EraseIsSound ==
    ASSUME FormIsSound, NEW d \in Documents, Erase(d) \/ UploadCrash(d)
    PROVE  FormIsSound'
<1>1. doc[d] \in DocumentRows /\ failures \in 0 .. MaxFailures
      /\ (Failure => failures' \in 0 .. MaxFailures)
      /\ doc \in [Documents -> DocumentRows]
  BY DocumentFacts
<1> DEFINE kept == [doc[d] EXCEPT !.step = "over", !.by = None]
           gone == [doc[d] EXCEPT !.bytes = FALSE, !.step = "over", !.by = None]
<1>2. /\ doc[d].step # "over" /\ UploadOnly /\ UNCHANGED answer
      /\ \/ doc' = [doc EXCEPT ![d] = kept] /\ Failure
         \/ doc' = [doc EXCEPT ![d] = gone] /\ UNCHANGED failures /\ doc[d].step = "erase"
  BY <1>1 DEF Erase, UploadCrash
<1>3. /\ kept \in DocumentRows /\ gone \in DocumentRows
      /\ kept.object = doc[d].object /\ kept.live = doc[d].live /\ kept.step = "over"
      /\ gone.object = doc[d].object /\ gone.live = doc[d].live /\ gone.step = "over"
      /\ kept.bytes = doc[d].bytes
  BY <1>1 DEF DocumentRows
<1>4. doc[d].step = "erase" => ~doc[d].live BY DocumentFacts DEF UploadsInOrder
<1> HIDE DEF kept, gone
<1>5. CASE doc' = [doc EXCEPT ![d] = kept] /\ Failure BY <1>1, <1>2, <1>3, <1>5, OverIsSound
<1>6. CASE doc' = [doc EXCEPT ![d] = gone] /\ UNCHANGED failures /\ doc[d].step = "erase"
  BY <1>1, <1>2, <1>3, <1>4, <1>6, OverIsSound
<1> QED BY <1>2, <1>5, <1>6

\* A document is taken out.
LEMMA RemoveIsSound ==
    ASSUME FormIsSound, NEW p \in Pages, Remove(p)
    PROVE  FormIsSound'
<1>1. /\ answer[p] # None /\ answer' = [answer EXCEPT ![p] = None]
      /\ UploadOnly /\ UNCHANGED failures
  BY DEF Remove
<1> DEFINE d == answer[p]
<1>2. d \in Documents BY <1>1 DEF FormIsSound, FormTypeOK
<1>3. /\ doc[d] \in DocumentRows /\ WasAttached(d) /\ UploadsInOrder(d)
      /\ failures \in 0 .. MaxFailures
      /\ (cleaner.at = d => doc[d].step = "over"
                            /\ doc[d].object \in {"pending", "rejected", "deleted"})
      /\ answer \in [Pages -> Documents \cup {None}]
      /\ doc \in [Documents -> DocumentRows]
  BY <1>2, DocumentFacts DEF Attached
<1>4. /\ answer' \in [Pages -> Documents \cup {None}]
      /\ \A x \in Pages : answer'[x] \in {answer[x], None}
  BY <1>1, <1>3
<1>5. CASE UNCHANGED doc
  <2>1. doc' = [doc EXCEPT ![d] = doc[d]] BY <1>2, <1>3, <1>5
  <2>2. RowInOrder(doc[d]) BY <1>3 DEF UploadsInOrder, RowInOrder
  <2> HIDE DEF d
  <2> QED BY <1>1, <1>2, <1>3, <1>4, <2>1, <2>2, OneDocument DEF UploadOnly, WasAttached
<1>6. CASE doc[d].live /\ doc' = [doc EXCEPT ![d].live = FALSE, ![d].object = "deleted",
                                   ![d].step = "erase"]
  <2> DEFINE row == [doc[d] EXCEPT !.live = FALSE, !.object = "deleted", !.step = "erase"]
  <2>1. doc' = [doc EXCEPT ![d] = row] BY <1>6
  <2>2. row \in DocumentRows /\ RowInOrder(row) /\ row.object = "deleted" /\ ~row.live
    BY <1>3 DEF DocumentRows, RowInOrder, ObjectStatus
  <2>3. cleaner.at # d BY <1>3, <1>6 DEF WasAttached
  <2> HIDE DEF d, row
  <2> QED BY <1>1, <1>2, <1>3, <1>4, <2>1, <2>2, <2>3, OneDocument DEF UploadOnly
<1> QED BY <1>5, <1>6 DEF Remove

-----------------------------------------------------------------------------
(* The clean-up.                                                            *)

\* The clean-up goes on with its document, whose row loses what it may lose.
LEMMA CleanerIsSound ==
    ASSUME FormIsSound,
           \/ \E d \in Documents : TakeUp(d)
           \/ CleanErase \/ CleanMark \/ CleanUnlink \/ CleanerCrash
    PROVE  FormIsSound' /\ form' = form
<1> USE DEF FormIsSound
<1>1. UNCHANGED <<definition, form, filing, known, answer, calls>>
  BY DEF TakeUp, CleanErase, CleanMark, CleanUnlink, CleanerCrash, CleanerOnly
<1>2. /\ doc \in [Documents -> DocumentRows]
      /\ cleaner \in [at : Documents \cup {None}, step : {"idle", "erase", "mark", "unlink"}]
      /\ failures \in 0 .. MaxFailures /\ MaxFailures \in Nat
  BY FormAssumption DEF FormTypeOK, FormAssumption
<1>3. Failure => failures' \in 0 .. MaxFailures BY <1>2 DEF Failure
<1> DEFINE at == cleaner.at
           Goes == /\ doc' \in [Documents -> DocumentRows]
                   /\ cleaner' \in [at : Documents \cup {None},
                                    step : {"idle", "erase", "mark", "unlink"}]
                   /\ failures' \in 0 .. MaxFailures
                   /\ \A e \in Documents :
                         \/ doc'[e] = doc[e]
                         \/ /\ e = at
                            /\ doc'[e].step = doc[e].step
                            /\ doc'[e].live => doc[e].live
                            /\ doc'[e].object \in {doc[e].object, "deleted"}
                            /\ doc[e].object # "active"
                            /\ doc[e].step = "over"
                   /\ CleanerIsAlone'
<1>4. cleaner.step # "idle" =>
        at \in Documents /\ doc[at].step = "over" /\ doc[at].object \in {"pending", "rejected", "deleted"}
  BY <1>2 DEF CleanerIsAlone
<1>5. ASSUME NEW d \in Documents, TakeUp(d) PROVE Goes
  <2>1. /\ cleaner' = [at |-> d, step |-> "erase"] /\ UNCHANGED <<doc, failures>>
        /\ doc[d].step = "over" /\ doc[d].object \in {"pending", "rejected", "deleted"}
    BY <1>5 DEF TakeUp, Forgotten
  <2>2. cleaner' \in [at : Documents \cup {None}, step : {"idle", "erase", "mark", "unlink"}]
    BY <2>1
  <2>3. CleanerIsAlone' BY <2>1, DocumentFacts DEF CleanerIsAlone
  <2> QED BY <1>2, <2>1, <2>2, <2>3
<1>6. ASSUME CleanErase PROVE Goes
  <2>1. /\ cleaner.step = "erase" /\ cleaner' = [cleaner EXCEPT !.step = "mark"]
        /\ failures' \in 0 .. MaxFailures
        /\ doc' = [doc EXCEPT ![at].bytes = FALSE] \/ doc' = doc
    BY <1>2, <1>3, <1>6 DEF CleanErase
  <2>2. at \in Documents /\ doc[at].step = "over" /\ doc[at].object \in {"pending", "rejected", "deleted"}
    BY <1>4, <2>1
  <2>3. cleaner' \in [at : Documents \cup {None}, step : {"idle", "erase", "mark", "unlink"}]
        /\ cleaner'.at = at /\ cleaner'.step = "mark"
    BY <1>2, <2>1
  <2>4. CASE doc' = doc BY <1>2, <2>1, <2>2, <2>3, <2>4 DEF CleanerIsAlone
  <2>5. CASE doc' = [doc EXCEPT ![at].bytes = FALSE]
    <3> HIDE DEF at
    <3>1. doc' \in [Documents -> DocumentRows] BY <1>2, <2>2, <2>5 DEF DocumentRows
    <3>2. /\ \A e \in Documents : e # at => doc'[e] = doc[e]
          /\ doc'[at].step = doc[at].step /\ doc'[at].live = doc[at].live
          /\ doc'[at].object = doc[at].object
      BY <1>2, <2>2, <2>5 DEF DocumentRows
    <3> QED BY <2>1, <2>2, <2>3, <3>1, <3>2, <1>2 DEF CleanerIsAlone
  <2> QED BY <2>1, <2>4, <2>5
<1>7. ASSUME CleanMark PROVE Goes
  <2>1. /\ cleaner.step = "mark" /\ cleaner' = [cleaner EXCEPT !.step = "unlink"]
        /\ failures' = failures
        /\ doc' = [doc EXCEPT ![at].object = IF @ = "active" THEN @ ELSE "deleted"]
    BY <1>7 DEF CleanMark
  <2>2. at \in Documents /\ doc[at].step = "over" /\ doc[at].object \in {"pending", "rejected", "deleted"}
    BY <1>4, <2>1
  <2>3. cleaner' \in [at : Documents \cup {None}, step : {"idle", "erase", "mark", "unlink"}]
        /\ cleaner'.at = at /\ cleaner'.step = "unlink"
    BY <1>2, <2>1
  <2> HIDE DEF at
  <2>4. doc' = [doc EXCEPT ![at].object = "deleted"] BY <1>2, <2>1, <2>2
  <2>5. doc' \in [Documents -> DocumentRows] BY <1>2, <2>2, <2>4 DEF DocumentRows, ObjectStatus
  <2>6. /\ \A e \in Documents : e # at => doc'[e] = doc[e]
        /\ doc'[at].step = doc[at].step /\ doc'[at].live = doc[at].live
        /\ doc'[at].object = "deleted"
    BY <1>2, <2>2, <2>4 DEF DocumentRows
  <2> QED BY <2>1, <2>2, <2>3, <2>5, <2>6, <1>2 DEF CleanerIsAlone
<1>8. ASSUME CleanUnlink PROVE Goes
  <2>1. /\ cleaner.step = "unlink" /\ cleaner' = [at |-> None, step |-> "idle"]
        /\ failures' = failures
        /\ doc' = [doc EXCEPT ![at].live = FALSE]
    BY <1>8 DEF CleanUnlink
  <2>2. at \in Documents /\ doc[at].step = "over" /\ doc[at].object \in {"pending", "rejected", "deleted"}
    BY <1>4, <2>1
  <2> HIDE DEF at
  <2>3. doc' \in [Documents -> DocumentRows] BY <1>2, <2>1, <2>2 DEF DocumentRows
  <2>4. /\ \A e \in Documents : e # at => doc'[e] = doc[e]
        /\ doc'[at].step = doc[at].step /\ doc'[at].live = FALSE
        /\ doc'[at].object = doc[at].object
    BY <1>2, <2>1, <2>2 DEF DocumentRows
  <2> QED BY <2>1, <2>2, <2>3, <2>4, <1>2 DEF CleanerIsAlone
<1>9. ASSUME CleanerCrash PROVE Goes
  <2>1. cleaner' = [at |-> None, step |-> "idle"] /\ doc' = doc /\ Failure
    BY <1>9 DEF CleanerCrash
  <2>2. failures' \in 0 .. MaxFailures BY <1>3, <2>1
  <2>3. CleanerIsAlone' BY <2>1 DEF CleanerIsAlone
  <2>4. cleaner' \in [at : Documents \cup {None}, step : {"idle", "erase", "mark", "unlink"}]
    BY <2>1
  <2>5. doc' \in [Documents -> DocumentRows] /\ \A e \in Documents : doc'[e] = doc[e]
    BY <1>2, <2>1
  <2> QED BY <2>2, <2>3, <2>4, <2>5
<1>10. Goes BY <1>5, <1>6, <1>7, <1>8, <1>9
<1>11. FormTypeOK' BY <1>1, <1>10 DEF FormTypeOK
<1>12. FilingsHaveOneForm' /\ KeysHaveOneForm'
  BY <1>1 DEF FilingsHaveOneForm, KeysHaveOneForm
<1>13. \A e \in Documents : UploadsInOrder(e)' BY <1>10 DEF UploadsInOrder
<1>14. AttachmentsWereActive' BY <1>1, <1>10 DEF AttachmentsWereActive, Attached, WasAttached
<1> QED BY <1>1, <1>10, <1>11, <1>12, <1>13, <1>14

-----------------------------------------------------------------------------
(* Theorems.                                                                *)

\* A form nobody has opened is sound.
LEMMA FormStart == FormInit => FormIsSound
<1> SUFFICES ASSUME FormInit PROVE FormIsSound OBVIOUS
<1> USE DEF FormInit
<1>1. NoForm \in FormRows BY DEF NoForm, FormRows
<1>2. NoDocument \in DocumentRows BY DEF NoDocument, DocumentRows, ObjectStatus
<1>3. FormTypeOK BY <1>1, <1>2, FormAssumption DEF FormTypeOK, FormAssumption
<1>4. FilingsHaveOneForm BY DEF FilingsHaveOneForm, NoForm
<1>5. KeysHaveOneForm BY DEF KeysHaveOneForm, NoForm
<1>6. \A d \in Documents : UploadsInOrder(d) BY DEF UploadsInOrder, NoDocument
<1>7. AttachmentsWereActive
  BY FormAssumption DEF AttachmentsWereActive, Attached, NoForm, FormAssumption
<1>8. CleanerIsAlone BY DEF CleanerIsAlone
<1> QED BY <1>3, <1>4, <1>5, <1>6, <1>7, <1>8 DEF FormIsSound

\* Every step keeps the invariant, what was sent and what staff decided.
LEMMA FormStep ==
    ASSUME FormIsSound, [FormNext]_formVars
    PROVE  FormIsSound' /\ SentStays /\ StaffStand
<1>1. form' = form => SentStays /\ StaffStand BY DEF SentStays, StaffStand
<1>2. CASE UNCHANGED formVars
  <2>1. UNCHANGED <<definition, form, filing, known, answer, calls, doc, cleaner, failures>>
    BY <1>2 DEF formVars
  <2>2. FormTypeOK' BY <2>1 DEF FormIsSound, FormTypeOK
  <2>3. FilingsHaveOneForm' /\ KeysHaveOneForm'
    BY <2>1 DEF FormIsSound, FilingsHaveOneForm, KeysHaveOneForm
  <2>4. /\ \A d \in Documents : UploadsInOrder(d)'
        /\ AttachmentsWereActive' /\ CleanerIsAlone'
    BY <2>1 DEF FormIsSound, UploadsInOrder, AttachmentsWereActive, Attached, WasAttached,
                CleanerIsAlone
  <2> QED BY <1>1, <2>1, <2>2, <2>3, <2>4 DEF FormIsSound
<1>3. ASSUME NEW p \in Pages, NEW kind \in {"nameless", "draft", "final"}, Ask(p, kind)
      PROVE  FormIsSound' /\ form' = form
  BY <1>3, AskIsSound
<1>4. ASSUME NEW c \in calls, SubmitForm(c)
      PROVE  FormIsSound' /\ SentStays /\ StaffStand
  BY <1>4, SubmitIsSound
<1>5. ASSUME NEW p \in Pages, NEW q \in Pages, OpenLink(p, q)
      PROVE  FormIsSound' /\ form' = form
  BY <1>5, LinkIsSound
<1>6. ASSUME NEW f \in Forms, Lapse(f) PROVE FormIsSound' /\ SentStays /\ StaffStand
  BY <1>6, LapseIsSound DEF StaffStand
<1>7. ASSUME NEW a \in Filings, NEW to \in FilingStatus, StaffMove(a, to)
      PROVE  FormIsSound' /\ form' = form
  BY <1>7, StaffMoveIsSound
<1>8. ASSUME \/ \E p \in Pages, d \in Documents : Register(p, d)
             \/ \E p \in Pages : Remove(p)
             \/ \E d \in Documents : Put(d) \/ Complete(d) \/ Reject(d) \/ Erase(d)
             \/ \E d \in Documents : UploadCrash(d)
      PROVE  FormIsSound' /\ form' = form
  <2>1. form' = form
    BY <1>8, Zenon DEF Register, Remove, Put, Complete, Reject, Erase, UploadCrash, UploadOnly
  <2> QED BY <1>8, <2>1, RegisterIsSound, RemoveIsSound, PutIsSound, CompleteIsSound,
             RejectIsSound, EraseIsSound, Zenon
<1>9. ASSUME \/ \E d \in Documents : TakeUp(d)
             \/ CleanErase \/ CleanMark \/ CleanUnlink \/ CleanerCrash
      PROVE  FormIsSound' /\ form' = form
  BY <1>9, CleanerIsSound
<1>10. CASE FormNext
  BY <1>1, <1>3, <1>4, <1>5, <1>6, <1>7, <1>8, <1>9, <1>10 DEF FormNext
<1> QED BY <1>2, <1>10

\* The invariant holds of every reachable state.
LEMMA FormAlwaysSound == FormSpec => []FormIsSound
<1>1. FormIsSound /\ [FormNext]_formVars => FormIsSound' BY FormStep
<1> QED BY <1>1, FormStart, PTL DEF FormSpec

\* One form for each filing and each page.
LEMMA SoundFilesOnce == FormIsSound => OneFilingPerForm /\ SentOncePerPage
<1> SUFFICES ASSUME FormIsSound PROVE OneFilingPerForm /\ SentOncePerPage OBVIOUS
<1> USE DEF FormIsSound
<1>1. ASSUME NEW a \in Filings, filing[a] # "none"
      PROVE  Cardinality({f \in Forms : form[f].filing = a}) = 1
  <2>1. a # None BY FormAssumption DEF FormAssumption
  <2>2. PICK f \in Forms : form[f].filing = a BY <1>1 DEF FilingsHaveOneForm
  <2>3. {g \in Forms : form[g].filing = a} = {f} BY <2>1, <2>2 DEF FilingsHaveOneForm
  <2>4. Cardinality({f}) = 1 BY FS_Singleton
  <2> QED BY <2>3, <2>4
<1>2. ASSUME NEW p \in Pages
      PROVE  Cardinality({f \in Forms : form[f].sender = p}) <= 1
  <2> DEFINE S == {f \in Forms : form[f].sender = p}
  <2>1. p # None BY FormAssumption DEF FormAssumption
  <2>2. CASE S = {} BY <2>2, FS_EmptySet
  <2>3. CASE S # {}
    <3>1. PICK f \in S : TRUE BY <2>3
    <3>2. S = {f} BY <2>1, <3>1 DEF KeysHaveOneForm
    <3>3. Cardinality({f}) = 1 BY FS_Singleton
    <3> QED BY <3>2, <3>3
  <2> QED BY <2>2, <2>3
<1> QED BY <1>1, <1>2 DEF OneFilingPerForm, SentOncePerPage, FilingsHaveOneForm

\* However a form is saved, shared, repeated and sent, it files once, a page
\* sends once, and a file that a family sees attached is there
\* (submit_public_admissions_form, the upload route, cleanupStoredObjects).
THEOREM FormsFileOnce == FormSpec => []FormInv
<1>1. FormIsSound => AttachedFileIsThere
  BY DEF FormIsSound, UploadsInOrder, AttachedFileIsThere
<1>2. FormIsSound => FormInv BY <1>1, SoundFilesOnce DEF FormInv, FormIsSound
<1> QED BY <1>2, FormAlwaysSound, PTL

\* What was sent is not changed, and a family that sends its draft does not undo
\* what staff decided (submit_public_admissions_form and the trigger on the status).
THEOREM SentFormsStand == FormSpec => SentStands
<1>1. FormIsSound /\ [FormNext]_formVars => [SentStays]_formVars /\ [StaffStand]_formVars
  BY FormStep
<1>2. FormSpec => [][SentStays]_formVars /\ [][StaffStand]_formVars
  BY <1>1, FormAlwaysSound, PTL DEF FormSpec
<1> QED BY <1>2 DEF SentStands, SentIsFinal, StaffHaveTheSay, SentStays, StaffStand
=============================================================================
