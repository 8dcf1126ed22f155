--------------------------- MODULE WebhookProofs ---------------------------
(***************************************************************************)
(* Proofs about WebhookDelivery, for any events, consumers, retries, batch *)
(* size, failure limit, operator's calls and restarts.                     *)
(***************************************************************************)
EXTENDS WebhookDelivery, FiniteSetTheorems, SequenceTheorems, TLAPS

Labels == Delivering \cup {"none", "queued", "timer", "settled", "dropped", "threw"}
EventSaves == {"okEventSave", "okMarkSave", "giveUpSave"}
StatsSaves == {"okStatsSave", "failStatsSave"}
Row == Event \cup Consumer \cup {None}

(***************************************************************************)
(* A delivery about to save holds a row of the table it saves to.          *)
(***************************************************************************)
Typed ==
    /\ WhTypeOK
    /\ admin \in (Consumers \X Consumer) \cup {None}
    /\ seen \in [Pairs -> Row]
    /\ \A p \in Pairs : job[p] \in EventSaves => seen[p] \in Event
    /\ \A p \in Pairs : job[p] \in StatsSaves => seen[p] \in Consumer

(***************************************************************************)
(* Neither the row in the table nor a copy that will be written back       *)
(* claims more than was received, whichever is the older one.              *)
(***************************************************************************)
Real ==
    /\ \A e \in Events : \A c \in events[e].deliveredTo : <<e, c>> \in got
    /\ \A p \in Pairs : job[p] \in EventSaves =>
          \A c \in seen[p].deliveredTo : <<p[1], c>> \in got
    /\ \A p \in Pairs : job[p] \in {"okEvent", "okEventSave"} => p \in got

(***************************************************************************)
(* An event is queued once: deliveries begin after that, and no stale copy *)
(* takes it back.                                                          *)
(***************************************************************************)
Begun ==
    /\ \A p \in Pairs : job[p] # "none" => events[p[1]].stage = "queued"
    /\ \A p \in Pairs : job[p] \in EventSaves => seen[p].stage = "queued"

(***************************************************************************)
(* A delivery is in the queue once, and only while nothing else runs it.   *)
(***************************************************************************)
QueuedOnce ==
    /\ \A i \in 1..Len(queue) : job[queue[i]] = "queued"
    /\ \A i, j \in 1..Len(queue) : i # j => queue[i] # queue[j]

WhInv == Typed /\ Real /\ Begun /\ QueuedOnce /\ BatchesDoNotOverlap

(***************************************************************************)
(* What a step of the delivery p does that the invariants can see: it goes *)
(* on at the label l.                                                      *)
(***************************************************************************)
Motion(p, l) ==
    /\ job' = [job EXCEPT ![p] = l]
    /\ job[p] \in Delivering \cup {"timer"}
    /\ l \in Delivering => job[p] \in Delivering
    /\ seen' \in [Pairs -> Row] /\ \A q \in Pairs \ {p} : seen'[q] = seen[q]
    /\ l \in EventSaves => events' = events /\ seen'[p] = events[p[1]]
    /\ l \in StatsSaves => seen'[p] \in Consumer
    /\ l = "okEvent" => p \in got'
    /\ l = "okEventSave" => job[p] = "okEvent"
    /\ got \subseteq got' /\ got' \subseteq Pairs
    /\ \/ events' = events
       \/ /\ job[p] \in EventSaves
          /\ events' = [events EXCEPT ![p[1]] = EventRow(job[p], seen[p], p[2])]
    /\ consumers' \in [Consumers -> Consumer \cup {None}]
    /\ queue' = IF l = "queued" THEN Append(queue, p) ELSE queue
    /\ l = "threw" \/ (busy' = busy /\ batch' = batch)
    /\ busy' \in BOOLEAN /\ batch' \subseteq Pairs
    /\ UNCHANGED adminVars

-----------------------------------------------------------------------------
(***************************************************************************)
(* The rows a delivery writes are rows.                                    *)
(***************************************************************************)
LEMMA ConsumerRows ==
    ASSUME NEW c \in Consumer
    PROVE  AfterSuccess(c) \in Consumer /\ AfterFailure(c) \in Consumer
<1>1. FailureLimit \in Nat /\ c.failed \in 0..(FailureLimit + 1)
  BY WebhookAssumption DEF Consumer
<1>2. AfterSuccess(c) \in Consumer
  <2> DEFINE n == IF c.failed = 0 THEN 0 ELSE c.failed - 1
  <2>1. n \in 0..(FailureLimit + 1)
    BY <1>1
  <2>2. AfterSuccess(c) = [c EXCEPT !.failed = n]
    BY DEF AfterSuccess, Consumer
  <2> HIDE DEF n
  <2> QED
    BY <2>1, <2>2 DEF Consumer
<1>3. AfterFailure(c) \in Consumer
  <2>1. CASE c.failed + 1 > FailureLimit
    <3>1. FailureLimit + 1 \in 0..(FailureLimit + 1)
      BY <1>1
    <3> QED
      BY <2>1, <3>1 DEF AfterFailure, Consumer
  <2>2. CASE ~(c.failed + 1 > FailureLimit)
    <3> DEFINE n == c.failed + 1
    <3>1. n \in 0..(FailureLimit + 1)
      BY <1>1, <2>2
    <3>2. AfterFailure(c) = [c EXCEPT !.failed = n]
      BY <2>2 DEF AfterFailure, Consumer
    <3> HIDE DEF n
    <3> QED
      BY <3>1, <3>2 DEF Consumer
  <2> QED
    BY <2>1, <2>2
<1> QED
  BY <1>2, <1>3

(***************************************************************************)
(* What a delivery writes back to an event is a row, has the stage of the  *)
(* copy it was made from, and names one more consumer at most.             *)
(***************************************************************************)
LEMMA EventRows ==
    ASSUME NEW l \in EventSaves, NEW r \in Event, NEW c \in Consumers
    PROVE  /\ EventRow(l, r, c) \in Event
           /\ EventRow(l, r, c).stage = r.stage
           /\ EventRow(l, r, c).deliveredTo
                = IF l = "okEventSave" THEN r.deliveredTo \cup {c} ELSE r.deliveredTo
<1>1. CASE l = "okEventSave"
  <2> DEFINE d == r.deliveredTo \cup {c}
  <2>1. EventRow(l, r, c) = [r EXCEPT !.status = "delivered", !.deliveredTo = d]
    BY <1>1 DEF EventRow, Event
  <2>2. d \in SUBSET Consumers
    BY DEF Event
  <2> HIDE DEF d
  <2>3. [r EXCEPT !.status = "delivered", !.deliveredTo = d] \in Event
    BY <2>2 DEF Event
  <2>4. EventRow(l, r, c) \in Event /\ EventRow(l, r, c).stage = r.stage /\ EventRow(l, r, c).deliveredTo = d
    BY <2>1, <2>3 DEF Event
  <2> QED
    BY <1>1, <2>4 DEF d
<1>2. CASE l = "giveUpSave"
  <2>1. EventRow(l, r, c) = [r EXCEPT !.status = "failed"]
    BY <1>2 DEF EventRow
  <2> QED
    BY <1>2, <2>1 DEF Event
<1>3. CASE l = "okMarkSave"
  <2>1. EventRow(l, r, c) = [r EXCEPT !.processed = TRUE]
    BY <1>3 DEF EventRow
  <2> QED
    BY <1>3, <2>1 DEF Event
<1> QED
  BY <1>1, <1>2, <1>3 DEF EventSaves

(***************************************************************************)
(* Every step of a delivery is such a motion.                              *)
(***************************************************************************)
LEMMA DeliveryMoves ==
    ASSUME Typed, NEW p \in Pairs, DeliveryStep(p)
    PROVE  \E l \in Labels \ {"none"} : Motion(p, l)
<1>t. /\ events \in [Events -> Event] /\ consumers \in [Consumers -> Consumer \cup {None}]
      /\ seen \in [Pairs -> Row] /\ busy \in BOOLEAN /\ batch \subseteq Pairs /\ got \subseteq Pairs
      /\ job \in [Pairs -> Labels]
  BY DEF Typed, WhTypeOK, Labels
<1>p. p[1] \in Events /\ p[2] \in Consumers /\ events[p[1]] \in Event
  BY <1>t DEF Pairs
<1>c. consumers[p[2]] # None => consumers[p[2]] \in Consumer
  BY <1>t, <1>p
<1>g. ASSUME NEW l, NEW r \in Row, Goes(p, l, r)
      PROVE  /\ job' = [job EXCEPT ![p] = l] /\ queue' = queue /\ UNCHANGED adminVars
             /\ seen' \in [Pairs -> Row] /\ seen'[p] = r
             /\ \A q \in Pairs \ {p} : seen'[q] = seen[q]
  BY <1>g, <1>t DEF Goes
<1>n. None \in Row
  BY DEF Row
<1>e. ASSUME job[p] \in Delivering, Escapes(p)
      PROVE  Motion(p, "threw")
  <2>1. Goes(p, "threw", None) /\ UNCHANGED <<events, consumers, got>>
        /\ busy' \in BOOLEAN /\ batch' \subseteq Pairs
    BY <1>e, <1>t DEF Escapes, rows
  <2> QED
    BY <1>e, <1>g, <1>n, <1>t, <2>1 DEF Motion, Delivering, EventSaves, StatsSaves
<1>1. CASE deliverEventToConsumer(p)
  <2>1. PICK l \in {"post", "dropped", "catchStats"} : Goes(p, l, None)
    BY <1>1 DEF deliverEventToConsumer
  <2>2. job[p] = "check" /\ UNCHANGED <<events, consumers, busy, batch, got>>
    BY <1>1 DEF deliverEventToConsumer, rows
  <2>3. Motion(p, l)
    BY <1>g, <1>n, <1>t, <2>1, <2>2 DEF Motion, Delivering, EventSaves, StatsSaves
  <2> QED
    BY <2>3 DEF Labels, Delivering
<1>2. CASE attemptDelivery(p)
  <2>1. PICK l \in {"okEvent", "failStats"} :
           /\ Goes(p, l, None) /\ (l = "okEvent" => p \in got')
           /\ got \subseteq got' /\ got' \subseteq Pairs
    BY <1>2, <1>t DEF attemptDelivery
  <2>2. job[p] = "post" /\ UNCHANGED <<events, consumers, busy, batch>>
    BY <1>2 DEF attemptDelivery, rows
  <2>3. Motion(p, l)
    BY <1>g, <1>n, <1>t, <2>1, <2>2 DEF Motion, Delivering, EventSaves, StatsSaves
  <2> QED
    BY <2>3 DEF Labels, Delivering
<1>3. CASE LoadEvent(p)
  <2>1. PICK l \in EventSaves : Goes(p, l, events[p[1]]) /\ (l = "okEventSave" => job[p] = "okEvent")
    BY <1>3 DEF LoadEvent, EventSaves
  <2>2. job[p] \in {"okEvent", "okMark", "giveUp"} /\ UNCHANGED <<events, consumers, busy, batch, got>>
    BY <1>3 DEF LoadEvent, rows
  <2>3. events[p[1]] \in Row
    BY <1>p DEF Row
  <2>4. /\ job' = [job EXCEPT ![p] = l] /\ queue' = queue /\ UNCHANGED adminVars
        /\ seen' \in [Pairs -> Row] /\ seen'[p] = events[p[1]]
        /\ \A q \in Pairs \ {p} : seen'[q] = seen[q]
    BY <1>g, <2>1, <2>3
  <2>5. Motion(p, l)
    BY <1>t, <2>1, <2>2, <2>4 DEF Motion, Delivering, EventSaves, StatsSaves
  <2> QED
    BY <2>5 DEF Labels, Delivering, EventSaves
<1>4. CASE SaveEvent(p)
  <2>1. PICK l \in {"okStats", "settled"} : Goes(p, l, None)
    BY <1>4 DEF SaveEvent
  <2>2. /\ job[p] \in EventSaves /\ UNCHANGED <<consumers, busy, batch, got>>
        /\ events' = [events EXCEPT ![p[1]] = EventRow(job[p], seen[p], p[2])]
    BY <1>4 DEF SaveEvent, EventSaves
  <2>3. /\ job' = [job EXCEPT ![p] = l] /\ queue' = queue /\ UNCHANGED adminVars
        /\ seen' \in [Pairs -> Row]
        /\ \A q \in Pairs \ {p} : seen'[q] = seen[q]
    BY <1>g, <1>n, <2>1
  <2>4. Motion(p, l)
    BY <1>t, <2>1, <2>2, <2>3 DEF Motion, Delivering, EventSaves, StatsSaves
  <2> QED
    BY <2>4 DEF Labels, Delivering
<1>5. CASE LoadConsumer(p)
  <2>1. CASE consumers[p[2]] = None /\ job[p] = "catchStats"
    <3>1. Escapes(p)
      BY <1>5, <2>1 DEF LoadConsumer
    <3> QED
      BY <1>e, <2>1, <3>1 DEF Delivering, Labels
  <2>3. CASE consumers[p[2]] = None /\ job[p] # "catchStats"
    <3>1. Goes(p, "catchStats", None) /\ job[p] \in {"okStats", "failStats"}
          /\ UNCHANGED <<events, consumers, busy, batch, got>>
      BY <1>5, <2>3 DEF LoadConsumer, rows
    <3>2. Motion(p, "catchStats")
      BY <1>g, <1>n, <1>t, <3>1 DEF Motion, Delivering, EventSaves, StatsSaves
    <3> QED
      BY <3>2 DEF Labels, Delivering
  <2>2. CASE consumers[p[2]] # None
    <3>1. PICK l \in StatsSaves : Goes(p, l, consumers[p[2]])
      BY <1>5, <2>2 DEF LoadConsumer, StatsSaves
    <3>2. /\ job[p] \in {"okStats", "failStats", "catchStats"}
          /\ UNCHANGED <<events, consumers, busy, batch, got>>
      BY <1>5, <2>2 DEF LoadConsumer, rows
    <3>3. consumers[p[2]] \in Row /\ consumers[p[2]] \in Consumer
      BY <1>c, <2>2 DEF Row
    <3>4. /\ job' = [job EXCEPT ![p] = l] /\ queue' = queue /\ UNCHANGED adminVars
          /\ seen' \in [Pairs -> Row] /\ seen'[p] = consumers[p[2]]
          /\ \A q \in Pairs \ {p} : seen'[q] = seen[q]
      BY <1>g, <3>1, <3>3
    <3>5. Motion(p, l)
      BY <1>t, <3>1, <3>2, <3>3, <3>4 DEF Motion, Delivering, EventSaves, StatsSaves
    <3> QED
      BY <3>5 DEF Labels, Delivering, StatsSaves
  <2> QED
    BY <2>1, <2>2, <2>3
<1>6. CASE SaveConsumer(p)
  <2>1. PICK l \in {"okAll", "giveUp", "timer"} : Goes(p, l, None)
    BY <1>6 DEF SaveConsumer, AfterFailedSave
  <2>2. job[p] \in StatsSaves /\ UNCHANGED <<events, busy, batch, got>>
    BY <1>6 DEF SaveConsumer, StatsSaves
  <2>3. consumers' \in [Consumers -> Consumer \cup {None}]
    <3>1. seen[p] \in Consumer
      BY <2>2 DEF Typed
    <3>2. AfterSuccess(seen[p]) \in Consumer /\ AfterFailure(seen[p]) \in Consumer
      BY <3>1, ConsumerRows
    <3> QED
      BY <1>6, <1>t, <3>2 DEF SaveConsumer
  <2>4. /\ job' = [job EXCEPT ![p] = l] /\ queue' = queue /\ UNCHANGED adminVars
        /\ seen' \in [Pairs -> Row]
        /\ \A q \in Pairs \ {p} : seen'[q] = seen[q]
    BY <1>g, <1>n, <2>1
  <2>5. Motion(p, l)
    BY <1>t, <2>1, <2>2, <2>3, <2>4 DEF Motion, Delivering, EventSaves, StatsSaves
  <2> QED
    BY <2>5 DEF Labels, Delivering
<1>7. CASE handleSuccessfulDelivery(p)
  <2>1. PICK l \in {"okMark", "settled"} : Goes(p, l, None)
    BY <1>7 DEF handleSuccessfulDelivery
  <2>2. job[p] = "okAll" /\ UNCHANGED <<events, consumers, busy, batch, got>>
    BY <1>7 DEF handleSuccessfulDelivery, rows
  <2>3. Motion(p, l)
    BY <1>g, <1>n, <1>t, <2>1, <2>2 DEF Motion, Delivering, EventSaves, StatsSaves
  <2> QED
    BY <2>3 DEF Labels, Delivering
<1>8. CASE RetryTimer(p)
  <2>1. /\ job[p] = "timer" /\ queue' = Append(queue, p) /\ job' = [job EXCEPT ![p] = "queued"]
        /\ UNCHANGED <<events, consumers, busy, batch, seen, adminVars, got>>
    BY <1>8 DEF RetryTimer, rows
  <2>2. Motion(p, "queued")
    BY <1>t, <2>1 DEF Motion, Delivering, EventSaves, StatsSaves
  <2> QED
    BY <2>2 DEF Labels
<1> QED
  BY <1>1, <1>2, <1>3, <1>4, <1>5, <1>6, <1>7, <1>8 DEF DeliveryStep

(***************************************************************************)
(* What is queued for an event: one entry for each of some consumers.      *)
(***************************************************************************)
LEMMA Queueing ==
    ASSUME Typed, NEW e \in Events, queueEventForDelivery(e)
    PROVE  \E s \in Seq(Pairs) :
             /\ queue' = queue \o s
             /\ \A i \in 1..Len(s) : s[i][1] = e /\ s[i][2] \in getActiveConsumers
             /\ \A i, j \in 1..Len(s) : i # j => s[i] # s[j]
<1> DEFINE A == getActiveConsumers
           n == Cardinality(A)
<1>1. A \subseteq Consumers /\ IsFiniteSet(A)
  BY WebhookAssumption, FS_Subset DEF getActiveConsumers
<1>2. n \in Nat
  BY <1>1, FS_CardinalityType
<1>3. PICK order \in [1..n -> A] :
         /\ \A i, j \in DOMAIN order : i # j => order[i] # order[j]
         /\ queue' = queue \o [i \in DOMAIN order |-> <<e, order[i]>>]
  BY DEF queueEventForDelivery
<1> HIDE DEF A, n
<1> DEFINE s == [i \in 1..n |-> <<e, order[i]>>]
<1>4. DOMAIN order = 1..n
  OBVIOUS
<1>5. \A i \in 1..n : <<e, order[i]>> \in Pairs
  BY <1>1, <1>3 DEF Pairs
<1>6. s \in Seq(Pairs) /\ Len(s) = n
  BY <1>2, <1>5
<1>7. \A i \in 1..n : s[i][1] = e /\ s[i][2] = order[i]
  OBVIOUS
<1>8. queue' = queue \o s
  BY <1>3, <1>4
<1> HIDE DEF s
<1>9. \A i \in 1..Len(s) : s[i][1] = e /\ s[i][2] \in A
  BY <1>3, <1>6, <1>7
<1>10. ASSUME NEW i \in 1..Len(s), NEW j \in 1..Len(s), i # j
       PROVE  s[i] # s[j]
  <2>1. i \in DOMAIN order /\ j \in DOMAIN order
    BY <1>4, <1>6
  <2>2. order[i] # order[j]
    BY <1>3, <1>10, <2>1
  <2> QED
    BY <1>4, <1>7, <2>1, <2>2
<1> QED
  BY <1>6, <1>8, <1>9, <1>10 DEF A

(***************************************************************************)
(* processQueue takes the first entries of the queue.                      *)
(***************************************************************************)
LEMMA Batching ==
    ASSUME Typed, processQueue
    PROVE  \E n \in 1..Len(queue) :
             /\ batch' = {queue[i] : i \in 1..n} /\ batch' \subseteq Pairs
             /\ queue' \in Seq(Pairs) /\ Len(queue') = Len(queue) - n
             /\ \A k \in 1..Len(queue') : n + k \in 1..Len(queue) /\ queue'[k] = queue[n + k]
<1> DEFINE n == IF Len(queue) < BatchSize THEN Len(queue) ELSE BatchSize
<1>1. queue \in Seq(Pairs) /\ queue # <<>> /\ Len(queue) \in Nat \ {0}
  BY DEF Typed, WhTypeOK, processQueue
<1>2. n \in 1..Len(queue)
  BY <1>1, WebhookAssumption
<1>3. batch' = {queue[i] : i \in 1..n} /\ queue' = SubSeq(queue, n + 1, Len(queue))
  BY DEF processQueue
<1> HIDE DEF n
<1>4. \A i \in 1..n : i \in 1..Len(queue)
  BY <1>1, <1>2
<1>5. \A i \in 1..Len(queue) : queue[i] \in Pairs
  BY <1>1
<1>6. batch' \subseteq Pairs
  BY <1>3, <1>4, <1>5
<1>7. \A i \in (n + 1)..Len(queue) : i \in 1..Len(queue)
  BY <1>1, <1>2
<1>8. /\ queue' \in Seq(Pairs)
      /\ Len(queue') = IF n + 1 <= Len(queue) THEN Len(queue) - (n + 1) + 1 ELSE 0
      /\ \A k \in 1..(Len(queue) - (n + 1) + 1) : queue'[k] = queue[(n + 1) + k - 1]
  BY <1>1, <1>2, <1>3, <1>5, <1>7, SubSeqProperties
<1>9. Len(queue') = Len(queue) - n
  BY <1>1, <1>2, <1>8
<1>10. ASSUME NEW k \in 1..Len(queue')
       PROVE  n + k \in 1..Len(queue) /\ queue'[k] = queue[n + k]
  <2>1. k \in 1..(Len(queue) - n)
    BY <1>9
  <2>2. n + k \in 1..Len(queue) /\ k \in 1..(Len(queue) - (n + 1) + 1) /\ (n + 1) + k - 1 = n + k
    BY <1>1, <1>2, <2>1
  <2> QED
    BY <1>8, <2>2
<1> QED
  BY <1>2, <1>3, <1>6, <1>8, <1>9, <1>10

(***************************************************************************)
(* What the operator writes is a consumer's row.                           *)
(***************************************************************************)
LEMMA AdministeredRows ==
    ASSUME NEW op \in AdminOps, NEW c \in Consumer
    PROVE  Administered(op, c) \in Consumer
<1>1. /\ [c EXCEPT !.isActive = TRUE, !.status = "active"] \in Consumer
      /\ [c EXCEPT !.isActive = FALSE, !.status = "inactive"] \in Consumer
      /\ [c EXCEPT !.isActive = FALSE, !.status = "suspended"] \in Consumer
      /\ [c EXCEPT !.isActive = TRUE] \in Consumer
      /\ [c EXCEPT !.isActive = FALSE] \in Consumer
  BY DEF Consumer
<1> QED
  BY <1>1 DEF Administered, AdminOps

(***************************************************************************)
(* The rows stay rows, and a delivery that is about to save has loaded one.*)
(***************************************************************************)
LEMMA TypeStep ==
    ASSUME Typed, WhNext
    PROVE  Typed'
<1>t. /\ events \in [Events -> Event] /\ consumers \in [Consumers -> Consumer \cup {None}]
      /\ seen \in [Pairs -> Row] /\ batch \subseteq Pairs /\ got \subseteq Pairs
      /\ queue \in Seq(Pairs) /\ job \in [Pairs -> Labels]
      /\ calls \in 0..MaxAdmin /\ restarts \in 0..MaxRestarts
      /\ admin \in (Consumers \X Consumer) \cup {None}
      /\ \A p \in Pairs : job[p] \in EventSaves => seen[p] \in Event
      /\ \A p \in Pairs : job[p] \in StatsSaves => seen[p] \in Consumer
  BY DEF Typed, WhTypeOK, Labels
<1>b. busy \in BOOLEAN
  BY DEF Typed, WhTypeOK
<1>s. ASSUME /\ events' \in [Events -> Event] /\ consumers' \in [Consumers -> Consumer \cup {None}]
             /\ seen' \in [Pairs -> Row] /\ batch' \subseteq Pairs /\ got' \subseteq Pairs
             /\ queue' \in Seq(Pairs) /\ job' \in [Pairs -> Labels]
             /\ calls' \in 0..MaxAdmin /\ restarts' \in 0..MaxRestarts
             /\ admin' \in (Consumers \X Consumer) \cup {None}
             /\ \A p \in Pairs : job'[p] \in EventSaves => seen'[p] \in Event
             /\ \A p \in Pairs : job'[p] \in StatsSaves => seen'[p] \in Consumer,
             busy' \in BOOLEAN
      PROVE  Typed'
  BY <1>s DEF Typed, WhTypeOK, Labels
<1>1. ASSUME NEW e \in Events, saveEvent(e)
      PROVE  Typed'
  <2> DEFINE r == [events[e] EXCEPT !.stage = "saved"]
  <2>1. r \in Event
    BY <1>t DEF Event
  <2>2. events' = [events EXCEPT ![e] = r]
    BY <1>1 DEF saveEvent
  <2> HIDE DEF r
  <2>3. events' \in [Events -> Event]
    BY <1>t, <2>1, <2>2
  <2>4. UNCHANGED <<consumers, queue, busy, batch, job, seen, admin, calls, restarts, got>>
    BY <1>1 DEF saveEvent, adminVars
  <2> QED
    BY <1>t, <1>b, <1>s, <2>3, <2>4
<1>2. ASSUME NEW e \in Events, queueEventForDelivery(e)
      PROVE  Typed'
  <2> DEFINE b == getActiveConsumers = {}
             r == [events[e] EXCEPT !.stage = "queued", !.processed = b]
  <2>1. r \in Event
    <3>1. b \in BOOLEAN
      OBVIOUS
    <3> HIDE DEF b
    <3> QED
      BY <1>t, <3>1 DEF Event
  <2>2. events' = [events EXCEPT ![e] = r]
    BY <1>2, <1>t DEF queueEventForDelivery
  <2> HIDE DEF r, b
  <2>3. events' \in [Events -> Event]
    BY <1>t, <2>1, <2>2
  <2>4. queue' \in Seq(Pairs)
    <3>1. PICK s \in Seq(Pairs) : queue' = queue \o s
      BY <1>2, Queueing
    <3> QED
      BY <1>t, <3>1
  <2>5. /\ job' \in [Pairs -> Labels]
        /\ \A p \in Pairs : job'[p] = "queued" \/ job'[p] = job[p]
    BY <1>2, <1>t DEF queueEventForDelivery, Labels
  <2>6. UNCHANGED <<consumers, busy, batch, seen, admin, calls, restarts, got>>
    BY <1>2 DEF queueEventForDelivery, adminVars
  <2>7. \A p \in Pairs : job'[p] \in EventSaves \cup StatsSaves => job'[p] = job[p]
    BY <2>5 DEF EventSaves, StatsSaves
  <2> QED
    BY <1>t, <1>b, <1>s, <2>3, <2>4, <2>5, <2>6, <2>7
<1>3. CASE processQueue
  <2>1. batch' \subseteq Pairs /\ queue' \in Seq(Pairs)
    BY <1>3, Batching
  <2>2. /\ job' \in [Pairs -> Labels]
        /\ \A p \in Pairs : job'[p] = "check" \/ job'[p] = job[p]
    BY <1>3, <1>t DEF processQueue, Labels, Delivering
  <2>3. UNCHANGED <<events, consumers, seen, admin, calls, restarts, got>> /\ busy' = TRUE
    BY <1>3 DEF processQueue, adminVars, rows
  <2>4. \A p \in Pairs : job'[p] \in EventSaves \cup StatsSaves => job'[p] = job[p]
    BY <2>2 DEF EventSaves, StatsSaves
  <2>5. busy' \in BOOLEAN
    BY <2>3
  <2> QED
    BY <1>t, <1>s, <2>1, <2>2, <2>3, <2>4, <2>5
<1>4. CASE BatchEnds
  <2>1. UNCHANGED <<events, consumers, queue, job, seen, admin, calls, restarts, got>>
        /\ busy' = FALSE /\ batch' = {}
    BY <1>4 DEF BatchEnds, adminVars, rows
  <2>2. busy' \in BOOLEAN
    BY <2>1
  <2> QED
    BY <1>t, <1>s, <2>1, <2>2
<1>5. ASSUME NEW p \in Pairs, DeliveryStep(p)
      PROVE  Typed'
  <2>1. PICK l \in Labels \ {"none"} : Motion(p, l)
    BY <1>5, DeliveryMoves
  <2>2. /\ job' = [job EXCEPT ![p] = l] /\ seen' \in [Pairs -> Row]
        /\ \A q \in Pairs \ {p} : seen'[q] = seen[q]
        /\ l \in EventSaves => seen'[p] = events[p[1]]
        /\ l \in StatsSaves => seen'[p] \in Consumer
    BY <2>1 DEF Motion
  <2>3. p[1] \in Events /\ p[2] \in Consumers
    BY DEF Pairs
  <2>4. job' \in [Pairs -> Labels] /\ job'[p] = l /\ \A q \in Pairs \ {p} : job'[q] = job[q]
    BY <1>t, <2>2
  <2>5. /\ \A q \in Pairs : job'[q] \in EventSaves => seen'[q] \in Event
        /\ \A q \in Pairs : job'[q] \in StatsSaves => seen'[q] \in Consumer
    BY <1>t, <2>2, <2>3, <2>4
  <2>6. events' \in [Events -> Event]
    <3>1. CASE events' = events
      BY <1>t, <3>1
    <3>2. CASE /\ job[p] \in EventSaves
               /\ events' = [events EXCEPT ![p[1]] = EventRow(job[p], seen[p], p[2])]
      <4>1. EventRow(job[p], seen[p], p[2]) \in Event
        BY <1>t, <2>3, <3>2, EventRows
      <4> QED
        BY <1>t, <3>2, <4>1
    <3> QED
      BY <2>1, <3>1, <3>2 DEF Motion
  <2>7. queue' \in Seq(Pairs)
    BY <1>t, <2>1 DEF Motion
  <2>8. /\ consumers' \in [Consumers -> Consumer \cup {None}] /\ batch' \subseteq Pairs
        /\ got' \subseteq Pairs /\ busy' \in BOOLEAN /\ UNCHANGED <<admin, calls, restarts>>
    BY <2>1 DEF Motion, adminVars
  <2> QED
    BY <1>t, <1>s, <2>2, <2>4, <2>5, <2>6, <2>7, <2>8
<1>6. CASE AdminNext
  <2>1. /\ UNCHANGED <<events, queue, busy, batch, job, seen, restarts, got>>
    BY <1>6 DEF AdminNext, AdminLoads, AdminSaves, createConsumer, deleteConsumer, rows
  <2>2. calls' \in 0..MaxAdmin
    BY <1>6, <1>t, WebhookAssumption DEF AdminNext, AdminLoads, AdminSaves, createConsumer, deleteConsumer
  <2>3. NewConsumer \in Consumer
    <3>1. 0 \in 0..(FailureLimit + 1)
      BY WebhookAssumption
    <3> QED
      BY <3>1 DEF NewConsumer, Consumer
  <2>4. consumers' \in [Consumers -> Consumer \cup {None}]
    <3>1. CASE AdminSaves
      <4>1. admin \in Consumers \X Consumer /\ admin[1] \in Consumers /\ admin[2] \in Consumer
        BY <1>t, <3>1 DEF AdminSaves
      <4> QED
        BY <1>t, <3>1, <4>1 DEF AdminSaves
    <3> QED
      BY <1>6, <1>t, <2>3, <3>1 DEF AdminNext, AdminLoads, createConsumer, deleteConsumer, rows
  <2>5. admin' \in (Consumers \X Consumer) \cup {None}
    <3>1. ASSUME NEW op \in AdminOps, NEW c \in Consumers, AdminLoads(op, c)
          PROVE  admin' \in Consumers \X Consumer
      <4>1. consumers[c] \in Consumer
        BY <1>t, <3>1 DEF AdminLoads
      <4>2. Administered(op, consumers[c]) \in Consumer
        BY <4>1, AdministeredRows
      <4> QED
        BY <3>1, <4>2 DEF AdminLoads
    <3> QED
      BY <1>6, <1>t, <3>1 DEF AdminNext, AdminSaves, createConsumer, deleteConsumer
  <2> QED
    BY <1>t, <1>b, <1>s, <2>1, <2>2, <2>4, <2>5
<1>7. CASE Restart
  <2>1. /\ queue' = <<>> /\ busy' = FALSE /\ batch' = {} /\ admin' = None
        /\ UNCHANGED <<events, consumers, calls, got>> /\ seen' = [p \in Pairs |-> None]
    BY <1>7 DEF Restart, rows
  <2>2. job' \in [Pairs -> Labels] /\ \A p \in Pairs : job'[p] \notin EventSaves \cup StatsSaves
    <3>1. job' = [p \in Pairs |-> IF Owed(p) THEN "dropped" ELSE job[p]]
      BY <1>7 DEF Restart
    <3> QED
      BY <1>t, <3>1 DEF Labels, Owed, Delivering, EventSaves, StatsSaves
  <2>3. restarts' \in 0..MaxRestarts
    BY <1>7, <1>t, WebhookAssumption DEF Restart
  <2>4. seen' \in [Pairs -> Row] /\ queue' \in Seq(Pairs) /\ batch' \subseteq Pairs
    BY <2>1 DEF Row
  <2>5. busy' \in BOOLEAN
    BY <2>1
  <2> QED
    BY <1>t, <1>s, <2>1, <2>2, <2>3, <2>4, <2>5
<1> QED
  BY <1>1, <1>2, <1>3, <1>4, <1>5, <1>6, <1>7 DEF WhNext, handleEvent

(***************************************************************************)
(* Steps that start or end no delivery's save: the copies held stay, and   *)
(* jobs that are about to save were so before.                             *)
(***************************************************************************)
LEMMA OtherSteps ==
    ASSUME Typed, WhNext, ~\E p \in Pairs : DeliveryStep(p)
    PROVE  /\ got' = got
           /\ \A p \in Pairs : job'[p] \in EventSaves \cup {"okEvent"} => job'[p] = job[p] /\ seen'[p] = seen[p]
           /\ events' \in [Events -> Event]
           /\ \A e \in Events : events'[e].deliveredTo = events[e].deliveredTo
           /\ \A e \in Events : events[e].stage = "queued" => events'[e].stage = "queued"
<1>t. events \in [Events -> Event] /\ \A e \in Events : events[e] \in Event
  BY DEF Typed, WhTypeOK
<1>e. events' \in [Events -> Event]
  BY TypeStep DEF Typed, WhTypeOK
<1>1. ASSUME NEW e \in Events, saveEvent(e)
      PROVE  /\ UNCHANGED <<got, job, seen>>
             /\ \A x \in Events : events'[x].deliveredTo = events[x].deliveredTo
             /\ \A x \in Events : events[x].stage = "queued" => events'[x].stage = "queued"
  <2>1. UNCHANGED <<got, job, seen>> /\ events' = [events EXCEPT ![e].stage = "saved"]
        /\ events[e].stage = "new"
    BY <1>1 DEF saveEvent
  <2> DEFINE r == [events[e] EXCEPT !.stage = "saved"]
  <2>2. r.deliveredTo = events[e].deliveredTo
    BY <1>t DEF Event
  <2>3. events'[e] = r /\ \A x \in Events \ {e} : events'[x] = events[x]
    BY <1>t, <2>1
  <2> HIDE DEF r
  <2> QED
    BY <2>1, <2>2, <2>3
<1>2. ASSUME NEW e \in Events, queueEventForDelivery(e)
      PROVE  /\ UNCHANGED <<got, seen>> /\ \A p \in Pairs : job'[p] = "queued" \/ job'[p] = job[p]
             /\ \A x \in Events : events'[x].deliveredTo = events[x].deliveredTo
             /\ \A x \in Events : events[x].stage = "queued" => events'[x].stage = "queued"
  <2>1. UNCHANGED <<got, seen>> /\ \A p \in Pairs : job'[p] = "queued" \/ job'[p] = job[p]
    BY <1>2 DEF queueEventForDelivery
  <2> DEFINE b == getActiveConsumers = {}
             r == [events[e] EXCEPT !.stage = "queued", !.processed = b]
  <2>2. r.deliveredTo = events[e].deliveredTo /\ r.stage = "queued"
    BY <1>t DEF Event
  <2>3. events'[e] = r /\ \A x \in Events \ {e} : events'[x] = events[x]
    BY <1>2, <1>t DEF queueEventForDelivery
  <2> HIDE DEF r
  <2> QED
    BY <2>1, <2>2, <2>3
<1>3. ASSUME processQueue \/ BatchEnds \/ AdminNext \/ Restart
      PROVE  /\ UNCHANGED <<got, events>>
             /\ \/ seen' = seen /\ \A p \in Pairs : job'[p] = "check" \/ job'[p] = job[p]
                \/ \A p \in Pairs : job'[p] = "dropped" \/ (~Owed(p) /\ job'[p] = job[p])
  BY <1>3 DEF processQueue, BatchEnds, AdminNext, AdminLoads, AdminSaves, createConsumer,
              deleteConsumer, Restart, rows
<1> QED
  BY <1>1, <1>2, <1>3, <1>e DEF WhNext, handleEvent, EventSaves, Owed, Delivering

(***************************************************************************)
(* A row claims no delivery that did not happen: a stale copy claims less  *)
(* than the row it overwrites, never more than was received.               *)
(***************************************************************************)
LEMMA RealStep ==
    ASSUME Typed, Real, WhNext
    PROVE  Real'
<1>1. CASE ~\E p \in Pairs : DeliveryStep(p)
  <2>1. /\ got' = got
        /\ \A p \in Pairs : job'[p] \in EventSaves \cup {"okEvent"} => job'[p] = job[p] /\ seen'[p] = seen[p]
        /\ \A e \in Events : events'[e].deliveredTo = events[e].deliveredTo
    BY <1>1, OtherSteps
  <2> QED
    BY <2>1 DEF Real, EventSaves
<1>2. ASSUME NEW p \in Pairs, DeliveryStep(p)
      PROVE  Real'
  <2>t. /\ events \in [Events -> Event] /\ job \in [Pairs -> Labels]
        /\ \A q \in Pairs : job[q] \in EventSaves => seen[q] \in Event
    BY DEF Typed, WhTypeOK, Labels
  <2>p. p[1] \in Events /\ p[2] \in Consumers /\ p = <<p[1], p[2]>>
    BY DEF Pairs
  <2>1. PICK l \in Labels \ {"none"} : Motion(p, l)
    BY <1>2, DeliveryMoves
  <2>2. job'[p] = l /\ (\A q \in Pairs \ {p} : job'[q] = job[q] /\ seen'[q] = seen[q])
    BY <2>t, <2>1 DEF Motion
  <2>3. got \subseteq got'
    BY <2>1 DEF Motion
  <2>4. \A e \in Events : \A c \in events'[e].deliveredTo : <<e, c>> \in got'
    <3>1. CASE events' = events
      BY <2>3, <3>1 DEF Real
    <3>2. CASE /\ job[p] \in EventSaves
               /\ events' = [events EXCEPT ![p[1]] = EventRow(job[p], seen[p], p[2])]
      <4> DEFINE r == EventRow(job[p], seen[p], p[2])
      <4>1. r.deliveredTo = IF job[p] = "okEventSave" THEN seen[p].deliveredTo \cup {p[2]}
                                                      ELSE seen[p].deliveredTo
        BY <2>t, <2>p, <3>2, EventRows
      <4>2. events'[p[1]] = r /\ \A e \in Events \ {p[1]} : events'[e] = events[e]
        BY <2>t, <2>p, <3>2
      <4> HIDE DEF r
      <4>3. \A c \in r.deliveredTo : <<p[1], c>> \in got'
        BY <2>3, <2>p, <3>2, <4>1 DEF Real
      <4> QED
        BY <2>3, <4>2, <4>3 DEF Real
    <3> QED
      BY <2>1, <3>1, <3>2 DEF Motion
  <2>5. ASSUME NEW q \in Pairs, job'[q] \in EventSaves, NEW c \in seen'[q].deliveredTo
        PROVE  <<q[1], c>> \in got'
    <3>1. CASE q = p
      <4>1. seen'[p] = events[p[1]]
        BY <2>1, <2>2, <2>5, <3>1 DEF Motion
      <4> QED
        BY <2>3, <2>5, <2>p, <3>1, <4>1 DEF Real
    <3>2. CASE q # p
      BY <2>2, <2>3, <2>5, <3>2 DEF Real
    <3> QED
      BY <3>1, <3>2
  <2>6. ASSUME NEW q \in Pairs, job'[q] \in {"okEvent", "okEventSave"}
        PROVE  q \in got'
    <3>1. CASE q = p
      BY <2>1, <2>2, <2>3, <2>6, <3>1 DEF Motion, Real
    <3>2. CASE q # p
      BY <2>2, <2>3, <2>6, <3>2 DEF Real
    <3> QED
      BY <3>1, <3>2
  <2> QED
    BY <2>4, <2>5, <2>6 DEF Real
<1> QED
  BY <1>1, <1>2

(***************************************************************************)
(* An event is queued once: a delivery begins after that, and what it      *)
(* writes back keeps the event queued.                                     *)
(***************************************************************************)
LEMMA BegunStep ==
    ASSUME Typed, Begun, QueuedOnce, WhNext
    PROVE  Begun'
<1>t. /\ events \in [Events -> Event] /\ job \in [Pairs -> Labels]
      /\ \A q \in Pairs : job[q] \in EventSaves => seen[q] \in Event
      /\ queue \in Seq(Pairs)
  BY DEF Typed, WhTypeOK, Labels
<1>p. \A p \in Pairs : p[1] \in Events /\ p[2] \in Consumers
  BY DEF Pairs
<1>1. CASE ~\E p \in Pairs : DeliveryStep(p)
  <2>1. /\ \A p \in Pairs : job'[p] \in EventSaves \cup {"okEvent"} => job'[p] = job[p] /\ seen'[p] = seen[p]
        /\ \A e \in Events : events[e].stage = "queued" => events'[e].stage = "queued"
    BY <1>1, OtherSteps
  <2>2. ASSUME NEW p \in Pairs, job'[p] # "none"
        PROVE  events'[p[1]].stage = "queued"
    <3>1. CASE job[p] # "none"
      BY <1>p, <2>1, <3>1 DEF Begun
    <3>2. CASE job[p] = "none"
      <4>1. ASSUME NEW e \in Events, queueEventForDelivery(e)
            PROVE  events'[p[1]].stage = "queued"
        <5>1. p[1] = e
          BY <2>2, <3>2, <4>1 DEF queueEventForDelivery
        <5> DEFINE b == getActiveConsumers = {}
                   r == [events[e] EXCEPT !.stage = "queued", !.processed = b]
        <5>2. events[e] \in Event
          BY <1>t
        <5>3. r.stage = "queued"
          BY <5>2 DEF Event
        <5>4. events'[e] = r
          BY <1>t, <4>1 DEF queueEventForDelivery
        <5> HIDE DEF r
        <5> QED
          BY <5>1, <5>3, <5>4
      <4>2. ASSUME processQueue
            PROVE  FALSE
        <5>1. PICK n \in 1..Len(queue) : batch' = {queue[i] : i \in 1..n}
          BY <4>2, Batching
        <5>2. p \in batch'
          BY <2>2, <3>2, <4>2 DEF processQueue
        <5>3. PICK i \in 1..n : p = queue[i]
          BY <5>1, <5>2
        <5>4. i \in 1..Len(queue)
          BY <1>t, <5>1, <5>3
        <5> QED
          BY <3>2, <5>3, <5>4 DEF QueuedOnce
      <4>3. ASSUME \/ \E e \in Events : saveEvent(e)
                   \/ BatchEnds \/ AdminNext \/ Restart
            PROVE  FALSE
        BY <2>2, <3>2, <4>3 DEF saveEvent, BatchEnds, AdminNext, AdminLoads, AdminSaves,
             createConsumer, deleteConsumer, Restart, Owed, Delivering
      <4> QED
        BY <1>1, <4>1, <4>2, <4>3 DEF WhNext, handleEvent
    <3> QED
      BY <3>1, <3>2
  <2>3. \A p \in Pairs : job'[p] \in EventSaves => seen'[p].stage = "queued"
    BY <2>1 DEF Begun
  <2> QED
    BY <2>2, <2>3 DEF Begun
<1>2. ASSUME NEW p \in Pairs, DeliveryStep(p)
      PROVE  Begun'
  <2>1. PICK l \in Labels \ {"none"} : Motion(p, l)
    BY <1>2, DeliveryMoves
  <2>2. job'[p] = l /\ (\A q \in Pairs \ {p} : job'[q] = job[q] /\ seen'[q] = seen[q])
    BY <1>t, <2>1 DEF Motion
  <2>3. job[p] # "none" /\ events[p[1]].stage = "queued"
    BY <2>1 DEF Motion, Begun, Delivering
  <2>4. \A e \in Events : events[e].stage = "queued" => events'[e].stage = "queued"
    <3>1. CASE events' = events
      BY <3>1
    <3>2. CASE /\ job[p] \in EventSaves
               /\ events' = [events EXCEPT ![p[1]] = EventRow(job[p], seen[p], p[2])]
      <4> DEFINE r == EventRow(job[p], seen[p], p[2])
      <4>1. r.stage = seen[p].stage
        BY <1>t, <1>p, <3>2, EventRows
      <4>2. events'[p[1]] = r /\ \A e \in Events \ {p[1]} : events'[e] = events[e]
        BY <1>t, <1>p, <3>2
      <4> HIDE DEF r
      <4> QED
        BY <3>2, <4>1, <4>2 DEF Begun
    <3> QED
      BY <2>1, <3>1, <3>2 DEF Motion
  <2>5. \A q \in Pairs : job'[q] # "none" => events'[q[1]].stage = "queued"
    BY <1>p, <2>2, <2>3, <2>4 DEF Begun
  <2>6. l \in EventSaves => seen'[p].stage = "queued"
    BY <2>1, <2>3 DEF Motion
  <2>7. \A q \in Pairs : job'[q] \in EventSaves => seen'[q].stage = "queued"
    BY <2>2, <2>6 DEF Begun
  <2> QED
    BY <2>5, <2>7 DEF Begun
<1> QED
  BY <1>1, <1>2

(***************************************************************************)
(* A delivery is queued once: when its event is, and when its timer fires, *)
(* at which times it is not in the queue.                                  *)
(***************************************************************************)
LEMMA QueuedStep ==
    ASSUME Typed, Begun, QueuedOnce, WhNext
    PROVE  QueuedOnce'
<1>t. /\ job \in [Pairs -> Labels] /\ queue \in Seq(Pairs) /\ Len(queue) \in Nat
      /\ \A i \in 1..Len(queue) : queue[i] \in Pairs
  BY DEF Typed, WhTypeOK, Labels
<1>1. ASSUME NEW e \in Events, queueEventForDelivery(e)
      PROVE  QueuedOnce'
  <2>1. PICK s \in Seq(Pairs) :
           /\ queue' = queue \o s
           /\ \A i \in 1..Len(s) : s[i][1] = e /\ s[i][2] \in getActiveConsumers
           /\ \A i, j \in 1..Len(s) : i # j => s[i] # s[j]
    BY <1>1, Queueing
  <2>2. /\ Len(queue') = Len(queue) + Len(s) /\ Len(s) \in Nat
        /\ \A i \in 1..Len(queue') :
              queue'[i] = IF i <= Len(queue) THEN queue[i] ELSE s[i - Len(queue)]
    BY <1>t, <2>1
  <2>3. \A i \in 1..Len(s) : s[i] \in Pairs
    BY <2>1
  <2>4. \A i \in 1..Len(s) : job'[s[i]] = "queued"
    BY <1>1, <2>1, <2>3 DEF queueEventForDelivery
  <2>5. \A i \in 1..Len(s) : job[s[i]] = "none"
    BY <1>1, <2>1, <2>3 DEF queueEventForDelivery, Begun
  <2>6. \A i \in 1..Len(queue) : job'[queue[i]] = "queued"
    BY <1>1, <1>t DEF queueEventForDelivery, QueuedOnce
  <2>7. \A i \in 1..Len(queue') :
           \/ i \in 1..Len(queue) /\ queue'[i] = queue[i]
           \/ i - Len(queue) \in 1..Len(s) /\ queue'[i] = s[i - Len(queue)]
    BY <1>t, <2>2
  <2>8. \A i \in 1..Len(queue), j \in 1..Len(s) : queue[i] # s[j]
    BY <2>5 DEF QueuedOnce
  <2>9. ASSUME NEW i \in 1..Len(queue'), NEW j \in 1..Len(queue'), i # j
        PROVE  queue'[i] # queue'[j]
    <3>1. i - Len(queue) # j - Len(queue)
      BY <1>t, <2>2, <2>9
    <3> QED
      BY <2>1, <2>7, <2>8, <2>9, <3>1 DEF QueuedOnce
  <2>10. \A i \in 1..Len(queue') : job'[queue'[i]] = "queued"
    BY <2>4, <2>6, <2>7, ZenonT(60)
  <2> QED
    BY <2>9, <2>10 DEF QueuedOnce
<1>2. CASE processQueue
  <2>1. PICK n \in 1..Len(queue) :
             /\ batch' = {queue[i] : i \in 1..n}
             /\ queue' \in Seq(Pairs) /\ Len(queue') = Len(queue) - n
             /\ \A k \in 1..Len(queue') : n + k \in 1..Len(queue) /\ queue'[k] = queue[n + k]
    BY <1>2, Batching
  <2>2. ASSUME NEW k \in 1..Len(queue')
        PROVE  job'[queue'[k]] = "queued"
    <3>1. n + k \in 1..Len(queue) /\ queue'[k] = queue[n + k]
      BY <2>1
    <3>2. \A i \in 1..n : i \in 1..Len(queue) /\ i # n + k
      BY <1>t, <2>1, <3>1
    <3>3. queue[n + k] \notin batch'
      BY <2>1, <3>1, <3>2 DEF QueuedOnce
    <3> QED
      BY <1>2, <1>t, <3>1, <3>3 DEF processQueue, QueuedOnce
  <2>3. ASSUME NEW i \in 1..Len(queue'), NEW j \in 1..Len(queue'), i # j
        PROVE  queue'[i] # queue'[j]
    <3>1. n + i # n + j
      BY <1>t, <2>1, <2>3
    <3> QED
      BY <2>1, <3>1 DEF QueuedOnce
  <2> QED
    BY <2>2, <2>3 DEF QueuedOnce
<1>3. ASSUME NEW p \in Pairs, DeliveryStep(p)
      PROVE  QueuedOnce'
  <2>1. PICK l \in Labels \ {"none"} : Motion(p, l)
    BY <1>3, DeliveryMoves
  <2>2. job'[p] = l /\ (\A q \in Pairs \ {p} : job'[q] = job[q]) /\ job[p] # "queued"
    BY <1>t, <2>1 DEF Motion, Delivering
  <2>3. \A i \in 1..Len(queue) : queue[i] # p /\ job'[queue[i]] = "queued"
    BY <1>t, <2>2 DEF QueuedOnce
  <2>4. CASE l # "queued"
    <3>1. queue' = queue
      BY <2>1, <2>4 DEF Motion
    <3> QED
      BY <2>3, <3>1 DEF QueuedOnce
  <2>5. CASE l = "queued"
    <3>1. queue' = Append(queue, p)
      BY <2>1, <2>5 DEF Motion
    <3>2. /\ Len(queue') = Len(queue) + 1 /\ queue'[Len(queue) + 1] = p
          /\ \A i \in 1..Len(queue) : queue'[i] = queue[i]
      BY <1>t, <3>1
    <3>3. \A i \in 1..Len(queue') : i = Len(queue) + 1 \/ i \in 1..Len(queue)
      BY <1>t, <3>2
    <3>4. \A i \in 1..Len(queue') : job'[queue'[i]] = "queued"
      BY <2>2, <2>3, <2>5, <3>2, <3>3
    <3>5. ASSUME NEW i \in 1..Len(queue'), NEW j \in 1..Len(queue'), i # j
          PROVE  queue'[i] # queue'[j]
      BY <2>3, <3>2, <3>3, <3>5 DEF QueuedOnce
    <3> QED
      BY <3>4, <3>5 DEF QueuedOnce
  <2> QED
    BY <2>4, <2>5
<1>4. CASE Restart
  BY <1>4 DEF Restart, QueuedOnce
<1>5. CASE BatchEnds \/ AdminNext \/ \E e \in Events : saveEvent(e)
  BY <1>5 DEF BatchEnds, AdminNext, AdminLoads, AdminSaves, createConsumer, deleteConsumer,
              saveEvent, QueuedOnce
<1> QED
  BY <1>1, <1>2, <1>3, <1>4, <1>5 DEF WhNext, handleEvent

(***************************************************************************)
(* A batch is made of queued deliveries.                                   *)
(***************************************************************************)
LEMMA BatchWasQueued ==
    ASSUME Typed, QueuedOnce, processQueue
    PROVE  \A p \in batch' : p \in Pairs /\ job[p] = "queued"
<1>1. PICK n \in 1..Len(queue) : batch' = {queue[i] : i \in 1..n} /\ batch' \subseteq Pairs
  BY Batching
<1>2. Len(queue) \in Nat
  BY DEF Typed, WhTypeOK
<1>3. \A i \in 1..n : i \in 1..Len(queue)
  BY <1>1, <1>2
<1> QED
  BY <1>1, <1>3 DEF QueuedOnce

(***************************************************************************)
(* processQueue starts a batch only when no delivery runs, unless one has  *)
(* thrown, which is not taken back.                                        *)
(***************************************************************************)
LEMMA BatchStep ==
    ASSUME Typed, Begun, QueuedOnce, BatchesDoNotOverlap, WhNext
    PROVE  BatchesDoNotOverlap'
<1>t. job \in [Pairs -> Labels]
  BY DEF Typed, WhTypeOK, Labels
<1> SUFFICES ASSUME \A p \in Pairs : job'[p] # "threw", NEW p \in Pairs, job'[p] \in Delivering
             PROVE  busy' /\ p \in batch'
  BY DEF BatchesDoNotOverlap
<1>1. CASE processQueue
  <2>1. busy' /\ ~busy /\ \A q \in Pairs : job'[q] = IF q \in batch' THEN "check" ELSE job[q]
    BY <1>1 DEF processQueue
  <2>2. \A q \in batch' : job[q] = "queued"
    BY <1>1, BatchWasQueued
  <2>3. \A q \in Pairs : job[q] # "threw"
    BY <2>1, <2>2
  <2>4. job[p] \notin Delivering
    BY <2>1, <2>3 DEF BatchesDoNotOverlap
  <2> QED
    BY <2>1, <2>4
<1>2. ASSUME NEW q \in Pairs, DeliveryStep(q)
      PROVE  busy' /\ p \in batch'
  <2>1. PICK l \in Labels \ {"none"} : Motion(q, l)
    BY <1>2, DeliveryMoves
  <2>2. job'[q] = l /\ (\A r \in Pairs \ {q} : job'[r] = job[r])
    BY <1>t, <2>1 DEF Motion
  <2>3. busy' = busy /\ batch' = batch /\ job[q] # "threw" /\ job[p] \in Delivering
    BY <2>1, <2>2 DEF Motion, Delivering
  <2> QED
    BY <2>2, <2>3 DEF BatchesDoNotOverlap
<1>3. CASE BatchEnds
  <2>1. job' = job /\ \A q \in batch : job[q] \notin Delivering
    BY <1>3 DEF BatchEnds
  <2> QED
    BY <2>1 DEF BatchesDoNotOverlap
<1>4. CASE Restart
  <2>1. job' = [q \in Pairs |-> IF Owed(q) THEN "dropped" ELSE job[q]]
    BY <1>4 DEF Restart
  <2>2. job'[p] \notin Delivering
    BY <2>1 DEF Owed, Delivering
  <2> QED
    BY <2>2
<1>5. ASSUME NEW e \in Events, queueEventForDelivery(e)
      PROVE  busy' /\ p \in batch'
  <2>1. busy' = busy /\ batch' = batch
    BY <1>5 DEF queueEventForDelivery
  <2>2. \A q \in Pairs : job'[q] = "queued" \/ job'[q] = job[q]
    BY <1>5 DEF queueEventForDelivery
  <2>3. job[p] \in Delivering
    BY <2>2 DEF Delivering
  <2>4. ASSUME NEW q \in Pairs
        PROVE  job[q] # "threw"
    BY <1>5, <2>2 DEF queueEventForDelivery, Begun
  <2> QED
    BY <2>1, <2>3, <2>4 DEF BatchesDoNotOverlap
<1>6. CASE AdminNext \/ \E e \in Events : saveEvent(e)
  <2>1. job' = job /\ busy' = busy /\ batch' = batch
    BY <1>6 DEF AdminNext, AdminLoads, AdminSaves, createConsumer, deleteConsumer, saveEvent
  <2> QED
    BY <2>1 DEF BatchesDoNotOverlap
<1> QED
  BY <1>1, <1>2, <1>3, <1>4, <1>5, <1>6 DEF WhNext, handleEvent

-----------------------------------------------------------------------------
(***************************************************************************)
(* The invariant holds in every state of the service.                      *)
(***************************************************************************)
THEOREM WebhookInvariance == WhSpec => []WhInv
<1>1. WhInit => WhInv
  <2> SUFFICES ASSUME WhInit PROVE WhInv
    OBVIOUS
  <2>1. NewEvent \in Event /\ NewEvent.deliveredTo = {}
    BY DEF NewEvent, Event
  <2>2. NewConsumer \in Consumer
    <3>1. 0 \in 0..(FailureLimit + 1)
      BY WebhookAssumption
    <3> QED
      BY <3>1 DEF NewConsumer, Consumer
  <2>3. events \in [Events -> Event] /\ \A e \in Events : events[e] = NewEvent
    BY <2>1 DEF WhInit
  <2>4. consumers \in [Consumers -> Consumer \cup {None}]
    BY <2>2 DEF WhInit
  <2>5. job \in [Pairs -> Labels] /\ \A p \in Pairs : job[p] = "none"
    BY DEF WhInit, Labels
  <2>6. seen \in [Pairs -> Row] /\ queue = <<>> /\ queue \in Seq(Pairs) /\ batch = {} /\ got = {}
        /\ admin = None
    BY DEF WhInit, Row
  <2>7. busy \in BOOLEAN
    BY DEF WhInit
  <2>8. calls \in 0..MaxAdmin /\ restarts \in 0..MaxRestarts
    BY WebhookAssumption DEF WhInit
  <2>9. Typed
    BY <2>3, <2>4, <2>5, <2>6, <2>7, <2>8 DEF Typed, WhTypeOK, Labels, EventSaves, StatsSaves
  <2>10. Real /\ Begun /\ QueuedOnce /\ BatchesDoNotOverlap
    BY <2>1, <2>3, <2>5, <2>6 DEF Real, Begun, QueuedOnce, BatchesDoNotOverlap, EventSaves, Delivering
  <2> QED
    BY <2>9, <2>10 DEF WhInv
<1>2. WhInv /\ [WhNext]_whVars => WhInv'
  <2> SUFFICES ASSUME WhInv, [WhNext]_whVars PROVE WhInv'
    OBVIOUS
  <2>1. CASE WhNext
    BY <2>1, TypeStep, RealStep, BegunStep, QueuedStep, BatchStep DEF WhInv
  <2>2. CASE UNCHANGED whVars
    BY <2>2 DEF whVars, WhInv, Typed, WhTypeOK, Real, Begun, QueuedOnce, BatchesDoNotOverlap
  <2> QED
    BY <2>1, <2>2
<1> QED
  BY <1>1, <1>2, PTL DEF WhSpec

(***************************************************************************)
(* deliveredTo names only consumers that received the event, for any       *)
(* number of deliveries that load and save the row around each other.      *)
(***************************************************************************)
THEOREM DeliveriesAreReal == WhSpec => []DeliveredIsReal
<1>1. WhInv => DeliveredIsReal
  BY DEF WhInv, Typed, Real, DeliveredIsReal
<1> QED
  BY <1>1, WebhookInvariance, PTL

(***************************************************************************)
(* isProcessingQueue keeps batches apart until a delivery throws.          *)
(***************************************************************************)
THEOREM BatchesStayApart == WhSpec => []BatchesDoNotOverlap
<1>1. WhInv => BatchesDoNotOverlap
  BY DEF WhInv
<1> QED
  BY <1>1, WebhookInvariance, PTL

(***************************************************************************)
(* Every step of the service is a step of the promise or changes no debt.  *)
(***************************************************************************)
LEMMA StepKeepsPromise ==
    ASSUME WhInv, [WhNext]_whVars
    PROVE  [Promise!PromiseNext]_[p \in Pairs |-> Debt(p)]
<1> DEFINE D == [p \in Pairs |-> Debt(p)]
           States == {"none", "owed", "settled", "dropped"}
<1>t. job \in [Pairs -> Labels] /\ job' \in [Pairs -> Labels]
  <2>1. Typed'
    BY TypeStep DEF WhInv, whVars, Typed, WhTypeOK
  <2> QED
    BY <2>1 DEF WhInv, Typed, WhTypeOK, Labels
<1>d. \A p \in Pairs :
         /\ Owed(p) => Debt(p) = "owed"
         /\ job[p] = "threw" => Debt(p) = "dropped"
         /\ ~Owed(p) /\ job[p] # "threw" => Debt(p) = job[p]
  BY DEF Debt, Owed, Delivering
<1>e. \A p \in Pairs :
         /\ Owed(p)' => Debt(p)' = "owed"
         /\ job'[p] = "threw" => Debt(p)' = "dropped"
         /\ ~Owed(p)' /\ job'[p] # "threw" => Debt(p)' = job'[p]
  BY DEF Debt, Owed, Delivering
<1>s. D' \in [Pairs -> States]
  <2>1. \A p \in Pairs : Debt(p)' \in States
    BY <1>t, <1>e DEF Owed, Labels
  <2> QED
    BY <2>1
<1>u. ASSUME \A p \in Pairs : Debt(p)' = Debt(p)
      PROVE  D' = D
  BY <1>u
<1>m. \A p \in Pairs : D[p] = Debt(p) /\ D'[p] = Debt(p)'
  OBVIOUS
<1>1. CASE UNCHANGED job
  <2>1. \A p \in Pairs : Debt(p)' = Debt(p)
    BY <1>1 DEF Debt, Owed
  <2> QED
    BY <1>u, <2>1
<1>2. ASSUME NEW e \in Events, queueEventForDelivery(e)
      PROVE  Promise!Owe
  <2>1. \A p \in Pairs : job'[p] = job[p] \/ (job[p] = "none" /\ job'[p] = "queued")
    BY <1>2, <1>t DEF queueEventForDelivery, WhInv, Begun
  <2>2. \A p \in Pairs : Debt(p)' = Debt(p) \/ (Debt(p) = "none" /\ Debt(p)' = "owed")
    BY <1>d, <1>e, <2>1 DEF Owed, Delivering
  <2> QED
    BY <1>s, <1>m, <2>2 DEF Promise!Owe, Promise!Some
<1>3. CASE processQueue
  <2>1. \A p \in Pairs : job'[p] = job[p] \/ (job[p] = "queued" /\ job'[p] = "check")
    BY <1>3, BatchWasQueued DEF processQueue, WhInv
  <2>2. \A p \in Pairs : Debt(p)' = Debt(p)
    BY <1>d, <1>e, <2>1 DEF Owed, Delivering
  <2> QED
    BY <1>u, <2>2
<1>4. CASE Restart
  <2>1. \A p \in Pairs : job'[p] = IF Owed(p) THEN "dropped" ELSE job[p]
    BY <1>4 DEF Restart
  <2>2. \A p \in Pairs : Debt(p)' = Debt(p) \/ (Debt(p) = "owed" /\ Debt(p)' = "dropped")
    BY <1>d, <1>e, <2>1 DEF Owed, Delivering
  <2>3. Promise!DropSome
    BY <1>s, <1>m, <2>2 DEF Promise!DropSome, Promise!Some
  <2> QED
    BY <2>3 DEF Promise!PromiseNext
<1>5. ASSUME NEW p \in Pairs, DeliveryStep(p)
      PROVE  D' = D \/ Promise!Close(p)
  <2>1. PICK l \in Labels \ {"none"} : Motion(p, l)
    BY <1>5, DeliveryMoves DEF WhInv
  <2>2. job'[p] = l /\ (\A q \in Pairs \ {p} : job'[q] = job[q]) /\ Owed(p)
    BY <1>t, <2>1 DEF Motion, Owed
  <2>3. \A q \in Pairs \ {p} : Debt(q)' = Debt(q)
    BY <1>d, <1>e, <2>2 DEF Owed
  <2>4. Debt(p) = "owed" /\ Debt(p)' \in {"owed", "settled", "dropped"}
    BY <1>d, <1>e, <2>2 DEF Owed, Labels
  <2>5. CASE Debt(p)' = "owed"
    BY <1>u, <2>3, <2>4, <2>5
  <2>6. CASE Debt(p)' # "owed"
    <3>1. D' = [D EXCEPT ![p] = Debt(p)']
      BY <2>3
    <3>2. D[p] = "owed"
      BY <1>m, <2>4
    <3> QED
      BY <2>4, <2>6, <3>1, <3>2 DEF Promise!Close
  <2> QED
    BY <2>5, <2>6
<1>6. CASE BatchEnds \/ AdminNext \/ (\E e \in Events : saveEvent(e)) \/ UNCHANGED whVars
  BY <1>1, <1>6 DEF BatchEnds, AdminNext, AdminLoads, AdminSaves, createConsumer, deleteConsumer,
                    saveEvent, whVars
<1> QED
  BY <1>2, <1>3, <1>4, <1>5, <1>6 DEF WhNext, handleEvent, Promise!PromiseNext

(***************************************************************************)
(* The service implements the promise: a debt arises once, when the event  *)
(* is queued, and is closed at most once, whatever fails, throws, is       *)
(* retried or restarts.                                                    *)
(***************************************************************************)
THEOREM ServiceKeepsPromise == WhSpec => KeepsPromise
<1>1. WhInit => Promise!PromiseInit
  BY DEF WhInit, Promise!PromiseInit, Debt, Owed, Delivering
<1>2. WhInv /\ [WhNext]_whVars => [Promise!PromiseNext]_[p \in Pairs |-> Debt(p)]
  BY StepKeepsPromise
<1> QED
  BY <1>1, <1>2, WebhookInvariance, PTL DEF WhSpec, KeepsPromise, Promise!PromiseSpec
=============================================================================
