-------------------------- MODULE WebhookDelivery --------------------------
(***************************************************************************)
(* Webhook delivery of ledger events (Backend/src/stellar-monitor): the    *)
(* delivery queue of one service instance, the event and consumer rows it  *)
(* reads and writes back whole, and the operator's endpoints for           *)
(* consumers.  An awaited query or HTTP call ends a step.  The queue, the  *)
(* deliveries in flight and the retry timers are lost by a restart; the    *)
(* rows are not.                                                           *)
(***************************************************************************)
EXTENDS Absent, Naturals, Sequences, FiniteSets

CONSTANTS
    Events, Consumers,
    RetryLimit,      \* maxRetries of each consumer
    FailureLimit,    \* failures beyond which a consumer is suspended (10)
    BatchSize,       \* deliveries started together (10)
    MaxAdmin,        \* bound on the operator's calls
    MaxRestarts      \* bound on the restarts of the service

ASSUME WebhookAssumption ==
    /\ IsFiniteSet(Consumers)
    /\ FailureLimit \in Nat /\ BatchSize \in Nat \ {0}
    /\ MaxAdmin \in Nat /\ MaxRestarts \in Nat

Pairs == Events \X Consumers

VARIABLES
    events,      \* stellar_events rows
    consumers,   \* webhook_consumers rows, None once deleted
    queue,       \* deliveryQueue
    busy,        \* isProcessingQueue
    batch,       \* deliveries the running processQueue waits for
    job,         \* where each delivery is
    seen,        \* the row each delivery has loaded
    admin,       \* the operator's call in progress: the row it will save
    calls, restarts,
    got          \* pairs whose consumer has received the event

whVars == <<events, consumers, queue, busy, batch, job, seen, admin, calls, restarts, got>>
rows == <<events, consumers>>
adminVars == <<admin, calls, restarts>>

Consumer == [isActive : BOOLEAN, status : {"active", "inactive", "suspended"},
             failed : 0..(FailureLimit + 1)]
Event == [stage : {"new", "saved", "queued"}, status : {"pending", "delivered", "failed"},
          deliveredTo : SUBSET Consumers, processed : BOOLEAN]
Delivering == {"check", "post", "okEvent", "okEventSave", "okStats", "okStatsSave", "okAll",
               "okMark", "okMarkSave", "failStats", "catchStats", "failStatsSave",
               "giveUp", "giveUpSave"}

\* The rows, the queue and the deliveries are well typed.
WhTypeOK ==
    /\ events \in [Events -> Event]
    /\ consumers \in [Consumers -> Consumer \cup {None}]
    /\ queue \in Seq(Pairs) /\ batch \subseteq Pairs /\ busy \in BOOLEAN
    /\ job \in [Pairs -> Delivering \cup {"none", "queued", "timer", "settled", "dropped", "threw"}]
    /\ calls \in 0..MaxAdmin /\ restarts \in 0..MaxRestarts
    /\ got \subseteq Pairs

NewEvent == [stage |-> "new", status |-> "pending", deliveredTo |-> {}, processed |-> FALSE]
NewConsumer == [isActive |-> TRUE, status |-> "active", failed |-> 0]

WhInit ==
    /\ events = [e \in Events |-> NewEvent]
    /\ consumers \in [Consumers -> {NewConsumer, None}]
    /\ queue = <<>> /\ busy = FALSE /\ batch = {}
    /\ job = [p \in Pairs |-> "none"] /\ seen = [p \in Pairs |-> None]
    /\ admin = None /\ calls = 0 /\ restarts = 0 /\ got = {}

getActiveConsumers == {c \in Consumers : /\ consumers[c] # None /\ consumers[c].isActive
                                         /\ consumers[c].status = "active"}

-----------------------------------------------------------------------------
saveEvent(e) ==
    /\ events[e].stage = "new"
    /\ events' = [events EXCEPT ![e].stage = "saved"]
    /\ UNCHANGED <<consumers, queue, busy, batch, job, seen, adminVars, got>>

\* One queue entry per active consumer; with none the event is processed.
queueEventForDelivery(e) ==
    /\ events[e].stage = "saved"
    /\ \E order \in [1..Cardinality(getActiveConsumers) -> getActiveConsumers] :
         /\ \A i, j \in DOMAIN order : i # j => order[i] # order[j]
         /\ queue' = queue \o [i \in DOMAIN order |-> <<e, order[i]>>]
    /\ job' = [p \in Pairs |-> IF p[1] = e /\ p[2] \in getActiveConsumers
                               THEN "queued" ELSE job[p]]
    /\ events' = [events EXCEPT ![e].stage = "queued",
                                ![e].processed = getActiveConsumers = {}]
    /\ UNCHANGED <<consumers, busy, batch, seen, adminVars, got>>

\* handlePaymentEvent and handleOfferEvent: the row, then the queue.
handleEvent(e) == saveEvent(e) \/ queueEventForDelivery(e)

\* Faulty: the last delivery of the batch stays in the queue.
processQueueTwice ==
    /\ ~busy /\ queue # <<>>
    /\ LET n == IF Len(queue) < BatchSize THEN Len(queue) ELSE BatchSize IN
       /\ batch' = {queue[i] : i \in 1..n}
       /\ queue' = SubSeq(queue, n, Len(queue))
    /\ busy' = TRUE
    /\ job' = [p \in Pairs |-> IF p \in batch' THEN "check" ELSE job[p]]
    /\ UNCHANGED <<rows, seen, adminVars, got>>

\* Called every second, after an event is queued and after a retry is.
processQueue ==
    /\ ~busy /\ queue # <<>>
    /\ LET n == IF Len(queue) < BatchSize THEN Len(queue) ELSE BatchSize IN
       /\ batch' = {queue[i] : i \in 1..n}
       /\ queue' = SubSeq(queue, n + 1, Len(queue))
    /\ busy' = TRUE
    /\ job' = [p \in Pairs |-> IF p \in batch' THEN "check" ELSE job[p]]
    /\ UNCHANGED <<rows, seen, adminVars, got>>

\* Faulty: the batch is not awaited.
BatchEndsEarly ==
    /\ busy
    /\ busy' = FALSE /\ batch' = {}
    /\ UNCHANGED <<rows, queue, job, seen, adminVars, got>>

\* Promise.all resolves once every delivery of the batch has returned.
BatchEnds ==
    /\ busy /\ \A p \in batch : job[p] \notin Delivering
    /\ busy' = FALSE /\ batch' = {}
    /\ UNCHANGED <<rows, queue, job, seen, adminVars, got>>

-----------------------------------------------------------------------------
\* A delivery goes on at label; its row is row.
Goes(p, label, row) ==
    /\ job' = [job EXCEPT ![p] = label] /\ seen' = [seen EXCEPT ![p] = row]
    /\ UNCHANGED <<queue, adminVars>>

\* An exception escapes the delivery: Promise.all rejects, and the flag is
\* taken back while the other deliveries of the batch still run.
Escapes(p) ==
    /\ Goes(p, "threw", None)
    /\ busy' = IF p \in batch THEN FALSE ELSE busy
    /\ batch' = IF p \in batch THEN {} ELSE batch
    /\ UNCHANGED <<rows, got>>

\* A consumer that is gone: getConsumerById throws, into the catch.
deliverEventToConsumer(p) ==
    /\ job[p] = "check"
    /\ LET c == consumers[p[2]] IN
       Goes(p, IF c = None THEN "catchStats"
               ELSE IF c.isActive THEN "post" ELSE "dropped", None)
    /\ UNCHANGED <<rows, busy, batch, got>>

\* The POST: the consumer may have received an event whose answer is lost.
attemptDelivery(p) ==
    /\ job[p] = "post"
    /\ \E received, answered \in BOOLEAN :
         /\ answered => received
         /\ got' = IF received THEN got \cup {p} ELSE got
         /\ Goes(p, IF answered THEN "okEvent" ELSE "failStats", None)
    /\ UNCHANGED <<rows, busy, batch>>

\* updateEventStatus and markEventAsProcessed load the row, then save it.
LoadEvent(p) ==
    /\ job[p] \in {"okEvent", "okMark", "giveUp"}
    /\ Goes(p, CASE job[p] = "okEvent" -> "okEventSave"
                 [] job[p] = "okMark"  -> "okMarkSave"
                 [] job[p] = "giveUp"  -> "giveUpSave", events[p[1]])
    /\ UNCHANGED <<rows, busy, batch, got>>

\* Faulty: every consumer of the event is recorded as reached.
EventRowAll(label, row, c) ==
    CASE label = "okEventSave" -> [row EXCEPT !.status = "delivered", !.deliveredTo = Consumers]
      [] label = "giveUpSave"  -> [row EXCEPT !.status = "failed"]
      [] label = "okMarkSave"  -> [row EXCEPT !.processed = TRUE]

EventRow(label, row, c) ==
    CASE label = "okEventSave" -> [row EXCEPT !.status = "delivered", !.deliveredTo = @ \cup {c}]
      [] label = "giveUpSave"  -> [row EXCEPT !.status = "failed"]
      [] label = "okMarkSave"  -> [row EXCEPT !.processed = TRUE]

SaveEvent(p) ==
    /\ job[p] \in {"okEventSave", "okMarkSave", "giveUpSave"}
    /\ events' = [events EXCEPT ![p[1]] = EventRow(job[p], seen[p], p[2])]
    /\ Goes(p, IF job[p] = "okEventSave" THEN "okStats" ELSE "settled", None)
    /\ UNCHANGED <<consumers, busy, batch, got>>

\* updateDeliveryStats throws if the consumer is gone.  Within the try that
\* leads to handleFailedDelivery in the catch, also after a success; from
\* there it escapes, unless another save has brought the row back.
LoadConsumer(p) ==
    /\ job[p] \in {"okStats", "failStats", "catchStats"}
    /\ LET c == consumers[p[2]] IN
       \/ /\ c # None
          /\ Goes(p, IF job[p] = "okStats" THEN "okStatsSave" ELSE "failStatsSave", c)
          /\ UNCHANGED <<rows, busy, batch, got>>
       \/ /\ c = None /\ job[p] # "catchStats"
          /\ Goes(p, "catchStats", None) /\ UNCHANGED <<rows, busy, batch, got>>
       \/ c = None /\ job[p] = "catchStats" /\ Escapes(p)

\* Faulty: a consumer that fails too often is not suspended.
AfterFailureActive(c) == [c EXCEPT !.failed = IF @ > FailureLimit THEN @ ELSE @ + 1]

AfterSuccess(c) == [c EXCEPT !.failed = IF @ = 0 THEN 0 ELSE @ - 1]
AfterFailure(c) ==
    IF c.failed + 1 > FailureLimit
    THEN [isActive |-> FALSE, status |-> "suspended", failed |-> FailureLimit + 1]
    ELSE [c EXCEPT !.failed = @ + 1]

\* attemptNumber is the in-memory event's counter plus one, and nothing
\* increments that counter: it is always 1.
AfterFailedSave(p) == IF 1 >= RetryLimit[p[2]] THEN "giveUp" ELSE "timer"

\* The save inserts the row again if the consumer was deleted meanwhile.
SaveConsumer(p) ==
    /\ job[p] \in {"okStatsSave", "failStatsSave"}
    /\ consumers' = [consumers EXCEPT ![p[2]] =
                       IF job[p] = "okStatsSave" THEN AfterSuccess(seen[p])
                                                 ELSE AfterFailure(seen[p])]
    /\ Goes(p, IF job[p] = "okStatsSave" THEN "okAll" ELSE AfterFailedSave(p), None)
    /\ UNCHANGED <<events, busy, batch, got>>

\* deliveredCount comes from the in-memory event, whose deliveredTo is never
\* filled: it is 1, so the mark needs at most one active consumer.
handleSuccessfulDelivery(p) ==
    /\ job[p] = "okAll"
    /\ Goes(p, IF 1 >= Cardinality(getActiveConsumers) THEN "okMark" ELSE "settled", None)
    /\ UNCHANGED <<rows, busy, batch, got>>

\* The back-off timer of handleFailedDelivery fires.
RetryTimer(p) ==
    /\ job[p] = "timer"
    /\ queue' = Append(queue, p) /\ job' = [job EXCEPT ![p] = "queued"]
    /\ UNCHANGED <<rows, busy, batch, seen, adminVars, got>>

-----------------------------------------------------------------------------
\* The operator's endpoints load a consumer and save it changed.
AdminOps == {"activate", "deactivate", "suspend", "setActive", "clearActive"}
Administered(op, c) ==
    CASE op = "activate"    -> [c EXCEPT !.isActive = TRUE, !.status = "active"]
      [] op = "deactivate"  -> [c EXCEPT !.isActive = FALSE, !.status = "inactive"]
      [] op = "suspend"     -> [c EXCEPT !.isActive = FALSE, !.status = "suspended"]
      [] op = "setActive"   -> [c EXCEPT !.isActive = TRUE]
      [] op = "clearActive" -> [c EXCEPT !.isActive = FALSE]

AdminLoads(op, c) ==
    /\ admin = None /\ calls < MaxAdmin /\ consumers[c] # None
    /\ calls' = calls + 1
    /\ admin' = <<c, Administered(op, consumers[c])>>
    /\ UNCHANGED <<rows, queue, busy, batch, job, seen, restarts, got>>

AdminSaves ==
    /\ admin # None
    /\ consumers' = [consumers EXCEPT ![admin[1]] = admin[2]]
    /\ admin' = None
    /\ UNCHANGED <<events, queue, busy, batch, job, seen, calls, restarts, got>>

\* createConsumer gives the row a new id; the name is free again here.
createConsumer(c) ==
    /\ consumers[c] = None /\ calls < MaxAdmin /\ \A e \in Events : job[<<e, c>>] = "none"
    /\ calls' = calls + 1
    /\ consumers' = [consumers EXCEPT ![c] = NewConsumer]
    /\ UNCHANGED <<events, queue, busy, batch, job, seen, admin, restarts, got>>

deleteConsumer(c) ==
    /\ consumers[c] # None /\ calls < MaxAdmin
    /\ calls' = calls + 1
    /\ consumers' = [consumers EXCEPT ![c] = None]
    /\ UNCHANGED <<events, queue, busy, batch, job, seen, admin, restarts, got>>

Owed(p) == job[p] \in Delivering \cup {"queued", "timer"}

\* A restart: nothing reads the pending events back.
Restart ==
    /\ restarts < MaxRestarts
    /\ restarts' = restarts + 1
    /\ queue' = <<>> /\ busy' = FALSE /\ batch' = {} /\ admin' = None
    /\ job' = [p \in Pairs |-> IF Owed(p) THEN "dropped" ELSE job[p]]
    /\ seen' = [p \in Pairs |-> None]
    /\ UNCHANGED <<rows, calls, got>>

DeliveryStep(p) ==
    \/ deliverEventToConsumer(p) \/ attemptDelivery(p)
    \/ LoadEvent(p) \/ SaveEvent(p) \/ LoadConsumer(p) \/ SaveConsumer(p)
    \/ handleSuccessfulDelivery(p) \/ RetryTimer(p)

AdminNext ==
    \/ \E op \in AdminOps, c \in Consumers : AdminLoads(op, c)
    \/ AdminSaves
    \/ \E c \in Consumers : createConsumer(c) \/ deleteConsumer(c)

WhNext ==
    \/ \E e \in Events : handleEvent(e)
    \/ processQueue \/ BatchEnds
    \/ \E p \in Pairs : DeliveryStep(p)
    \/ AdminNext \/ Restart

\* The interval timer runs processQueue, axios times every POST out, and the
\* event loop resumes every answered query.
WhFairness ==
    /\ WF_whVars(processQueue) /\ WF_whVars(BatchEnds)
    /\ \A p \in Pairs : WF_whVars(DeliveryStep(p))

WhSpec == WhInit /\ [][WhNext]_whVars /\ WhFairness

-----------------------------------------------------------------------------
(***************************************************************************)
(* The row never claims a delivery that did not happen: deliveredTo names  *)
(* only consumers that received the event, although deliveries of one      *)
(* batch load and save the same row around each other.  With the type      *)
(* invariant.                                                              *)
(***************************************************************************)
DeliveredIsReal ==
    /\ WhTypeOK
    /\ \A e \in Events : \A c \in events[e].deliveredTo : <<e, c>> \in got

(***************************************************************************)
(* Batches overlap only after an exception has escaped from a delivery (to *)
(* a deleted consumer): until then every running delivery belongs to the   *)
(* batch that processQueue waits for, so isProcessingQueue really bounds   *)
(* the calls in flight by the batch size.                                  *)
(***************************************************************************)
BatchesDoNotOverlap ==
    (\A p \in Pairs : job[p] # "threw")
        => \A p \in Pairs : job[p] \in Delivering => busy /\ p \in batch

Debt(p) == CASE Owed(p) -> "owed" [] job[p] = "threw" -> "dropped" [] OTHER -> job[p]

Promise == INSTANCE WebhookPromise WITH debt <- [p \in Pairs |-> Debt(p)]

(***************************************************************************)
(* The delivery service implements the abstract promise: what is owed for  *)
(* an event stays owed through failures, retries and exceptions until it   *)
(* is settled or dropped, once; nothing that is over is taken up again.    *)
(***************************************************************************)
KeepsPromise == Promise!PromiseSpec

(***************************************************************************)
(* A delivery is retried for ever only if its consumer keeps receiving     *)
(* other events meanwhile: failures suspend the consumer                   *)
(* (updateDeliveryStats), and nothing but a success brings its counter     *)
(* back.  However many events follow, and although saves of one consumer's *)
(* row overwrite each other.                                               *)
(***************************************************************************)
OwedWhileServed ==
    \A p \in Pairs : <>[]Owed(p) =>
        []<>(\E q \in Pairs : q[2] = p[2] /\ job[q] = "okStatsSave")

(***************************************************************************)
(* "Max retries reached - mark as failed" (webhook-delivery.service.ts,    *)
(* handleFailedDelivery): a delivery that waits for its next attempt is    *)
(* over at some time, delivered or marked as failed.                       *)
(***************************************************************************)
RetriesAreLimited == \A p \in Pairs : job[p] = "timer" ~> ~Owed(p)
=============================================================================
