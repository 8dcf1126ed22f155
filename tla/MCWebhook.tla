----------------------------- MODULE MCWebhook -----------------------------
(* TLC instance of the ledger monitor and of the delivery of the events it *)
(* saves, for what both are claimed to achieve in the end.  The two share  *)
(* only those events, which may come at any time: Init picks one of them,  *)
(* and only that one moves.  The events do not end: one that is over makes *)
(* room for another one.  (MCRows is about what deliveries must never do.) *)
EXTENDS WebhookDelivery, StreamMonitor

VARIABLE part

CONSTANTS e1, e2, c1

MCRetries == [c \in Consumers |-> 2]

EventOver(e) == events[e].stage = "queued" /\ \A c \in Consumers : ~Owed(<<e, c>>)

\* Another event takes the name of one that is over.
NextEvent(e) ==
    /\ EventOver(e)
    /\ events' = [events EXCEPT ![e] = NewEvent]
    /\ job' = [p \in Pairs |-> IF p[1] = e THEN "none" ELSE job[p]]
    /\ got' = {p \in got : p[1] # e}
    /\ UNCHANGED <<consumers, queue, busy, batch, seen, adminVars>>

MCInit ==
    /\ SmInit /\ WhInit
    /\ part \in {"monitor", "deliveries"}
    /\ part # "deliveries" => consumers[c1] # None   \* one initial state is enough

MCNext ==
    /\ \/ part = "monitor" /\ SmNext /\ UNCHANGED whVars
       \/ part = "deliveries" /\ (WhNext \/ \E e \in Events : NextEvent(e)) /\ UNCHANGED smVars
    /\ UNCHANGED part

\* The fairness of SmSpec and of WhSpec, for the part that moves.
MCFairness ==
    /\ WF_smVars(part = "monitor" /\ (StartGoesOn \/ StartFails))
    /\ \A f \in Feeds : WF_smVars(part = "monitor" /\ RestartStream(f))
    /\ WF_whVars(part = "deliveries" /\ processQueue)
    /\ WF_whVars(part = "deliveries" /\ BatchEnds)
    /\ \A p \in Pairs : WF_whVars(part = "deliveries" /\ DeliveryStep(p))

MCSpec == MCInit /\ [][MCNext]_<<smVars, whVars, part>> /\ MCFairness
=============================================================================
