------------------------------- MODULE MCRows -------------------------------
(* TLC instance of two parts of the backend whose handlers load rows and   *)
(* save them whole: a workflow under the administrators and the recovery   *)
(* job (scenario admin), and the delivery of ledger events to webhooks.    *)
(* They share nothing; Init picks one, and only that one moves.            *)
(* Deliveries: two events and one consumer, or one event and two consumers *)
(* (the other event was saved before there was any, so it is processed).   *)
EXTENDS MCWorkflow, WebhookDelivery

VARIABLE part

CONSTANTS e1, e2, c1, c2

MCRetries == [c \in Consumers |-> IF c = c1 THEN 2 ELSE 1]

\* A workflow that has been completed.
Done ==
    /\ wf = "COMPLETED" /\ steps = [i \in Steps |-> [state |-> "COMPLETED", retryCount |-> 0]]
    /\ run = [p \in Procs |-> Idle] /\ effects = [i \in Steps |-> 1]
    /\ undone = [i \in Steps |-> 0] /\ late = {} /\ issued = {} /\ crashes = 0

HandledEvent == [NewEvent EXCEPT !.stage = "queued", !.processed = TRUE]

TwoEvents == WhInit /\ consumers[c1] # None /\ consumers[c2] = None

TwoConsumers ==
    /\ events = [e \in Events |-> IF e = e1 THEN NewEvent ELSE HandledEvent]
    /\ consumers = [c \in Consumers |-> NewConsumer]
    /\ queue = <<>> /\ busy = FALSE /\ batch = {}
    /\ job = [p \in Pairs |-> "none"] /\ seen = [p \in Pairs |-> None]
    /\ admin = None /\ calls = 0 /\ restarts = 0 /\ got = {}

RowsInit ==
    /\ scenario = "admin"
    /\ \/ part = "workflow" /\ Init /\ TwoConsumers
       \/ part = "deliveries" /\ Done /\ (TwoEvents \/ TwoConsumers)

RowsNext ==
    /\ \/ part = "workflow" /\ MCNext /\ UNCHANGED whVars
       \/ part = "deliveries" /\ WhNext /\ UNCHANGED <<vars, scenario>>
    /\ UNCHANGED part

\* The workflow's fairness, without the requests that the scenario has not;
\* what the deliveries promise here is safety.
RowsFairness ==
    /\ \A p \in Procs :
          WF_vars(part = "workflow" /\ Running(p) /\ (ExecutorStep(p) \/ CompensatorStep(p)))
    /\ WF_vars(part = "workflow" /\ Running("cancel") /\ cancelWorkflow)
    /\ \A p \in Retries : WF_vars(part = "workflow" /\ Running(p) /\ retryWorkflow(p))
    /\ WF_vars(part = "workflow" /\ recoverWorkflow)

RowsSpec == RowsInit /\ [][RowsNext]_<<vars, scenario, whVars, part>> /\ RowsFairness
=============================================================================
