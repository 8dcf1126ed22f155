--------------------------- MODULE WorkflowStart ---------------------------
(***************************************************************************)
(* startWorkflow (Backend/src/workflow/services/                           *)
(* workflow-execution.service.ts) called several times with one            *)
(* idempotency key, by any instances of the service: the look-up, the      *)
(* Redis lock, the insert under a unique index, the execution and the      *)
(* release of the lock.                                                    *)
(*                                                                         *)
(* Each await ends a step.  Execution itself is module Workflow; here it   *)
(* is one step that may fail.                                              *)
(***************************************************************************)
EXTENDS Integers, FiniteSets

CONSTANTS
    Callers,       \* concurrent calls; a caller is also its lock token
    Free,          \* the lock key is absent
    MaxExpiries,   \* bound on expiries of the lock (TTL of an hour)
    MaxStops       \* bound on callers whose service stops

ASSUME FreeAssumption == Free \notin Callers
ASSUME CountsAssumption == MaxExpiries \in Nat /\ MaxStops \in Nat

VARIABLES
    pc,         \* where a call is
    lock,       \* the token stored under the lock key
    row,        \* the workflow row: none, inserted, or with its steps
    executed,   \* callers that have executed the workflow
    expiries,   \* expiries so far
    crashes     \* stopped callers so far

vars == <<pc, lock, row, executed, expiries, crashes>>

Over == {"returned", "conflict", "busy", "crashed"}
Labels == Over \cup {"find", "lock", "wait", "create", "steps", "execute",
                     "get", "del", "get_err", "del_err"}

\* The type invariant.
StartTypeOK ==
    /\ pc \in [Callers -> Labels]
    /\ lock \in Callers \cup {Free}
    /\ row \in {"none", "bare", "ready"}
    /\ executed \in SUBSET Callers
    /\ expiries \in 0..MaxExpiries /\ crashes \in 0..MaxStops

Goto(c, label) == pc' = [pc EXCEPT ![c] = label]

-----------------------------------------------------------------------------
FindExisting(c) ==
    /\ pc[c] = "find"
    /\ Goto(c, IF row = "none" THEN "lock" ELSE "returned")
    /\ UNCHANGED <<lock, row, executed, expiries, crashes>>

\* SET NX EX: the row is not looked up again once the lock is taken.
acquireWorkflowLock(c) ==
    /\ pc[c] = "lock"
    /\ \/ lock = Free /\ lock' = c /\ Goto(c, "create")
       \/ lock # Free /\ UNCHANGED lock /\ Goto(c, "wait")
    /\ UNCHANGED <<row, executed, expiries, crashes>>

\* Faulty (a definition so marked is a variant of the next one, with a defect
\* the properties catch): polls until there is a row.
waitForever(c) ==
    /\ pc[c] = "wait"
    /\ row # "none" /\ Goto(c, "returned")
    /\ UNCHANGED <<lock, row, executed, expiries, crashes>>

\* Polls for the row, for five seconds.
waitForWorkflow(c) ==
    /\ pc[c] = "wait"
    /\ \/ row # "none" /\ Goto(c, "returned")
       \/ row = "none" /\ Goto(c, "busy")
    /\ UNCHANGED <<lock, row, executed, expiries, crashes>>

\* Faulty: no unique index.
CreateAnother(c) ==
    /\ pc[c] = "create"
    /\ row' = IF row = "none" THEN "bare" ELSE row
    /\ Goto(c, "steps")
    /\ UNCHANGED <<lock, executed, expiries, crashes>>

\* The insert of a second row with the key fails on the unique index.
CreateWorkflow(c) ==
    /\ pc[c] = "create"
    /\ \/ row = "none" /\ row' = "bare" /\ Goto(c, "steps")
       \/ row # "none" /\ UNCHANGED row /\ Goto(c, "get_err")
    /\ UNCHANGED <<lock, executed, expiries, crashes>>

CreateSteps(c) ==
    /\ pc[c] = "steps"
    /\ row' = "ready"
    /\ Goto(c, "execute")
    /\ UNCHANGED <<lock, executed, expiries, crashes>>

\* A failed execution is rethrown after the release; for the caller that is
\* an answer too.
ExecuteWorkflow(c) ==
    /\ pc[c] = "execute"
    /\ executed' = executed \cup {c}
    /\ Goto(c, "get")
    /\ UNCHANGED <<lock, row, expiries, crashes>>

\* The lock is read, compared and deleted in two commands.
releaseWorkflowLock(c) ==
    /\ \/ /\ pc[c] \in {"get", "get_err"}
          /\ IF lock = c
             THEN Goto(c, IF pc[c] = "get" THEN "del" ELSE "del_err")
             ELSE Goto(c, IF pc[c] = "get" THEN "returned" ELSE "conflict")
          /\ UNCHANGED lock
       \/ /\ pc[c] \in {"del", "del_err"}
          /\ lock' = Free
          /\ Goto(c, IF pc[c] = "del" THEN "returned" ELSE "conflict")
    /\ UNCHANGED <<row, executed, expiries, crashes>>

\* Redis drops the key an hour after it was set.
LockExpires ==
    /\ lock # Free
    /\ expiries < MaxExpiries
    /\ expiries' = expiries + 1
    /\ lock' = Free
    /\ UNCHANGED <<pc, row, executed, crashes>>

Crash(c) ==
    /\ pc[c] \notin Over
    /\ crashes < MaxStops
    /\ crashes' = crashes + 1
    /\ Goto(c, "crashed")
    /\ UNCHANGED <<lock, row, executed, expiries>>

-----------------------------------------------------------------------------
Init ==
    /\ pc = [c \in Callers |-> "find"]
    /\ lock = Free
    /\ row = "none"
    /\ executed = {}
    /\ expiries = 0
    /\ crashes = 0

StartStep(c) ==
    \/ FindExisting(c) \/ acquireWorkflowLock(c) \/ waitForWorkflow(c)
    \/ CreateWorkflow(c) \/ CreateSteps(c) \/ ExecuteWorkflow(c)
    \/ releaseWorkflowLock(c)

Next ==
    \/ \E c \in Callers : StartStep(c) \/ Crash(c)
    \/ LockExpires

Spec == Init /\ [][Next]_vars

\* A service that does not stop goes on with every call it has accepted.
FairSpec == Spec /\ \A c \in Callers : WF_vars(StartStep(c))

-----------------------------------------------------------------------------
(***************************************************************************)
(* The workflow of a key is executed by at most one of its callers, even   *)
(* when the lock expires under its holder or is deleted by another: the    *)
(* unique index decides (startWorkflow).                                   *)
(***************************************************************************)
ExecutedOnce ==
    /\ Cardinality(executed) <= 1
    /\ executed # {} => row = "ready"
    /\ \A c, d \in Callers :
         (pc[c] \in {"steps", "execute"} /\ pc[d] \in {"steps", "execute"}) => c = d

(***************************************************************************)
(* Every call is answered, whatever becomes of the lock's holder: a        *)
(* caller that lost the race does not wait for a holder that has stopped   *)
(* (waitForWorkflow gives up).                                             *)
(***************************************************************************)
EveryCallAnswered == <>(\A c \in Callers : pc[c] \in Over)
=============================================================================
