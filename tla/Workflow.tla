------------------------------ MODULE Workflow ------------------------------
(***************************************************************************)
(* One workflow of the backend's orchestration engine                      *)
(* (Backend/src/workflow/services): the executor, the admin calls, the     *)
(* recovery job and compensation, all working on their own copies of the   *)
(* same two tables.                                                        *)
(*                                                                         *)
(* A handler runs between two awaits without interruption, so each await   *)
(* of a query, a save or an operation ends a step.  repository.save writes *)
(* every column of the copy it is given, and a workflow loaded with its    *)
(* steps saves those copies too (cascade: true).                           *)
(***************************************************************************)
EXTENDS Integers, FiniteSets, FiniteSetsExt

CONSTANTS
    NumSteps,      \* steps of the definition
    MaxRetries,    \* attempts of a step
    Compensable,   \* steps that define a compensation
    TimedSteps,    \* steps with a timeout of their own
    HasTimeout,    \* the definition has a timeout for its steps
    Requests,      \* admin calls and jobs that take place besides the start
    MaxCrashes     \* bound on service restarts

Compensations == {"comp1", "comp2", "force"}
Retries == {"retry", "stepRetry"}
Procs == {"start", "cancel", "recover", "stuck"} \cup Retries \cup Compensations

ASSUME NumStepsAssumption == NumSteps \in Nat \ {0} /\ MaxRetries \in Nat \ {0}
ASSUME RequestsAssumption == Requests \subseteq Procs \ {"start"}

VARIABLES
    wf,        \* state column of the workflow row
    steps,     \* state and retryCount of the step rows
    run,       \* where a process is, its copies of the rows and its step
    effects,   \* how often a step's operation took effect
    undone,    \* how often a step was compensated
    late,      \* steps whose abandoned operation is still under way
    issued,    \* one-time requests already made
    crashes    \* service restarts so far

vars == <<wf, steps, run, effects, undone, late, issued, crashes>>
db == <<wf, steps>>
world == <<effects, undone, late>>
limits == <<issued, crashes>>

Steps == 1..NumSteps

WorkflowState == {"PENDING", "RUNNING", "COMPLETED", "FAILED", "CANCELLED",
                  "COMPENSATING", "COMPENSATED"}
StepState == {"PENDING", "RUNNING", "COMPLETED", "FAILED", "COMPENSATING", "COMPENSATED"}

StepRow == [state : StepState, retryCount : Nat]

Labels == {"idle", "execute", "load", "next", "begin", "exec", "ok", "timedout", "fail",
           "c_save", "c_next", "c_undo", "x_save", "t_save", "r_load", "r_save", "r_step",
           "v_act", "s_act", "s_step"}

\* The type invariant of the tables, the processes and the counts.
TypeOK ==
    /\ wf \in WorkflowState
    /\ steps \in [Steps -> StepRow]
    /\ run \in [Procs -> [pc : Labels, wf : WorkflowState, steps : [Steps -> StepRow],
                         cur : 1..(NumSteps + 1)]]
    /\ effects \in [Steps -> Nat] /\ undone \in [Steps -> Nat]
    /\ late \in SUBSET Steps
    /\ issued \in SUBSET Procs
    /\ crashes \in Nat

-----------------------------------------------------------------------------
(* The state machine.  Here and below, a definition marked "Faulty" is a   *)
(* variant of the one that follows it, with a defect the properties catch. *)

workflowTransitions ==
    [PENDING      |-> {"RUNNING", "CANCELLED"},
     RUNNING      |-> {"COMPLETED", "FAILED", "CANCELLED", "COMPENSATING"},
     COMPLETED    |-> {"COMPENSATING"},
     FAILED       |-> {"RUNNING", "CANCELLED", "COMPENSATING"},
     CANCELLED    |-> {"COMPENSATING"},
     COMPENSATING |-> {"COMPENSATED", "FAILED"},
     COMPENSATED  |-> {}]

\* SKIPPED is never assigned, so it is left out.
stepTransitions ==
    [PENDING      |-> {"RUNNING"},
     RUNNING      |-> {"COMPLETED", "FAILED"},
     COMPLETED    |-> {"COMPENSATING"},
     FAILED       |-> {"RUNNING", "COMPENSATING"},
     COMPENSATING |-> {"COMPENSATED", "FAILED"},
     COMPENSATED  |-> {}]

\* Faulty: a workflow that says RUNNING may be run again.
mayRunAgain(from, to) == to \in workflowTransitions[from] \/ from = to

canTransitionWorkflow(from, to) == to \in workflowTransitions[from]
canTransitionStep(from, to) == to \in stepTransitions[from]

\* Faulty: a running workflow may be compensated.
mayCompensateRunning(state) == state \in {"RUNNING", "COMPLETED", "FAILED", "CANCELLED"}

canWorkflowCompensate(state) == state \in {"COMPLETED", "FAILED", "CANCELLED"}
isWorkflowRecoverable(state) == state = "FAILED"
shouldRetry(retryCount) == retryCount < MaxRetries

-----------------------------------------------------------------------------
(* Copies and saves *)

FreshSteps == [i \in Steps |-> [state |-> "PENDING", retryCount |-> 0]]
Idle == [pc |-> "idle", wf |-> "PENDING", steps |-> FreshSteps, cur |-> 1]

At(p, label) == run[p].pc = label
Running(p) == ~At(p, "idle")

\* Process p goes on with the given copies; one that ends forgets them.
Become(p, frame) ==
    run' = [run EXCEPT ![p] = IF frame.pc = "idle" THEN Idle ELSE frame]

Goto(p, label) == Become(p, [run[p] EXCEPT !.pc = label])

\* findOne: the rows as they are now.
Loaded(p, label) == [run[p] EXCEPT !.pc = label, !.wf = wf, !.steps = steps]

\* Processes whose copy of the workflow holds its steps, which are then
\* saved with it.
LoadsSteps == {"recover"} \cup Retries \cup Compensations

SaveWorkflow(p, state) ==
    /\ wf' = state
    /\ steps' = IF p \in LoadsSteps THEN run[p].steps ELSE steps

\* Process p saves its copy of step i as the given row and goes on.
SaveStep(p, i, row, label) ==
    /\ steps' = [steps EXCEPT ![i] = row]
    /\ Become(p, [run[p] EXCEPT !.pc = label, !.steps[i] = row, !.cur = i])

Copy(p, i) == run[p].steps[i]
StepWith(p, i, state) == [Copy(p, i) EXCEPT !.state = state]

RetriedAs(p, i, state) == [state |-> state, retryCount |-> Copy(p, i).retryCount + 1]

Request(p) ==
    /\ p \in Requests \ issued
    /\ At(p, "idle")
    /\ issued' = issued \cup {p}
    /\ UNCHANGED crashes

-----------------------------------------------------------------------------
(* The executor *)

\* Refused by the state machine, which is asked about the caller's copy.
executeWorkflow(p) ==
    /\ At(p, "execute")
    /\ \/ /\ canTransitionWorkflow(run[p].wf, "RUNNING")
          /\ SaveWorkflow(p, "RUNNING")
          /\ Become(p, [run[p] EXCEPT !.pc = "load", !.wf = "RUNNING"])
       \/ /\ ~canTransitionWorkflow(run[p].wf, "RUNNING")
          /\ Goto(p, "idle")
          /\ UNCHANGED db
    /\ UNCHANGED <<world, limits>>

\* executeSteps loads the steps once, before its loop.
LoadSteps(p) ==
    /\ At(p, "load")
    /\ Become(p, [run[p] EXCEPT !.pc = "next", !.steps = steps, !.cur = 1])
    /\ UNCHANGED <<db, world, limits>>

\* Faulty: the loop ends before its last step; the end is not saved.
SkipLastStep(p) ==
    /\ At(p, "next")
    /\ IF run[p].cur < NumSteps
       THEN SaveWorkflow(p, run[p].wf) /\ Goto(p, "begin")
       ELSE SaveWorkflow(p, "COMPLETED") /\ Goto(p, "idle")
    /\ UNCHANGED <<world, limits>>

ForgetCompletion(p) ==
    /\ At(p, "next")
    /\ SaveWorkflow(p, run[p].wf)
    /\ Goto(p, IF run[p].cur \in Steps THEN "begin" ELSE "idle")
    /\ UNCHANGED <<world, limits>>

\* The head of the loop saves the workflow with its new step index; after
\* the loop the workflow is saved as completed.
NextStep(p) ==
    /\ At(p, "next")
    /\ IF run[p].cur \in Steps
       THEN SaveWorkflow(p, run[p].wf) /\ Goto(p, "begin")
       ELSE SaveWorkflow(p, "COMPLETED") /\ Goto(p, "idle")
    /\ UNCHANGED <<world, limits>>

\* (The second save of the same copy, with its idempotency key, is one with
\* the first.)
BeginStep(p) ==
    LET i == run[p].cur IN
    /\ At(p, "begin")
    /\ IF canTransitionStep(Copy(p, i).state, "RUNNING")
       THEN SaveStep(p, i, StepWith(p, i, "RUNNING"), "exec")
       ELSE Goto(p, "fail") /\ UNCHANGED steps
    /\ UNCHANGED <<wf, world, limits>>

\* An operation that fails has had no effect; one that succeeds has had it
\* before its result is saved.
OperationSucceeds(p) ==
    /\ At(p, "exec")
    /\ effects' = [effects EXCEPT ![run[p].cur] = @ + 1]
    /\ Goto(p, "ok")
    /\ UNCHANGED <<db, undone, late, limits>>

CompleteStep(p) ==
    LET i == run[p].cur
        done == StepWith(p, i, "COMPLETED")
    IN  /\ At(p, "ok")
        /\ steps' = [steps EXCEPT ![i] = done]
        /\ Become(p, [run[p] EXCEPT !.pc = "next", !.steps[i] = done, !.cur = i + 1])
        /\ UNCHANGED <<wf, world, limits>>

\* Retried after a delay while attempts are left.
OperationFails(p) ==
    LET i == run[p].cur IN
    /\ At(p, "exec")
    /\ SaveStep(p, i, RetriedAs(p, i, "FAILED"),
                IF shouldRetry(Copy(p, i).retryCount + 1) THEN "begin" ELSE "fail")
    /\ UNCHANGED <<wf, world, limits>>

\* A retry is called without the workflow's timeout.  Nothing stops the
\* operation that timed out.
OperationTimesOut(p) ==
    LET i == run[p].cur IN
    /\ At(p, "exec")
    /\ i \in TimedSteps \/ (HasTimeout /\ Copy(p, i).retryCount = 0)
    /\ SaveStep(p, i, RetriedAs(p, i, "FAILED"), "timedout")
    /\ late' = late \cup {i}
    /\ UNCHANGED <<wf, effects, undone, limits>>

FailWorkflow(p) ==
    /\ At(p, "fail")
    /\ SaveWorkflow(p, "FAILED")
    /\ Goto(p, "idle")
    /\ UNCHANGED <<world, limits>>

\* An abandoned operation ends, with or without its effect.
LateOperation(i) ==
    /\ i \in late
    /\ late' = late \ {i}
    /\ \/ effects' = [effects EXCEPT ![i] = @ + 1]
       \/ UNCHANGED effects
    /\ UNCHANGED <<db, run, undone, limits>>

-----------------------------------------------------------------------------
(* Compensation *)

\* Called by an administrator, or by the executor after a timeout.  When it
\* refuses, the executor's own error handling goes on.
compensateWorkflow(p) ==
    /\ \/ At(p, "timedout") /\ UNCHANGED limits
       \/ p \in Compensations /\ Request(p)
    /\ IF canWorkflowCompensate(wf) \/ p = "force"
       THEN Become(p, Loaded(p, "c_save"))
       ELSE Goto(p, IF At(p, "timedout") THEN "fail" ELSE "idle")
    /\ UNCHANGED <<db, world>>

MarkCompensating(p) ==
    /\ At(p, "c_save")
    /\ wf' = "COMPENSATING"
    /\ steps' = run[p].steps
    /\ Goto(p, "c_next")
    /\ UNCHANGED <<world, limits>>

\* Faulty: in the order of execution.
FirstOf(todo) == Min(todo)

\* Reverse order.
NextToCompensate(todo) == Max(todo)

\* The completed steps of the copy, one by one.
CompensateNext(p) ==
    LET todo == {i \in Steps \cap Compensable : Copy(p, i).state = "COMPLETED"} IN
    /\ At(p, "c_next")
    /\ IF todo # {}
       THEN /\ SaveStep(p, NextToCompensate(todo),
                        StepWith(p, NextToCompensate(todo), "COMPENSATING"), "c_undo")
            /\ UNCHANGED wf
       ELSE /\ wf' = "COMPENSATED"
            /\ steps' = run[p].steps
            /\ Goto(p, "idle")
    /\ UNCHANGED <<world, limits>>

CompensateStep(p) ==
    LET i == run[p].cur IN
    /\ At(p, "c_undo")
    /\ undone' = [undone EXCEPT ![i] = @ + 1]
    /\ SaveStep(p, i, StepWith(p, i, "COMPENSATED"), "c_next")
    /\ UNCHANGED <<wf, effects, late, limits>>

-----------------------------------------------------------------------------
(* Cancel, retry, recovery *)

cancelWorkflow ==
    LET p == "cancel" IN
    \/ /\ Request(p)
       /\ canTransitionWorkflow(wf, "CANCELLED")
       /\ Goto(p, "x_save")
       /\ UNCHANGED <<db, world>>
    \/ /\ At(p, "x_save")
       /\ SaveWorkflow(p, "CANCELLED")
       /\ Goto(p, "idle")
       /\ UNCHANGED <<world, limits>>

\* The administrator's retry of one step resets that step first.
retryWorkflowStep ==
    LET p == "stepRetry" IN
    \/ /\ Request(p)
       /\ \E i \in Steps :
            /\ steps[i].state = "FAILED"
            /\ Become(p, [Loaded(p, "t_save") EXCEPT !.cur = i])
       /\ UNCHANGED <<db, world>>
    \/ /\ At(p, "t_save")
       /\ SaveStep(p, run[p].cur, RetriedAs(p, run[p].cur, "PENDING"), "r_load")
       /\ UNCHANGED <<wf, world, limits>>

\* Saves the workflow as RUNNING, then hands that copy to executeWorkflow.
retryWorkflow(p) ==
    \/ /\ \/ p = "retry" /\ Request(p)
          \/ At(p, "r_load") /\ UNCHANGED limits
       /\ Become(p, Loaded(p, IF isWorkflowRecoverable(wf) THEN "r_save" ELSE "idle"))
       /\ UNCHANGED <<db, world>>
    \/ /\ At(p, "r_save")
       /\ SaveWorkflow(p, "RUNNING")
       /\ Become(p, [run[p] EXCEPT !.pc = "r_step", !.wf = "RUNNING"])
       /\ UNCHANGED <<world, limits>>
    \/ /\ At(p, "r_step")
       /\ \/ \E i \in Steps :
               /\ Copy(p, i).state = "FAILED"
               /\ SaveStep(p, i, StepWith(p, i, "PENDING"), "execute")
          \/ /\ \A i \in Steps : Copy(p, i).state # "FAILED"
             /\ Goto(p, "execute")
             /\ UNCHANGED steps
       /\ UNCHANGED <<wf, world, limits>>

\* Process p has saved the workflow row within the last moments; elsewhere
\* it has not saved it yet, or the operation or a retry's delay lies between.
JustSaved(p) ==
    \/ run[p].pc \in {"execute", "load", "r_step", "c_next", "c_undo"}
    \/ At(p, "next") /\ run[p].cur = 1
    \/ At(p, "begin") /\ Copy(p, run[p].cur).state # "FAILED"

\* No write of the workflow row for five minutes.
Stale == \A p \in Procs \ {"recover", "stuck"} : ~JustSaved(p)

recoverWorkflow ==
    LET p == "recover"
        failed == \E i \in Steps : Copy(p, i).state = "FAILED"
    IN
    \/ /\ p \in Requests
       /\ At(p, "idle")
       /\ wf = "RUNNING" /\ Stale
       /\ Become(p, Loaded(p, "v_act"))
       /\ UNCHANGED <<db, world, limits>>
    \/ /\ At(p, "v_act")
       /\ failed
       /\ SaveWorkflow(p, "FAILED")
       /\ Goto(p, "idle")
       /\ UNCHANGED <<world, limits>>
    \/ /\ At(p, "v_act")
       /\ ~failed
       /\ Goto(p, "execute")
       /\ UNCHANGED <<db, world, limits>>

\* A step that has been RUNNING for ten minutes, with or without an executor.
recoverStuckStep ==
    LET p == "stuck"
        i == run[p].cur
    IN
    \/ /\ p \in Requests
       /\ At(p, "idle")
       /\ wf = "RUNNING"
       /\ \E j \in Steps :
            /\ steps[j].state = "RUNNING"
            /\ Become(p, [Loaded(p, "s_act") EXCEPT !.cur = j])
       /\ UNCHANGED <<db, world, limits>>
    \/ /\ At(p, "s_act")
       /\ IF shouldRetry(Copy(p, i).retryCount + 1)
          THEN UNCHANGED db
          ELSE SaveWorkflow(p, "FAILED")
       /\ Goto(p, "s_step")
       /\ UNCHANGED <<world, limits>>
    \/ /\ At(p, "s_step")
       /\ SaveStep(p, i, RetriedAs(p, i, "FAILED"), "idle")
       /\ UNCHANGED <<wf, world, limits>>

\* The manual trigger does not look whether the scheduled recovery is busy:
\* the two jobs overlap.
RecoveryJobs == recoverWorkflow \/ recoverStuckStep

\* The service restarts: the copies are gone, the operations it had asked
\* for may still take effect.
Crash ==
    /\ crashes < MaxCrashes
    /\ crashes' = crashes + 1
    /\ late' = late \cup {run[p].cur : p \in {q \in Procs : At(q, "exec")}}
    /\ run' = [p \in Procs |-> Idle]
    /\ UNCHANGED <<db, effects, undone, issued>>

-----------------------------------------------------------------------------
\* startWorkflow has inserted the rows and calls executeWorkflow.
Init ==
    /\ wf = "PENDING"
    /\ steps = FreshSteps
    /\ run = [p \in Procs |-> IF p = "start" THEN [Idle EXCEPT !.pc = "execute"] ELSE Idle]
    /\ effects = [i \in Steps |-> 0]
    /\ undone = [i \in Steps |-> 0]
    /\ late = {}
    /\ issued = {}
    /\ crashes = 0

ExecutorStep(p) ==
    \/ executeWorkflow(p) \/ LoadSteps(p) \/ NextStep(p) \/ BeginStep(p)
    \/ OperationSucceeds(p) \/ CompleteStep(p) \/ OperationFails(p)
    \/ OperationTimesOut(p) \/ FailWorkflow(p)

CompensatorStep(p) ==
    compensateWorkflow(p) \/ MarkCompensating(p) \/ CompensateNext(p) \/ CompensateStep(p)

Next ==
    \/ \E p \in Procs : ExecutorStep(p) \/ CompensatorStep(p)
    \/ \E i \in Steps : LateOperation(i)
    \/ cancelWorkflow
    \/ retryWorkflowStep
    \/ \E p \in Retries : retryWorkflow(p)
    \/ RecoveryJobs
    \/ Crash

Spec == Init /\ [][Next]_vars

\* The event loop keeps serving every handler that has started, operations
\* end, and the recovery job is scheduled every five minutes.
Fairness ==
    /\ \A p \in Procs : WF_vars((ExecutorStep(p) \/ CompensatorStep(p)) /\ Running(p))
    /\ WF_vars(cancelWorkflow /\ Running("cancel"))
    /\ WF_vars(retryWorkflowStep /\ Running("stepRetry"))
    /\ \A p \in Retries : WF_vars(retryWorkflow(p) /\ Running(p))
    /\ WF_vars(recoverWorkflow)
    /\ WF_vars(recoverStuckStep)

FairSpec == Spec /\ Fairness

-----------------------------------------------------------------------------
Executing(p) == run[p].pc \in {"load", "next", "begin", "exec", "ok", "timedout", "fail"}

(***************************************************************************)
(* At most one process ever runs the steps of a workflow, across restarts, *)
(* retries and the recovery job (the only guard is the state machine's     *)
(* table, asked about a copy), and no step's operation takes effect twice, *)
(* operations that time out or outlive a restart included.                 *)
(***************************************************************************)
EffectAtMostOnce ==
    /\ TypeOK
    /\ \A p, q \in Procs : Executing(p) /\ Executing(q) => p = q
    /\ \A i \in Steps : effects[i] + (IF i \in late THEN 1 ELSE 0) <= 1

(***************************************************************************)
(* Operations take effect in the order of the steps, and a workflow row    *)
(* that says COMPLETED, or a process about to say so, has all its effects, *)
(* whichever stale copies were saved on the way.                           *)
(***************************************************************************)
CompletedIsReal ==
    /\ \A i, j \in Steps : (i < j /\ effects[j] > 0) => effects[i] > 0
    /\ wf = "COMPLETED" => \A i \in Steps : effects[i] > 0

Settled ==
    /\ \A p \in Procs : ~Running(p)
    /\ wf \in {"COMPLETED", "FAILED", "CANCELLED", "COMPENSATED"}

(***************************************************************************)
(* Everybody comes to an end and the row then has a settled state: the     *)
(* last of several overlapping writers never leaves it RUNNING.            *)
(***************************************************************************)
Settles == <>[]Settled

(***************************************************************************)
(* workflow-execution.service.ts: a timed out workflow "will rely on       *)
(* automatic compensation".  Compensation is refused while the row says    *)
(* RUNNING, which it does when the executor asks for it.                   *)
(***************************************************************************)
TimeoutCompensates ==
    \A p \in Procs : At(p, "timedout") ~> wf = "COMPENSATED"
=============================================================================
