--------------------------- MODULE WorkflowProofs ---------------------------
(***************************************************************************)
(* Proofs about Workflow, for any number of steps and attempts, any        *)
(* timeouts and compensations, any admin calls and jobs, and any number of *)
(* restarts.                                                               *)
(***************************************************************************)
EXTENDS MCWorkflow, WellFoundedInduction, TLAPS

Frame == [pc : Labels, wf : WorkflowState, steps : [Steps -> StepRow], cur : 1..(NumSteps + 1)]

(***************************************************************************)
(* Labels at which the frame names a step that exists.                     *)
(***************************************************************************)
AtAStep == {"begin", "exec", "ok", "timedout", "c_undo", "t_save", "s_act", "s_step"}

StepNamed == \A p \in Procs : run[p].pc \in AtAStep => run[p].cur \in Steps

(***************************************************************************)
(* Nobody but startWorkflow's own call ever executes: all others hand      *)
(* executeWorkflow a copy that says RUNNING, and are refused.              *)
(***************************************************************************)
OnlyStart ==
    \A p \in Procs \ {"start"} :
        /\ ~Executing(p)
        /\ run[p].pc \in {"execute", "r_step", "v_act"} => run[p].wf = "RUNNING"

\* Steps from k on are untouched; the steps before k have taken effect.
Ahead(k) == \A j \in Steps : k <= j => effects[j] = 0 /\ j \notin late
Behind(k) == \A j \in Steps : j < k => effects[j] > 0

(***************************************************************************)
(* Where the executor stands tells which operations have taken effect.     *)
(***************************************************************************)
Progress ==
    LET s == run["start"] IN
    /\ s.pc \in {"execute", "load"} => Ahead(1)
    /\ s.pc \in {"next", "begin", "exec"} => Ahead(s.cur) /\ Behind(s.cur)
    /\ s.pc = "ok" => Ahead(s.cur + 1) /\ Behind(s.cur + 1)
    /\ s.pc \in {"load", "next"} => s.wf = "RUNNING"
    /\ s.pc \in {"begin", "exec", "ok"} => s.wf = "RUNNING"

Once == \A i \in Steps : effects[i] + (IF i \in late THEN 1 ELSE 0) <= 1

Ordered == \A i, j \in Steps : (i < j /\ (effects[j] > 0 \/ j \in late)) => effects[i] > 0

CompletedHasAll == wf = "COMPLETED" => \A i \in Steps : effects[i] > 0

IInv == TypeOK /\ StepNamed /\ OnlyStart /\ Progress /\ Once /\ Ordered /\ CompletedHasAll

-----------------------------------------------------------------------------
(***************************************************************************)
(* A non-empty set of naturals has a least element.                        *)
(***************************************************************************)
LEMMA LeastNat ==
    ASSUME NEW T \in SUBSET Nat, T # {}
    PROVE  \E x \in T : \A y \in T : x <= y
<1>1. PICK x \in T : \A y \in T : ~(<<y, x>> \in OpToRel(<, Nat))
  BY NatLessThanWellFounded, WFMin
<1>2. \A y \in T : y < x => <<y, x>> \in OpToRel(<, Nat)
  BY DEF OpToRel
<1>3. \A y \in T : ~(y < x)
  BY <1>1, <1>2, Zenon
<1>4. \A y \in T : x <= y
  BY <1>3
<1> QED
  BY <1>4

(***************************************************************************)
(* compensateWorkflow picks the last step of a non-empty set of steps.     *)
(***************************************************************************)
LEMMA LastStep ==
    ASSUME NEW T \in SUBSET Steps, T # {}
    PROVE  NextToCompensate(T) \in T /\ \A y \in T : y <= NextToCompensate(T)
<1> USE NumStepsAssumption DEF Steps
<1> DEFINE n == NumSteps
           D == {d \in 0..n : n - d \in T}
<1>1. PICK d \in D : \A e \in D : d <= e
  <2>1. D \in SUBSET Nat
    OBVIOUS
  <2>2. PICK x \in T : TRUE
    OBVIOUS
  <2>3. n - x \in D
    <3>1. n - x \in 0..n /\ n - (n - x) = x
      OBVIOUS
    <3> QED
      BY <3>1
  <2> HIDE DEF D
  <2> QED
    BY <2>1, <2>3, LeastNat
<1>2. n - d \in T
  OBVIOUS
<1>3. ASSUME NEW y \in T PROVE n - d >= y
  <2>1. n - y \in 0..n /\ n - (n - y) = y
    OBVIOUS
  <2>2. n - y \in D
    BY <2>1
  <2>3. d <= n - y
    BY <1>1, <2>2
  <2>4. d \in 0..n
    OBVIOUS
  <2> HIDE DEF D
  <2> QED
    BY <2>1, <2>3, <2>4
<1>4. \E x \in T : \A y \in T : x >= y
  BY <1>2, <1>3
<1>5. Max(T) \in T /\ \A y \in T : Max(T) >= y
  BY <1>4 DEF Max
<1> QED
  BY <1>5 DEF NextToCompensate

-----------------------------------------------------------------------------
(* Frames and saves *)

(***************************************************************************)
(* A process that goes on with a well-typed frame leaves the others alone  *)
(* and is where the frame says; one that ends is idle.                     *)
(***************************************************************************)
LEMMA Becoming ==
    ASSUME TypeOK, NEW p \in Procs, NEW f \in Frame, Become(p, f)
    PROVE  /\ run' \in [Procs -> Frame]
           /\ run'[p] = IF f.pc = "idle" THEN Idle ELSE f
           /\ run'[p].pc = f.pc
           /\ \A q \in Procs \ {p} : run'[q] = run[q]
<1>1. Idle \in Frame /\ Idle.pc = "idle"
  BY NumStepsAssumption
     DEF Idle, Frame, FreshSteps, Labels, WorkflowState, StepRow, StepState
<1>2. run \in [Procs -> Frame]
  BY DEF TypeOK, Frame
<1>3. run' = [run EXCEPT ![p] = IF f.pc = "idle" THEN Idle ELSE f]
  BY DEF Become
<1> HIDE DEF Frame, Idle
<1> QED
  BY <1>1, <1>2, <1>3

(***************************************************************************)
(* The frames the handlers build: a label changed, the rows loaded, a step *)
(* of the copy replaced.                                                   *)
(***************************************************************************)
LEMMA Frames ==
    ASSUME TypeOK, NEW p \in Procs, NEW label \in Labels, NEW state \in WorkflowState,
           NEW i \in Steps, NEW row \in StepRow, NEW c \in 1..(NumSteps + 1)
    PROVE  /\ [run[p] EXCEPT !.pc = label] \in Frame
           /\ [run[p] EXCEPT !.pc = label, !.wf = state] \in Frame
           /\ [run[p] EXCEPT !.pc = label, !.steps = steps, !.cur = 1] \in Frame
           /\ [run[p] EXCEPT !.pc = label, !.steps[i] = row, !.cur = c] \in Frame
           /\ Loaded(p, label) \in Frame
           /\ [Loaded(p, label) EXCEPT !.cur = i] \in Frame
<1>1. run[p] \in Frame
  BY DEF TypeOK, Frame
<1>2. i \in 1..(NumSteps + 1) /\ 1 \in 1..(NumSteps + 1)
  BY NumStepsAssumption DEF Steps
<1> QED
  BY <1>1, <1>2 DEF Frame, Loaded, TypeOK

(***************************************************************************)
(* The rows the handlers save.                                             *)
(***************************************************************************)
LEMMA Rows ==
    ASSUME TypeOK, NEW p \in Procs, NEW i \in Steps, NEW state \in StepState
    PROVE  /\ Copy(p, i) \in StepRow
           /\ StepWith(p, i, state) \in StepRow
           /\ RetriedAs(p, i, state) \in StepRow
  BY DEF TypeOK, Copy, StepWith, RetriedAs, StepRow

(***************************************************************************)
(* Saving one step keeps the rows and the frames well typed.               *)
(***************************************************************************)
LEMMA SavingStep ==
    ASSUME TypeOK, NEW p \in Procs, NEW i \in Steps, NEW row \in StepRow,
           NEW label \in Labels, SaveStep(p, i, row, label)
    PROVE  /\ steps' \in [Steps -> StepRow]
           /\ run' \in [Procs -> Frame]
           /\ run'[p].pc = label
           /\ label # "idle" => run'[p].cur = i /\ run'[p].wf = run[p].wf
           /\ \A q \in Procs \ {p} : run'[q] = run[q]
<1> DEFINE f == [run[p] EXCEPT !.pc = label, !.steps[i] = row, !.cur = i]
<1>1. i \in 1..(NumSteps + 1)
  BY NumStepsAssumption DEF Steps
<1>2. f \in Frame
  BY <1>1, Frames DEF WorkflowState
<1>3. Become(p, f) /\ steps' = [steps EXCEPT ![i] = row]
  BY DEF SaveStep
<1>4. f.pc = label /\ f.cur = i /\ f.wf = run[p].wf
  BY DEF TypeOK
<1>5. steps' \in [Steps -> StepRow]
  BY <1>3 DEF TypeOK
<1> HIDE DEF f
<1> QED
  BY <1>2, <1>3, <1>4, <1>5, Becoming

(***************************************************************************)
(* Saving the workflow keeps the rows well typed.                          *)
(***************************************************************************)
LEMMA SavingWorkflow ==
    ASSUME TypeOK, NEW p \in Procs, NEW state \in WorkflowState, SaveWorkflow(p, state)
    PROVE  wf' = state /\ steps' \in [Steps -> StepRow]
  BY DEF TypeOK, SaveWorkflow

(***************************************************************************)
(* A process that only moves on keeps its copies.                          *)
(***************************************************************************)
LEMMA Going ==
    ASSUME TypeOK, NEW p \in Procs, NEW label \in Labels, Goto(p, label)
    PROVE  /\ run' \in [Procs -> Frame]
           /\ run'[p].pc = label
           /\ label # "idle" => run'[p].cur = run[p].cur /\ run'[p].wf = run[p].wf
                                /\ run'[p].steps = run[p].steps
           /\ \A q \in Procs \ {p} : run'[q] = run[q]
<1> DEFINE f == [run[p] EXCEPT !.pc = label]
<1>1. run[p] \in Frame
  BY DEF TypeOK, Frame
<1>2. f \in Frame /\ f.pc = label /\ f.cur = run[p].cur /\ f.wf = run[p].wf
      /\ f.steps = run[p].steps
  BY <1>1 DEF Frame
<1>3. Become(p, f)
  BY DEF Goto
<1> HIDE DEF f
<1> QED
  BY <1>2, <1>3, Becoming

-----------------------------------------------------------------------------
(* Types *)

(***************************************************************************)
(* A step that keeps the rows, the counts and one process's new frame in   *)
(* their types keeps everything typed; the new frame names a step wherever *)
(* its label needs one.                                                    *)
(***************************************************************************)
LEMMA Typed ==
    ASSUME TypeOK, StepNamed, NEW p \in Procs,
           wf' \in WorkflowState, steps' \in [Steps -> StepRow],
           run' \in [Procs -> Frame],
           \A q \in Procs \ {p} : run'[q] = run[q],
           run'[p].pc \in AtAStep => run'[p].cur \in Steps,
           effects' \in [Steps -> Nat], undone' \in [Steps -> Nat], late' \in SUBSET Steps,
           issued' \in SUBSET Procs, crashes' \in Nat
    PROVE  TypeOK' /\ StepNamed'
<1>1. TypeOK'
  BY DEF TypeOK, Frame
<1>2. StepNamed'
  BY DEF StepNamed
<1> QED
  BY <1>1, <1>2

(***************************************************************************)
(* The executor's steps.                                                   *)
(***************************************************************************)
LEMMA ExecutorTypes ==
    ASSUME TypeOK, StepNamed, NEW p \in Procs, ExecutorStep(p)
    PROVE  TypeOK' /\ StepNamed'
<1> DEFINE i == run[p].cur
<1>0. /\ run[p].pc \in AtAStep => i \in Steps
      /\ i \in 1..(NumSteps + 1) /\ run[p].wf \in WorkflowState
  BY DEF TypeOK, StepNamed
<1> USE NumStepsAssumption DEF world, limits, db
<1>1. CASE executeWorkflow(p)
  <2>1. CASE /\ SaveWorkflow(p, "RUNNING")
             /\ Become(p, [run[p] EXCEPT !.pc = "load", !.wf = "RUNNING"])
    <3> DEFINE f == [run[p] EXCEPT !.pc = "load", !.wf = "RUNNING"]
    <3>1. f \in Frame /\ f.pc = "load"
      BY ZenonT(60) DEF TypeOK, Frame, Labels, WorkflowState
    <3>2. Become(p, f)
      BY <2>1
    <3> HIDE DEF f
    <3>3. run' \in [Procs -> Frame] /\ run'[p].pc = "load" /\ \A q \in Procs \ {p} : run'[q] = run[q]
      BY <3>1, <3>2, Becoming
    <3>4. wf' \in WorkflowState /\ steps' \in [Steps -> StepRow]
      BY <2>1, SavingWorkflow DEF WorkflowState
    <3> QED
      BY <1>1, <3>3, <3>4, Typed DEF executeWorkflow, TypeOK, AtAStep
  <2>2. CASE Goto(p, "idle") /\ UNCHANGED db
    <3>1. run' \in [Procs -> Frame] /\ run'[p].pc = "idle" /\ \A q \in Procs \ {p} : run'[q] = run[q]
      BY <2>2, Going DEF Labels
    <3> QED
      BY <1>1, <2>2, <3>1, Typed DEF executeWorkflow, TypeOK, AtAStep
  <2> QED
    BY <1>1, <2>1, <2>2 DEF executeWorkflow
<1>2. CASE LoadSteps(p)
  <2> DEFINE f == [run[p] EXCEPT !.pc = "next", !.steps = steps, !.cur = 1]
  <2>0. run[p] \in Frame /\ 1 \in 1..(NumSteps + 1) /\ steps \in [Steps -> StepRow]
    BY DEF TypeOK, Frame
  <2>1. f \in Frame /\ f.pc = "next"
    BY <2>0 DEF Frame, Labels
  <2>2. Become(p, f)
    BY <1>2 DEF LoadSteps
  <2> HIDE DEF f
  <2>3. run' \in [Procs -> Frame] /\ run'[p].pc = "next" /\ \A q \in Procs \ {p} : run'[q] = run[q]
    BY <2>1, <2>2, Becoming
  <2> QED
    BY <1>2, <2>3, Typed DEF LoadSteps, TypeOK, AtAStep
<1>3. CASE NextStep(p)
  <2>1. PICK state \in WorkflowState, label \in {"begin", "idle"} :
           /\ SaveWorkflow(p, state) /\ Goto(p, label)
           /\ label = "begin" => i \in Steps
    BY <1>0, <1>3 DEF NextStep, WorkflowState
  <2>2. wf' \in WorkflowState /\ steps' \in [Steps -> StepRow]
    BY <2>1, SavingWorkflow
  <2>3. /\ run' \in [Procs -> Frame] /\ run'[p].pc = label
        /\ \A q \in Procs \ {p} : run'[q] = run[q]
        /\ label # "idle" => run'[p].cur = i
    BY <2>1, Going DEF Labels
  <2> QED
    BY <1>3, <2>1, <2>2, <2>3, Typed DEF NextStep, TypeOK, AtAStep
<1>4. CASE BeginStep(p)
  <2>1. i \in Steps
    BY <1>0, <1>4 DEF BeginStep, At, AtAStep
  <2>2. CASE SaveStep(p, i, StepWith(p, i, "RUNNING"), "exec")
    <3>1. StepWith(p, i, "RUNNING") \in StepRow
      BY <2>1, Rows DEF StepState
    <3>2. /\ steps' \in [Steps -> StepRow] /\ run' \in [Procs -> Frame]
          /\ run'[p].cur = i /\ \A q \in Procs \ {p} : run'[q] = run[q]
      BY <2>1, <2>2, <3>1, SavingStep DEF Labels
    <3> QED
      BY <1>4, <2>1, <3>2, Typed DEF BeginStep, TypeOK
  <2>3. CASE Goto(p, "fail") /\ UNCHANGED steps
    <3>1. /\ run' \in [Procs -> Frame] /\ run'[p].pc = "fail"
          /\ \A q \in Procs \ {p} : run'[q] = run[q]
      BY <2>3, Going DEF Labels
    <3> QED
      BY <1>4, <2>3, <3>1, Typed DEF BeginStep, TypeOK, AtAStep
  <2> QED
    BY <1>4, <2>2, <2>3 DEF BeginStep
<1>5. CASE OperationSucceeds(p)
  <2>1. i \in Steps
    BY <1>0, <1>5 DEF OperationSucceeds, At, AtAStep
  <2>2. /\ run' \in [Procs -> Frame] /\ run'[p].cur = i
        /\ \A q \in Procs \ {p} : run'[q] = run[q]
    BY <1>5, Going DEF OperationSucceeds, Labels
  <2>3. effects' \in [Steps -> Nat]
    BY <1>5, <2>1 DEF OperationSucceeds, TypeOK
  <2> QED
    BY <1>5, <2>1, <2>2, <2>3, Typed DEF OperationSucceeds, TypeOK
<1>6. CASE CompleteStep(p)
  <2> DEFINE done == StepWith(p, i, "COMPLETED")
             f == [run[p] EXCEPT !.pc = "next", !.steps[i] = done, !.cur = i + 1]
  <2>1. i \in Steps
    BY <1>0, <1>6 DEF CompleteStep, At, AtAStep
  <2>2. done \in StepRow /\ i + 1 \in 1..(NumSteps + 1)
    BY <2>1, Rows DEF StepState, Steps
  <2>3. Become(p, f) /\ steps' = [steps EXCEPT ![i] = done]
    BY <1>6 DEF CompleteStep
  <2> HIDE DEF done
  <2>4. f \in Frame
    BY <2>1, <2>2, Frames, ZenonT(60) DEF Labels, WorkflowState
  <2>5. f.pc = "next"
    BY DEF TypeOK
  <2>6. steps' \in [Steps -> StepRow]
    BY <2>1, <2>2, <2>3 DEF TypeOK
  <2> HIDE DEF f
  <2>7. run' \in [Procs -> Frame] /\ run'[p].pc = "next" /\ \A q \in Procs \ {p} : run'[q] = run[q]
    BY <2>3, <2>4, <2>5, Becoming
  <2> QED
    BY <1>6, <2>6, <2>7, Typed DEF CompleteStep, TypeOK, AtAStep
<1>7. ASSUME NEW label \in {"begin", "fail", "timedout"},
             At(p, "exec"), SaveStep(p, i, RetriedAs(p, i, "FAILED"), label),
             late' \in SUBSET Steps, UNCHANGED <<wf, effects, undone, limits>>
      PROVE  TypeOK' /\ StepNamed'
  <2>1. i \in Steps
    BY <1>0, <1>7 DEF At, AtAStep
  <2>2. RetriedAs(p, i, "FAILED") \in StepRow
    BY <2>1, Rows DEF StepState
  <2>3. /\ steps' \in [Steps -> StepRow] /\ run' \in [Procs -> Frame]
        /\ run'[p].cur = i /\ \A q \in Procs \ {p} : run'[q] = run[q]
    BY <1>7, <2>1, <2>2, SavingStep DEF Labels
  <2> QED
    BY <1>7, <2>1, <2>3, Typed DEF TypeOK
<1>8. CASE OperationFails(p)
  BY <1>7, <1>8 DEF OperationFails, TypeOK
<1>9. CASE OperationTimesOut(p)
  <2>1. i \in Steps
    BY <1>0, <1>9 DEF OperationTimesOut, At, AtAStep
  <2> QED
    BY <1>7, <1>9, <2>1 DEF OperationTimesOut, TypeOK
<1>10. CASE FailWorkflow(p)
  <2>1. wf' \in WorkflowState /\ steps' \in [Steps -> StepRow]
    BY <1>10, SavingWorkflow DEF FailWorkflow, WorkflowState
  <2>2. run' \in [Procs -> Frame] /\ run'[p].pc = "idle" /\ \A q \in Procs \ {p} : run'[q] = run[q]
    BY <1>10, Going DEF FailWorkflow, Labels
  <2> QED
    BY <1>10, <2>1, <2>2, Typed DEF FailWorkflow, TypeOK, AtAStep
<1> QED
  BY <1>1, <1>2, <1>3, <1>4, <1>5, <1>6, <1>8, <1>9, <1>10 DEF ExecutorStep

(***************************************************************************)
(* A handler that saves one step and nothing else.                         *)
(***************************************************************************)
LEMMA SaveStepTypes ==
    ASSUME TypeOK, StepNamed, NEW p \in Procs, NEW i \in Steps, NEW row \in StepRow,
           NEW label \in Labels, SaveStep(p, i, row, label),
           UNCHANGED <<wf, effects, late, limits>>, undone' \in [Steps -> Nat]
    PROVE  TypeOK' /\ StepNamed'
<1>1. /\ steps' \in [Steps -> StepRow] /\ run' \in [Procs -> Frame] /\ run'[p].pc = label
      /\ label # "idle" => run'[p].cur = i
      /\ \A q \in Procs \ {p} : run'[q] = run[q]
  BY SavingStep
<1> QED
  BY <1>1, Typed DEF TypeOK, AtAStep, limits

(***************************************************************************)
(* A handler that loads the rows into its copy.                            *)
(***************************************************************************)
LEMMA LoadTypes ==
    ASSUME TypeOK, StepNamed, NEW p \in Procs, NEW label \in Labels, NEW i \in Steps,
           \/ Become(p, Loaded(p, label)) /\ label \notin AtAStep
           \/ Become(p, [Loaded(p, label) EXCEPT !.cur = i]),
           UNCHANGED <<db, world, crashes>>, issued' \in SUBSET Procs
    PROVE  TypeOK' /\ StepNamed'
<1> DEFINE f == Loaded(p, label)
           g == [Loaded(p, label) EXCEPT !.cur = i]
<1>1. run[p] \in Frame /\ i \in 1..(NumSteps + 1)
  BY NumStepsAssumption DEF TypeOK, Frame, Steps
<1>2. f \in Frame /\ g \in Frame /\ f.pc = label /\ g.pc = label /\ g.cur = i
  BY <1>1 DEF Loaded, Frame, TypeOK
<1>3. \/ Become(p, f) /\ label \notin AtAStep
      \/ Become(p, g)
  OBVIOUS
<1> HIDE DEF f, g
<1>4. /\ run' \in [Procs -> Frame] /\ run'[p].pc = label
      /\ label \in AtAStep => run'[p].cur = i
      /\ \A q \in Procs \ {p} : run'[q] = run[q]
  BY <1>2, <1>3, Becoming DEF AtAStep
<1> QED
  BY <1>4, Typed DEF TypeOK, db, world

(***************************************************************************)
(* A handler that moves on, having saved the workflow or nothing.          *)
(***************************************************************************)
LEMMA GotoTypes ==
    ASSUME TypeOK, StepNamed, NEW p \in Procs, NEW label \in Labels, Goto(p, label),
           label \in AtAStep => run[p].cur \in Steps,
           wf' \in WorkflowState, steps' \in [Steps -> StepRow],
           UNCHANGED <<world, crashes>>, issued' \in SUBSET Procs
    PROVE  TypeOK' /\ StepNamed'
<1>1. /\ run' \in [Procs -> Frame] /\ run'[p].pc = label
      /\ label # "idle" => run'[p].cur = run[p].cur
      /\ \A q \in Procs \ {p} : run'[q] = run[q]
  BY Going
<1> QED
  BY <1>1, Typed DEF TypeOK, world, AtAStep

(***************************************************************************)
(* The compensators' steps.                                                *)
(***************************************************************************)
LEMMA CompensatorTypes ==
    ASSUME TypeOK, StepNamed, NEW p \in Procs, CompensatorStep(p)
    PROVE  TypeOK' /\ StepNamed'
<1> DEFINE i == run[p].cur
<1>0. /\ run[p].pc \in AtAStep => i \in Steps
      /\ i \in 1..(NumSteps + 1) /\ run[p].wf \in WorkflowState
      /\ run[p].steps \in [Steps -> StepRow]
      /\ 1 \in Steps
  BY NumStepsAssumption DEF TypeOK, StepNamed, Steps
<1>1. CASE compensateWorkflow(p)
  <2>1. issued' \in SUBSET Procs /\ crashes' = crashes /\ UNCHANGED <<db, world>>
    BY <1>1 DEF compensateWorkflow, Request, limits, TypeOK
  <2>2. CASE Become(p, Loaded(p, "c_save"))
    BY <1>0, <2>1, <2>2, LoadTypes DEF Labels, AtAStep
  <2>3. ASSUME NEW label \in {"fail", "idle"}, Goto(p, label)
        PROVE  TypeOK' /\ StepNamed'
    BY <2>1, <2>3, GotoTypes DEF Labels, AtAStep, TypeOK, db
  <2> QED
    BY <1>1, <2>2, <2>3 DEF compensateWorkflow
<1>2. CASE MarkCompensating(p)
  BY <1>0, <1>2, GotoTypes DEF MarkCompensating, Labels, AtAStep, TypeOK, limits, WorkflowState
<1>3. CASE CompensateNext(p)
  <2> DEFINE todo == {j \in Steps \cap Compensable : Copy(p, j).state = "COMPLETED"}
             m == NextToCompensate(todo)
  <2>1. CASE todo # {}
    <3>1. m \in Steps
      BY <2>1, LastStep
    <3>2. SaveStep(p, m, StepWith(p, m, "COMPENSATING"), "c_undo") /\ UNCHANGED <<wf, world, limits>>
      BY <1>3, <2>1 DEF CompensateNext
    <3> HIDE DEF m
    <3>3. StepWith(p, m, "COMPENSATING") \in StepRow
      BY <3>1, Rows DEF StepState
    <3> QED
      BY <3>1, <3>2, <3>3, SaveStepTypes DEF Labels, world, TypeOK
  <2>2. CASE todo = {}
    <3>1. wf' = "COMPENSATED" /\ steps' = run[p].steps /\ Goto(p, "idle") /\ UNCHANGED <<world, limits>>
      BY <1>3, <2>2 DEF CompensateNext
    <3> QED
      BY <1>0, <3>1, GotoTypes DEF Labels, AtAStep, WorkflowState, TypeOK, limits
  <2> QED
    BY <2>1, <2>2
<1>4. CASE CompensateStep(p)
  <2>1. i \in Steps
    BY <1>0, <1>4 DEF CompensateStep, At, AtAStep
  <2>2. StepWith(p, i, "COMPENSATED") \in StepRow
    BY <2>1, Rows DEF StepState
  <2>3. undone' \in [Steps -> Nat]
    BY <1>4, <2>1 DEF CompensateStep, TypeOK
  <2> QED
    BY <1>4, <2>1, <2>2, <2>3, SaveStepTypes DEF CompensateStep, Labels
<1> QED
  BY <1>1, <1>2, <1>3, <1>4 DEF CompensatorStep

(***************************************************************************)
(* Cancel, the retries, the recovery jobs, late operations and restarts.   *)
(***************************************************************************)
LEMMA OtherTypes ==
    ASSUME TypeOK, StepNamed,
           \/ \E i \in Steps : LateOperation(i)
           \/ cancelWorkflow \/ retryWorkflowStep \/ \E p \in Retries : retryWorkflow(p)
           \/ RecoveryJobs \/ Crash
    PROVE  TypeOK' /\ StepNamed'
<1>0. \A p \in Procs :
        /\ run[p].pc \in AtAStep => run[p].cur \in Steps
        /\ run[p].cur \in 1..(NumSteps + 1) /\ run[p].wf \in WorkflowState
        /\ run[p].steps \in [Steps -> StepRow]
        /\ 1 \in Steps
  BY NumStepsAssumption DEF TypeOK, StepNamed, Steps
<1>p. /\ "cancel" \in Procs /\ "stepRetry" \in Procs /\ "recover" \in Procs /\ "stuck" \in Procs
      /\ Retries \subseteq Procs
  BY DEF Procs, Retries
<1>1. ASSUME NEW i \in Steps, LateOperation(i)
      PROVE  TypeOK' /\ StepNamed'
  <2>1. effects' \in [Steps -> Nat]
    BY <1>1 DEF LateOperation, TypeOK
  <2>2. run' = run /\ late' \in SUBSET Steps /\ UNCHANGED <<wf, steps, undone, issued, crashes>>
    BY <1>1 DEF LateOperation, TypeOK, db, limits
  <2> QED
    BY <2>1, <2>2 DEF TypeOK, StepNamed
<1>2. CASE cancelWorkflow
  <2> DEFINE p == "cancel"
  <2>1. CASE /\ Request(p) /\ Goto(p, "x_save") /\ UNCHANGED <<db, world>>
    BY <1>p, <2>1, GotoTypes DEF Request, Labels, AtAStep, TypeOK, db
  <2>2. CASE /\ SaveWorkflow(p, "CANCELLED") /\ Goto(p, "idle") /\ UNCHANGED <<world, limits>>
    <3>1. wf' \in WorkflowState /\ steps' \in [Steps -> StepRow]
      BY <1>p, <2>2, SavingWorkflow DEF WorkflowState
    <3> QED
      BY <1>p, <2>2, <3>1, GotoTypes DEF Labels, AtAStep, TypeOK, limits
  <2> QED
    BY <1>2, <2>1, <2>2 DEF cancelWorkflow
<1>3. CASE retryWorkflowStep
  <2> DEFINE p == "stepRetry"
  <2>1. CASE /\ Request(p)
             /\ \E i \in Steps : Become(p, [Loaded(p, "t_save") EXCEPT !.cur = i])
             /\ UNCHANGED <<db, world>>
    BY <1>p, <2>1, LoadTypes DEF Request, Labels, TypeOK
  <2>2. CASE /\ At(p, "t_save")
             /\ SaveStep(p, run[p].cur, RetriedAs(p, run[p].cur, "PENDING"), "r_load")
             /\ UNCHANGED <<wf, world, limits>>
    <3>1. run[p].cur \in Steps
      BY <1>0, <1>p, <2>2 DEF At, AtAStep
    <3>2. RetriedAs(p, run[p].cur, "PENDING") \in StepRow
      BY <1>p, <3>1, Rows DEF StepState
    <3> QED
      BY <1>p, <2>2, <3>1, <3>2, SaveStepTypes DEF Labels, TypeOK, world
  <2> QED
    BY <1>3, <2>1, <2>2 DEF retryWorkflowStep
<1>4. ASSUME NEW p \in Retries, retryWorkflow(p)
      PROVE  TypeOK' /\ StepNamed'
  <2>0. p \in Procs
    BY <1>p
  <2>1. ASSUME NEW label \in {"r_save", "idle"}, Become(p, Loaded(p, label)),
               Request(p) \/ UNCHANGED limits, UNCHANGED <<db, world>>
        PROVE  TypeOK' /\ StepNamed'
    <3>1. issued' \in SUBSET Procs /\ crashes' = crashes
      BY <2>0, <2>1 DEF Request, TypeOK, limits
    <3> QED
      BY <1>0, <2>0, <2>1, <3>1, LoadTypes DEF Labels, AtAStep
  <2>2. CASE /\ SaveWorkflow(p, "RUNNING")
             /\ Become(p, [run[p] EXCEPT !.pc = "r_step", !.wf = "RUNNING"])
             /\ UNCHANGED <<world, limits>>
    <3> DEFINE f == [run[p] EXCEPT !.pc = "r_step", !.wf = "RUNNING"]
    <3>1. f \in Frame /\ f.pc = "r_step"
      BY <2>0 DEF TypeOK, Frame, Labels, WorkflowState
    <3>2. Become(p, f)
      BY <2>2
    <3> HIDE DEF f
    <3>3. /\ run' \in [Procs -> Frame] /\ run'[p].pc = "r_step"
          /\ \A q \in Procs \ {p} : run'[q] = run[q]
      BY <2>0, <3>1, <3>2, Becoming
    <3>4. wf' \in WorkflowState /\ steps' \in [Steps -> StepRow]
      BY <2>0, <2>2, SavingWorkflow DEF WorkflowState
    <3> QED
      BY <2>0, <2>2, <3>3, <3>4, Typed DEF TypeOK, AtAStep, world, limits
  <2>3. ASSUME NEW i \in Steps, SaveStep(p, i, StepWith(p, i, "PENDING"), "execute"),
               UNCHANGED <<wf, world, limits>>
        PROVE  TypeOK' /\ StepNamed'
    <3>1. StepWith(p, i, "PENDING") \in StepRow
      BY <2>0, Rows DEF StepState
    <3> QED
      BY <2>0, <2>3, <3>1, SaveStepTypes DEF Labels, TypeOK, world
  <2>4. CASE Goto(p, "execute") /\ UNCHANGED <<steps, wf, world, limits>>
    BY <2>0, <2>4, GotoTypes DEF Labels, AtAStep, TypeOK, limits
  <2> QED
    BY <1>4, <2>1, <2>2, <2>3, <2>4 DEF retryWorkflow
<1>5. CASE recoverWorkflow
  <2> DEFINE p == "recover"
  <2>1. CASE Become(p, Loaded(p, "v_act")) /\ UNCHANGED <<db, world, limits>>
    BY <1>0, <1>p, <2>1, LoadTypes DEF Labels, AtAStep, TypeOK, limits
  <2>2. CASE SaveWorkflow(p, "FAILED") /\ Goto(p, "idle") /\ UNCHANGED <<world, limits>>
    <3>1. wf' \in WorkflowState /\ steps' \in [Steps -> StepRow]
      BY <1>p, <2>2, SavingWorkflow DEF WorkflowState
    <3> QED
      BY <1>p, <2>2, <3>1, GotoTypes DEF Labels, AtAStep, TypeOK, limits
  <2>3. CASE Goto(p, "execute") /\ UNCHANGED <<db, world, limits>>
    BY <1>p, <2>3, GotoTypes DEF Labels, AtAStep, TypeOK, limits, db
  <2> QED
    BY <1>5, <2>1, <2>2, <2>3 DEF recoverWorkflow
<1>6. CASE recoverStuckStep
  <2> DEFINE p == "stuck"
             i == run[p].cur
  <2>1. CASE /\ \E j \in Steps : Become(p, [Loaded(p, "s_act") EXCEPT !.cur = j])
             /\ UNCHANGED <<db, world, limits>>
    BY <1>p, <2>1, LoadTypes DEF Labels, TypeOK, limits
  <2>2. CASE /\ At(p, "s_act")
             /\ UNCHANGED db \/ SaveWorkflow(p, "FAILED")
             /\ Goto(p, "s_step") /\ UNCHANGED <<world, limits>>
    <3>1. wf' \in WorkflowState /\ steps' \in [Steps -> StepRow]
      BY <1>p, <2>2, SavingWorkflow DEF WorkflowState, TypeOK, db
    <3>2. i \in Steps
      BY <1>0, <1>p, <2>2 DEF At, AtAStep
    <3> QED
      BY <1>p, <2>2, <3>1, <3>2, GotoTypes DEF Labels, AtAStep, TypeOK, limits
  <2>3. CASE /\ At(p, "s_step") /\ SaveStep(p, i, RetriedAs(p, i, "FAILED"), "idle")
             /\ UNCHANGED <<wf, world, limits>>
    <3>1. i \in Steps
      BY <1>0, <1>p, <2>3 DEF At, AtAStep
    <3>2. RetriedAs(p, i, "FAILED") \in StepRow
      BY <1>p, <3>1, Rows DEF StepState
    <3> QED
      BY <1>p, <2>3, <3>1, <3>2, SaveStepTypes DEF Labels, TypeOK, world
  <2> QED
    BY <1>6, <2>1, <2>2, <2>3 DEF recoverStuckStep
<1>7. CASE Crash
  <2>1. Idle \in Frame /\ Idle.pc = "idle"
    BY NumStepsAssumption
       DEF Idle, Frame, FreshSteps, Labels, WorkflowState, StepRow, StepState
  <2>2. run' \in [Procs -> Frame] /\ \A q \in Procs : run'[q].pc = "idle"
    BY <1>7, <2>1 DEF Crash
  <2>3. late' \in SUBSET Steps
    BY <1>0, <1>7 DEF Crash, TypeOK, At, AtAStep
  <2>4. StepNamed'
    BY <2>2 DEF StepNamed, AtAStep
  <2>5. TypeOK'
    BY <1>7, <2>2, <2>3 DEF Crash, TypeOK, Frame, db
  <2> QED
    BY <2>4, <2>5
<1> QED
  BY <1>1, <1>2, <1>3, <1>4, <1>5, <1>6, <1>7 DEF RecoveryJobs

-----------------------------------------------------------------------------
(* The executor is alone, and its place tells what has taken effect *)

(***************************************************************************)
(* A step of a process that executes nothing and does not say COMPLETED    *)
(* leaves operations and their order alone.                                *)
(***************************************************************************)
LEMMA Bystander ==
    ASSUME IInv, NEW p \in Procs, UNCHANGED <<effects, late>>,
           wf' # "COMPLETED" \/ wf' = wf,
           \A q \in Procs \ {p} : run'[q] = run[q],
           ~Executing(p)',
           p = "start" => run'[p].pc # "execute",
           p # "start" => (run'[p].pc \in {"execute", "r_step", "v_act"} => run'[p].wf = "RUNNING")
    PROVE  (OnlyStart /\ Progress /\ Once /\ Ordered /\ CompletedHasAll)'
<1>0. "start" \in Procs
  BY DEF Procs
<1>1. OnlyStart'
  BY DEF IInv, OnlyStart, Executing
<1>2. Progress'
  <2>1. CASE p = "start"
    BY <1>0, <2>1 DEF Progress, Executing
  <2>2. CASE p # "start"
    <3>1. run'["start"] = run["start"] /\ effects' = effects /\ late' = late
      BY <1>0, <2>2
    <3> QED
      BY <3>1 DEF IInv, Progress, Ahead, Behind
  <2> QED
    BY <2>1, <2>2
<1>3. Once' /\ Ordered'
  BY DEF IInv, Once, Ordered
<1>4. CompletedHasAll'
  BY DEF IInv, CompletedHasAll
<1> QED
  BY <1>1, <1>2, <1>3, <1>4

(***************************************************************************)
(* Steps of the executor while it executes: where it goes and what it does *)
(* to the operation of its step.                                           *)
(***************************************************************************)
LEMMA ExecutorProgress ==
    ASSUME IInv, NEW p \in Procs, ExecutorStep(p)
    PROVE  (OnlyStart /\ Progress /\ Once /\ Ordered /\ CompletedHasAll)'
<1> DEFINE i == run[p].cur
<1> USE DEF At, world, limits, db
<1>0. /\ TypeOK /\ StepNamed /\ OnlyStart /\ Progress /\ Once /\ Ordered /\ CompletedHasAll
      /\ "start" \in Procs /\ p \in Procs
      /\ i \in 1..(NumSteps + 1)
      /\ run[p].pc \in AtAStep => i \in Steps
  BY DEF IInv, Procs, TypeOK, StepNamed
<1>1. CASE p # "start"
  <2>1. executeWorkflow(p) /\ run[p].wf = "RUNNING"
    BY <1>0, <1>1
       DEF OnlyStart, Executing, ExecutorStep, executeWorkflow, LoadSteps, NextStep, BeginStep,
           OperationSucceeds, CompleteStep, OperationFails, OperationTimesOut, FailWorkflow
  <2>2. ~canTransitionWorkflow("RUNNING", "RUNNING")
    BY DEF canTransitionWorkflow, workflowTransitions
  <2>3. Goto(p, "idle") /\ UNCHANGED <<wf, effects, late>>
    BY <2>1, <2>2 DEF executeWorkflow
  <2>4. run'[p].pc = "idle" /\ \A q \in Procs \ {p} : run'[q] = run[q]
    BY <1>0, <2>3, Going DEF Labels
  <2> QED
    BY <1>1, <2>3, <2>4, Bystander DEF Executing
<1>2. CASE p = "start"
  <2>a. ASSUME UNCHANGED <<effects, late>>, \A q \in Procs \ {p} : run'[q] = run[q],
               wf' # "COMPLETED" \/ wf' = wf \/ \A j \in Steps : effects[j] > 0,
               Progress'
        PROVE  (OnlyStart /\ Progress /\ Once /\ Ordered /\ CompletedHasAll)'
    BY <1>0, <1>2, <2>a DEF OnlyStart, Executing, Once, Ordered, CompletedHasAll
  <2>1. CASE executeWorkflow(p)
    <3>1. CASE /\ SaveWorkflow(p, "RUNNING")
               /\ Become(p, [run[p] EXCEPT !.pc = "load", !.wf = "RUNNING"])
      <4> DEFINE f == [run[p] EXCEPT !.pc = "load", !.wf = "RUNNING"]
      <4>1. f \in Frame /\ f.pc = "load" /\ f.wf = "RUNNING"
        BY <1>0 DEF TypeOK, Frame, Labels, WorkflowState
      <4>2. Become(p, f)
        BY <3>1
      <4> HIDE DEF f
      <4>3. run'[p].pc = "load" /\ run'[p].wf = "RUNNING" /\ \A q \in Procs \ {p} : run'[q] = run[q]
        BY <1>0, <4>1, <4>2, Becoming
      <4>4. Ahead(1)'
        BY <1>0, <1>2, <2>1 DEF executeWorkflow, Progress, Ahead
      <4>5. wf' = "RUNNING" /\ UNCHANGED <<effects, late>>
        BY <2>1, <3>1 DEF executeWorkflow, SaveWorkflow
      <4>6. Progress'
        BY <1>2, <4>3, <4>4 DEF Progress
      <4> QED
        BY <2>a, <4>3, <4>5, <4>6
    <3>2. CASE Goto(p, "idle") /\ UNCHANGED db
      <4>1. run'[p].pc = "idle" /\ \A q \in Procs \ {p} : run'[q] = run[q]
        BY <1>0, <3>2, Going DEF Labels
      <4> QED
        BY <1>2, <2>1, <3>2, <4>1, Bystander DEF Executing, executeWorkflow
    <3> QED
      BY <2>1, <3>1, <3>2 DEF executeWorkflow
  <2>2. CASE LoadSteps(p)
    <3> DEFINE f == [run[p] EXCEPT !.pc = "next", !.steps = steps, !.cur = 1]
    <3>0. run[p] \in Frame /\ 1 \in 1..(NumSteps + 1) /\ steps \in [Steps -> StepRow]
      BY <1>0, NumStepsAssumption DEF TypeOK, Frame
    <3>1. f \in Frame /\ f.pc = "next" /\ f.cur = 1 /\ f.wf = run[p].wf
      BY <3>0 DEF Frame, Labels
    <3>2. Become(p, f)
      BY <2>2 DEF LoadSteps
    <3> HIDE DEF f
    <3>3. /\ run'[p].pc = "next" /\ run'[p].cur = 1 /\ run'[p].wf = run[p].wf
          /\ \A q \in Procs \ {p} : run'[q] = run[q]
      BY <1>0, <3>1, <3>2, Becoming
    <3>4. UNCHANGED <<wf, effects, late>>
      BY <2>2 DEF LoadSteps
    <3>5. Ahead(1)' /\ run[p].wf = "RUNNING"
      BY <1>0, <1>2, <2>2, <3>4 DEF LoadSteps, Progress, Ahead
    <3>6. Behind(1)'
      BY DEF Behind, Steps
    <3>7. Progress'
      BY <1>2, <3>3, <3>5, <3>6 DEF Progress
    <3> QED
      BY <2>a, <3>3, <3>4, <3>7
  <2>3. CASE NextStep(p)
    <3>0. Ahead(i) /\ Behind(i) /\ run[p].wf = "RUNNING"
      BY <1>0, <1>2, <2>3 DEF NextStep, Progress
    <3>1. CASE i \in Steps
      <4>1. SaveWorkflow(p, "RUNNING") /\ Goto(p, "begin") /\ UNCHANGED <<effects, late>>
        BY <2>3, <3>0, <3>1 DEF NextStep
      <4>2. /\ run'[p].pc = "begin" /\ run'[p].cur = i /\ run'[p].wf = "RUNNING"
            /\ \A q \in Procs \ {p} : run'[q] = run[q]
        BY <1>0, <3>0, <4>1, Going DEF Labels
      <4>3. wf' = "RUNNING"
        BY <4>1 DEF SaveWorkflow
      <4>4. Progress'
        BY <1>2, <3>0, <4>1, <4>2 DEF Progress, Ahead, Behind
      <4> QED
        BY <2>a, <4>1, <4>2, <4>3, <4>4
    <3>2. CASE i \notin Steps
      <4>1. Goto(p, "idle") /\ UNCHANGED <<effects, late>>
        BY <2>3, <3>2 DEF NextStep
      <4>2. run'[p].pc = "idle" /\ \A q \in Procs \ {p} : run'[q] = run[q]
        BY <1>0, <4>1, Going DEF Labels
      <4>3. i = NumSteps + 1
        BY <1>0, <3>2, NumStepsAssumption DEF Steps
      <4>4. \A j \in Steps : effects[j] > 0
        BY <3>0, <4>3, NumStepsAssumption DEF Behind, Steps
      <4>5. Progress'
        BY <1>2, <4>2 DEF Progress
      <4> QED
        BY <2>a, <4>1, <4>2, <4>4, <4>5
    <3> QED
      BY <3>1, <3>2
  <2>4. CASE BeginStep(p)
    <3>0. i \in Steps /\ Ahead(i) /\ Behind(i) /\ run[p].wf = "RUNNING"
      BY <1>0, <1>2, <2>4 DEF BeginStep, Progress, AtAStep
    <3>1. UNCHANGED <<wf, effects, late>>
      BY <2>4 DEF BeginStep
    <3>2. CASE SaveStep(p, i, StepWith(p, i, "RUNNING"), "exec")
      <4>1. StepWith(p, i, "RUNNING") \in StepRow
        BY <1>0, <3>0, Rows DEF StepState
      <4>2. /\ run'[p].pc = "exec" /\ run'[p].cur = i /\ run'[p].wf = "RUNNING"
            /\ \A q \in Procs \ {p} : run'[q] = run[q]
        BY <1>0, <3>0, <3>2, <4>1, SavingStep DEF Labels
      <4>3. Progress'
        BY <1>2, <3>0, <3>1, <4>2 DEF Progress, Ahead, Behind
      <4> QED
        BY <2>a, <3>1, <4>2, <4>3
    <3>3. CASE Goto(p, "fail")
      <4>1. run'[p].pc = "fail" /\ \A q \in Procs \ {p} : run'[q] = run[q]
        BY <1>0, <3>3, Going DEF Labels
      <4>2. Progress'
        BY <1>2, <4>1 DEF Progress
      <4> QED
        BY <2>a, <3>1, <4>1, <4>2
    <3> QED
      BY <2>4, <3>2, <3>3 DEF BeginStep
  <2>5. CASE OperationSucceeds(p)
    <3>0. i \in Steps /\ Ahead(i) /\ Behind(i) /\ run[p].wf = "RUNNING"
      BY <1>0, <1>2, <2>5 DEF OperationSucceeds, Progress, AtAStep
    <3>1. /\ run'[p].pc = "ok" /\ run'[p].cur = i /\ run'[p].wf = "RUNNING"
          /\ \A q \in Procs \ {p} : run'[q] = run[q]
      BY <1>0, <2>5, <3>0, Going DEF OperationSucceeds, Labels
    <3>2. effects' = [effects EXCEPT ![i] = @ + 1] /\ late' = late /\ wf' = wf
      BY <2>5 DEF OperationSucceeds
    <3>3. effects \in [Steps -> Nat] /\ effects'[i] = 1 /\ i \notin late
      BY <1>0, <3>0, <3>2 DEF TypeOK, Ahead, Steps
    <3>4. \A j \in Steps \ {i} : effects'[j] = effects[j]
      BY <3>2, <3>3
    <3>5. OnlyStart'
      BY <1>0, <1>2, <3>1 DEF OnlyStart, Executing
    <3>6. Ahead(i + 1)' /\ Behind(i + 1)'
      BY <3>0, <3>1, <3>2, <3>3, <3>4 DEF Ahead, Behind, Steps
    <3>7. Progress'
      BY <1>2, <3>1, <3>6 DEF Progress
    <3>8. Once'
      BY <1>0, <3>2, <3>3, <3>4 DEF Once
    <3>9. Ordered'
      <4> SUFFICES ASSUME NEW j \in Steps, NEW k \in Steps, j < k, effects'[k] > 0 \/ k \in late'
                   PROVE  effects'[j] > 0
        BY DEF Ordered
      <4>1. CASE j = i
        BY <3>3, <4>1
      <4>2. CASE j # i /\ k = i
        BY <3>0, <3>4, <4>2 DEF Behind
      <4>3. CASE j # i /\ k # i
        BY <1>0, <3>2, <3>4, <4>3 DEF Ordered
      <4> QED
        BY <4>1, <4>2, <4>3
    <3>10. CompletedHasAll'
      BY <1>0, <3>2, <3>3, <3>4 DEF CompletedHasAll
    <3> QED
      BY <3>5, <3>7, <3>8, <3>9, <3>10
  <2>6. CASE CompleteStep(p)
    <3> DEFINE done == StepWith(p, i, "COMPLETED")
               f == [run[p] EXCEPT !.pc = "next", !.steps[i] = done, !.cur = i + 1]
    <3>0. i \in Steps /\ Ahead(i + 1) /\ Behind(i + 1) /\ run[p].wf = "RUNNING"
      BY <1>0, <1>2, <2>6 DEF CompleteStep, Progress, AtAStep
    <3>1. done \in StepRow /\ i + 1 \in 1..(NumSteps + 1)
      BY <1>0, <3>0, NumStepsAssumption, Rows DEF StepState, Steps
    <3>2. Become(p, f) /\ UNCHANGED <<wf, effects, late>>
      BY <2>6 DEF CompleteStep
    <3> HIDE DEF done
    <3>3. f \in Frame
      BY <1>0, <3>0, <3>1, Frames, ZenonT(60) DEF Labels, WorkflowState
    <3>4. f.pc = "next" /\ f.cur = i + 1 /\ f.wf = run[p].wf
      BY <1>0 DEF TypeOK
    <3> HIDE DEF f
    <3>5. /\ run'[p].pc = "next" /\ run'[p].cur = i + 1 /\ run'[p].wf = "RUNNING"
          /\ \A q \in Procs \ {p} : run'[q] = run[q]
      BY <1>0, <3>0, <3>2, <3>3, <3>4, Becoming
    <3>6. Progress'
      BY <1>2, <3>0, <3>2, <3>5 DEF Progress, Ahead, Behind
    <3> QED
      BY <2>a, <3>2, <3>5, <3>6
  <2>7. CASE OperationFails(p)
    <3>0. i \in Steps /\ Ahead(i) /\ Behind(i) /\ run[p].wf = "RUNNING"
      BY <1>0, <1>2, <2>7 DEF OperationFails, Progress, AtAStep
    <3>1. PICK label \in {"begin", "fail"} : SaveStep(p, i, RetriedAs(p, i, "FAILED"), label)
      BY <2>7 DEF OperationFails
    <3>2. RetriedAs(p, i, "FAILED") \in StepRow
      BY <1>0, <3>0, Rows DEF StepState
    <3>3. /\ run'[p].pc = label /\ run'[p].cur = i /\ run'[p].wf = "RUNNING"
          /\ \A q \in Procs \ {p} : run'[q] = run[q]
      BY <1>0, <3>0, <3>1, <3>2, SavingStep DEF Labels
    <3>4. UNCHANGED <<wf, effects, late>>
      BY <2>7 DEF OperationFails
    <3>5. Progress'
      BY <1>2, <3>0, <3>3, <3>4 DEF Progress, Ahead, Behind
    <3> QED
      BY <2>a, <3>3, <3>4, <3>5
  <2>8. CASE OperationTimesOut(p)
    <3>0. i \in Steps /\ Ahead(i) /\ Behind(i)
      BY <1>0, <1>2, <2>8 DEF OperationTimesOut, Progress, AtAStep
    <3>1. SaveStep(p, i, RetriedAs(p, i, "FAILED"), "timedout") /\ RetriedAs(p, i, "FAILED") \in StepRow
      BY <1>0, <2>8, <3>0, Rows DEF OperationTimesOut, StepState
    <3>2. run'[p].pc = "timedout" /\ \A q \in Procs \ {p} : run'[q] = run[q]
      BY <1>0, <3>0, <3>1, SavingStep DEF Labels
    <3>3. late' = late \cup {i} /\ effects' = effects /\ wf' = wf
      BY <2>8 DEF OperationTimesOut
    <3>4. OnlyStart' /\ Progress'
      BY <1>0, <1>2, <3>2 DEF OnlyStart, Executing, Progress
    <3>5. Once'
      BY <1>0, <3>0, <3>3 DEF Once, Ahead, Steps
    <3>6. Ordered'
      BY <1>0, <3>0, <3>3 DEF Ordered, Behind
    <3>7. CompletedHasAll'
      BY <1>0, <3>3 DEF CompletedHasAll
    <3> QED
      BY <3>4, <3>5, <3>6, <3>7
  <2>9. CASE FailWorkflow(p)
    <3>1. run'[p].pc = "idle" /\ \A q \in Procs \ {p} : run'[q] = run[q]
      BY <1>0, <2>9, Going DEF FailWorkflow, Labels
    <3> QED
      BY <1>2, <2>9, <3>1, Bystander DEF FailWorkflow, SaveWorkflow, Executing
  <2> QED
    BY <2>1, <2>2, <2>3, <2>4, <2>5, <2>6, <2>7, <2>8, <2>9 DEF ExecutorStep
<1> QED
  BY <1>1, <1>2

(***************************************************************************)
(* Compensation executes nothing.                                          *)
(***************************************************************************)
LEMMA CompensatorProgress ==
    ASSUME IInv, NEW p \in Procs, CompensatorStep(p)
    PROVE  (OnlyStart /\ Progress /\ Once /\ Ordered /\ CompletedHasAll)'
<1> DEFINE i == run[p].cur
<1> USE DEF world, db
<1>0. TypeOK /\ OnlyStart /\ (run[p].pc \in AtAStep => i \in Steps) /\ NumSteps \in Nat \ {0}
  BY NumStepsAssumption DEF IInv, StepNamed
<1>1. UNCHANGED <<effects, late>> /\ (wf' # "COMPLETED" \/ wf' = wf)
  BY DEF CompensatorStep, compensateWorkflow, MarkCompensating, CompensateNext, CompensateStep
<1>2. /\ \A q \in Procs \ {p} : run'[q] = run[q]
      /\ run'[p].pc \in {"c_save", "c_next", "c_undo", "idle"}
         \/ (run'[p].pc = "fail" /\ p = "start")
  <2>1. CASE compensateWorkflow(p)
    <3>1. CASE Become(p, Loaded(p, "c_save"))
      <4> DEFINE f == Loaded(p, "c_save")
      <4>1. f \in Frame /\ f.pc = "c_save"
        BY <1>0, ZenonT(60) DEF Loaded, TypeOK, Frame, Labels
      <4>2. Become(p, f)
        BY <3>1
      <4> HIDE DEF f
      <4> QED
        BY <1>0, <4>1, <4>2, Becoming
    <3>2. CASE Goto(p, IF At(p, "timedout") THEN "fail" ELSE "idle")
      <4>1. At(p, "timedout") => p = "start"
        BY <1>0 DEF OnlyStart, Executing, At
      <4>2. PICK label \in {"fail", "idle"} : Goto(p, label) /\ (label = "fail" => p = "start")
        BY <3>2, <4>1
      <4> QED
        BY <1>0, <4>2, Going DEF Labels
    <3> QED
      BY <2>1, <3>1, <3>2 DEF compensateWorkflow
  <2>2. CASE MarkCompensating(p)
    BY <1>0, <2>2, Going DEF MarkCompensating, Labels
  <2>3. CASE CompensateNext(p)
    <3> DEFINE todo == {j \in Steps \cap Compensable : Copy(p, j).state = "COMPLETED"}
               m == NextToCompensate(todo)
    <3>1. CASE todo # {}
      <4>1. m \in Steps
        BY <3>1, LastStep
      <4>2. SaveStep(p, m, StepWith(p, m, "COMPENSATING"), "c_undo")
        BY <2>3, <3>1 DEF CompensateNext
      <4> HIDE DEF m
      <4>3. StepWith(p, m, "COMPENSATING") \in StepRow
        BY <1>0, <4>1, Rows DEF StepState
      <4> QED
        BY <1>0, <4>1, <4>2, <4>3, SavingStep DEF Labels
    <3>2. CASE todo = {}
      <4>1. Goto(p, "idle")
        BY <2>3, <3>2 DEF CompensateNext
      <4> QED
        BY <1>0, <4>1, Going DEF Labels
    <3> QED
      BY <3>1, <3>2
  <2>4. CASE CompensateStep(p)
    <3>1. i \in Steps
      BY <1>0, <2>4 DEF CompensateStep, At, AtAStep
    <3>2. StepWith(p, i, "COMPENSATED") \in StepRow
      BY <1>0, <3>1, Rows DEF StepState
    <3> QED
      BY <1>0, <2>4, <3>1, <3>2, SavingStep DEF CompensateStep, Labels
  <2> QED
    BY <2>1, <2>2, <2>3, <2>4 DEF CompensatorStep
<1>3. CASE run'[p].pc = "fail" /\ p = "start"
  <2>2. OnlyStart'
    BY <1>0, <1>2, <1>3 DEF OnlyStart, Executing
  <2>3. Progress'
    BY <1>3 DEF Progress
  <2> QED
    BY <1>1, <2>2, <2>3 DEF IInv, Once, Ordered, CompletedHasAll
<1>4. CASE run'[p].pc \in {"c_save", "c_next", "c_undo", "idle"}
  BY <1>1, <1>2, <1>4, Bystander DEF Executing
<1> QED
  BY <1>2, <1>3, <1>4

(***************************************************************************)
(* Neither do the other admin calls and jobs; a late operation is one that *)
(* has not taken effect yet, and a restart makes the one under way late.   *)
(***************************************************************************)
LEMMA OtherProgress ==
    ASSUME IInv,
           \/ \E i \in Steps : LateOperation(i)
           \/ cancelWorkflow \/ retryWorkflowStep \/ \E p \in Retries : retryWorkflow(p)
           \/ RecoveryJobs \/ Crash
    PROVE  (OnlyStart /\ Progress /\ Once /\ Ordered /\ CompletedHasAll)'
<1> USE DEF world, db
<1>0. /\ TypeOK /\ OnlyStart /\ Progress /\ Once /\ Ordered /\ CompletedHasAll
      /\ \A p \in Procs : run[p].pc \in AtAStep => run[p].cur \in Steps
  BY DEF IInv, StepNamed
<1>p. /\ "cancel" \in Procs /\ "stepRetry" \in Procs /\ "recover" \in Procs /\ "stuck" \in Procs
      /\ Retries \subseteq Procs \ {"start"} /\ "start" \in Procs
  BY DEF Procs, Retries
<1>g. ASSUME NEW p \in Procs \ {"start"}, UNCHANGED <<effects, late>>,
             wf' # "COMPLETED" \/ wf' = wf,
             NEW label \in Labels, Goto(p, label), ~(label = "execute"), label \notin {"r_step", "v_act"},
             label \notin {"load", "next", "begin", "exec", "ok", "timedout", "fail"}
      PROVE  (OnlyStart /\ Progress /\ Once /\ Ordered /\ CompletedHasAll)'
  <2>1. run'[p].pc = label /\ \A q \in Procs \ {p} : run'[q] = run[q]
    BY <1>0, <1>g, Going
  <2> QED
    BY <1>g, <2>1, Bystander DEF Executing
<1>s. ASSUME NEW p \in Procs \ {"start"}, UNCHANGED <<effects, late, wf>>, NEW i \in Steps,
             NEW state \in StepState, NEW label \in {"r_load", "idle", "execute"},
             \/ SaveStep(p, i, RetriedAs(p, i, state), label)
             \/ SaveStep(p, i, StepWith(p, i, state), label),
             label = "execute" => run[p].wf = "RUNNING"
      PROVE  (OnlyStart /\ Progress /\ Once /\ Ordered /\ CompletedHasAll)'
  <2>1. RetriedAs(p, i, state) \in StepRow /\ StepWith(p, i, state) \in StepRow
    BY <1>0, Rows
  <2>2. /\ run'[p].pc = label /\ \A q \in Procs \ {p} : run'[q] = run[q]
        /\ label # "idle" => run'[p].wf = run[p].wf
    BY <1>0, <1>s, <2>1, SavingStep DEF Labels
  <2> QED
    BY <1>s, <2>2, Bystander DEF Executing
<1>l. ASSUME NEW p \in Procs \ {"start"}, NEW label \in {"t_save", "s_act", "r_save", "idle", "v_act"},
             NEW i \in Steps,
             \/ Become(p, Loaded(p, label))
             \/ Become(p, [Loaded(p, label) EXCEPT !.cur = i]),
             label = "v_act" => wf = "RUNNING",
             UNCHANGED <<effects, late, wf>>
      PROVE  (OnlyStart /\ Progress /\ Once /\ Ordered /\ CompletedHasAll)'
  <2> DEFINE f == Loaded(p, label)
             g == [Loaded(p, label) EXCEPT !.cur = i]
  <2>0. run[p] \in Frame /\ i \in 1..(NumSteps + 1) /\ label \in Labels
    BY <1>0, NumStepsAssumption DEF TypeOK, Frame, Steps, Labels
  <2>1. f \in Frame /\ g \in Frame /\ f.pc = label /\ g.pc = label /\ f.wf = wf /\ g.wf = wf
    BY <1>0, <2>0 DEF Loaded, Frame, TypeOK
  <2>2. Become(p, f) \/ Become(p, g)
    BY <1>l
  <2> HIDE DEF f, g
  <2>3. /\ run'[p].pc = label /\ \A q \in Procs \ {p} : run'[q] = run[q]
        /\ label = "v_act" => run'[p].wf = wf
    BY <1>0, <2>1, <2>2, Becoming
  <2> QED
    BY <1>l, <2>3, Bystander DEF Executing
<1>1. ASSUME NEW i \in Steps, LateOperation(i)
      PROVE  (OnlyStart /\ Progress /\ Once /\ Ordered /\ CompletedHasAll)'
  <2>1. i \in late /\ late' = late \ {i} /\ run' = run /\ wf' = wf
    BY <1>1 DEF LateOperation
  <2>2. effects \in [Steps -> Nat] /\ effects[i] = 0
    BY <1>0, <2>1 DEF Once, TypeOK
  <2>3. /\ effects'[i] \in {0, 1}
        /\ \A j \in Steps \ {i} : effects'[j] = effects[j]
    BY <1>1, <2>2 DEF LateOperation
  <2>4. OnlyStart'
    BY <1>0, <2>1 DEF OnlyStart, Executing
  <2>5. Progress'
    <3>1. \A k \in Int : Ahead(k) => Ahead(k)' /\ (Behind(k) => Behind(k)')
      BY <2>1, <2>2, <2>3 DEF Ahead, Behind
    <3>2. run["start"].cur \in Int /\ run["start"].cur + 1 \in Int /\ 1 \in Int
      BY <1>0, <1>p, NumStepsAssumption DEF TypeOK
    <3> QED
      BY <1>0, <2>1, <3>1, <3>2 DEF Progress
  <2>6. Once'
    BY <1>0, <2>1, <2>2, <2>3 DEF Once
  <2>7. Ordered'
    <3> SUFFICES ASSUME NEW j \in Steps, NEW k \in Steps, j < k, effects'[k] > 0 \/ k \in late'
                 PROVE  effects'[j] > 0
      BY DEF Ordered
    <3>1. effects[j] > 0
      BY <1>0, <2>1, <2>3 DEF Ordered
    <3> QED
      BY <2>2, <2>3, <3>1
  <2>8. CompletedHasAll'
    BY <1>0, <2>1, <2>2, <2>3 DEF CompletedHasAll
  <2> QED
    BY <2>4, <2>5, <2>6, <2>7, <2>8
<1>2. CASE cancelWorkflow
  BY <1>2, <1>g, <1>p DEF cancelWorkflow, Request, SaveWorkflow, Labels
<1>3. CASE retryWorkflowStep
  BY <1>0, <1>3, <1>l, <1>s, <1>p DEF retryWorkflowStep, StepState, At, AtAStep
<1>4. ASSUME NEW p \in Retries, retryWorkflow(p)
      PROVE  (OnlyStart /\ Progress /\ Once /\ Ordered /\ CompletedHasAll)'
  <2>0. p \in Procs \ {"start"} /\ 1 \in Steps
    BY <1>p, NumStepsAssumption DEF Steps
  <2>1. ASSUME NEW label \in {"r_save", "idle"}, Become(p, Loaded(p, label)), UNCHANGED <<db, world>>
        PROVE  (OnlyStart /\ Progress /\ Once /\ Ordered /\ CompletedHasAll)'
    BY <1>l, <2>0, <2>1
  <2>2. CASE /\ SaveWorkflow(p, "RUNNING")
             /\ Become(p, [run[p] EXCEPT !.pc = "r_step", !.wf = "RUNNING"])
             /\ UNCHANGED <<world, limits>>
    <3> DEFINE f == [run[p] EXCEPT !.pc = "r_step", !.wf = "RUNNING"]
    <3>1. f \in Frame /\ f.pc = "r_step" /\ f.wf = "RUNNING"
      BY <1>0, <2>0 DEF TypeOK, Frame, Labels, WorkflowState
    <3>2. Become(p, f)
      BY <2>2
    <3> HIDE DEF f
    <3>3. /\ run'[p].pc = "r_step" /\ run'[p].wf = "RUNNING"
          /\ \A q \in Procs \ {p} : run'[q] = run[q]
      BY <1>0, <2>0, <3>1, <3>2, Becoming
    <3> QED
      BY <2>0, <2>2, <3>3, Bystander DEF Executing, SaveWorkflow
  <2>3. ASSUME NEW i \in Steps, At(p, "r_step"), SaveStep(p, i, StepWith(p, i, "PENDING"), "execute"),
               UNCHANGED <<wf, world, limits>>
        PROVE  (OnlyStart /\ Progress /\ Once /\ Ordered /\ CompletedHasAll)'
    BY <1>0, <1>s, <2>0, <2>3 DEF OnlyStart, At, StepState
  <2>4. CASE At(p, "r_step") /\ Goto(p, "execute") /\ UNCHANGED <<steps, wf, world, limits>>
    <3>1. /\ run'[p].pc = "execute" /\ run'[p].wf = run[p].wf
          /\ \A q \in Procs \ {p} : run'[q] = run[q]
      BY <1>0, <2>0, <2>4, Going DEF Labels
    <3>2. run[p].wf = "RUNNING"
      BY <1>0, <2>0, <2>4 DEF OnlyStart, At
    <3> QED
      BY <2>0, <2>4, <3>1, <3>2, Bystander DEF Executing
  <2> QED
    BY <1>4, <2>1, <2>2, <2>3, <2>4 DEF retryWorkflow
<1>5. CASE recoverWorkflow
  <2> DEFINE p == "recover"
  <2>1. CASE wf = "RUNNING" /\ Become(p, Loaded(p, "v_act")) /\ UNCHANGED <<db, world, limits>>
    <3>1. 1 \in Steps
      BY NumStepsAssumption DEF Steps
    <3> QED
      BY <1>l, <1>p, <2>1, <3>1
  <2>2. CASE SaveWorkflow(p, "FAILED") /\ Goto(p, "idle") /\ UNCHANGED <<world, limits>>
    BY <1>g, <1>p, <2>2 DEF SaveWorkflow, Labels
  <2>3. CASE At(p, "v_act") /\ Goto(p, "execute") /\ UNCHANGED <<db, world, limits>>
    <3>1. /\ run'[p].pc = "execute" /\ run'[p].wf = run[p].wf
          /\ \A q \in Procs \ {p} : run'[q] = run[q]
      BY <1>0, <1>p, <2>3, Going DEF Labels
    <3>2. run[p].wf = "RUNNING"
      BY <1>0, <1>p, <2>3 DEF OnlyStart, At
    <3> QED
      BY <1>p, <2>3, <3>1, <3>2, Bystander DEF Executing
  <2> QED
    BY <1>5, <2>1, <2>2, <2>3 DEF recoverWorkflow
<1>6. CASE recoverStuckStep
  <2> DEFINE p == "stuck"
             i == run[p].cur
  <2>1. CASE /\ \E j \in Steps : Become(p, [Loaded(p, "s_act") EXCEPT !.cur = j])
             /\ UNCHANGED <<db, world, limits>>
    BY <1>l, <1>p, <2>1
  <2>2. CASE /\ UNCHANGED db \/ SaveWorkflow(p, "FAILED")
             /\ Goto(p, "s_step") /\ UNCHANGED <<world, limits>>
    BY <1>g, <1>p, <2>2 DEF SaveWorkflow, Labels
  <2>3. CASE /\ At(p, "s_step") /\ SaveStep(p, i, RetriedAs(p, i, "FAILED"), "idle")
             /\ UNCHANGED <<wf, world, limits>>
    BY <1>0, <1>s, <1>p, <2>3 DEF StepState, At, AtAStep
  <2> QED
    BY <1>6, <2>1, <2>2, <2>3 DEF recoverStuckStep
<1>7. CASE Crash
  <2>1. \A q \in Procs : run'[q].pc = "idle"
    BY <1>7 DEF Crash, Idle
  <2>2. OnlyStart' /\ Progress'
    BY <1>p, <2>1 DEF OnlyStart, Executing, Progress
  <2>3. /\ effects' = effects /\ wf' = wf
        /\ \A j \in late' : j \in late \/ (At("start", "exec") /\ j = run["start"].cur)
    BY <1>0, <1>7 DEF Crash, OnlyStart, Executing, At
  <2>4. At("start", "exec") => Ahead(run["start"].cur) /\ Behind(run["start"].cur)
                               /\ run["start"].cur \in Steps
    BY <1>0, <1>p DEF Progress, At, AtAStep
  <2>5. late \subseteq late' /\ effects \in [Steps -> Nat]
    BY <1>0, <1>7 DEF Crash, TypeOK
  <2>6. Once'
    BY <1>0, <2>3, <2>4, <2>5 DEF Once, Ahead, Steps
  <2>7. Ordered'
    BY <1>0, <2>3, <2>4 DEF Ordered, Behind
  <2>8. CompletedHasAll'
    BY <1>0, <2>3 DEF CompletedHasAll
  <2> QED
    BY <2>2, <2>6, <2>7, <2>8
<1> QED
  BY <1>1, <1>2, <1>3, <1>4, <1>5, <1>6, <1>7 DEF RecoveryJobs

-----------------------------------------------------------------------------
(***************************************************************************)
(* The invariant holds in every state of the workflow.                     *)
(***************************************************************************)
THEOREM WorkflowInvariance == Spec => []IInv
<1>1. Init => IInv
  <2> SUFFICES ASSUME Init PROVE IInv
    OBVIOUS
  <2>1. \A p \in Procs : run[p].pc \in {"execute", "idle"} /\ (run[p].pc = "execute" => p = "start")
    BY DEF Init, Idle
  <2>2. TypeOK
    <3>1. Idle \in Frame /\ [Idle EXCEPT !.pc = "execute"] \in Frame /\ FreshSteps \in [Steps -> StepRow]
      BY NumStepsAssumption
         DEF Idle, Frame, FreshSteps, Labels, WorkflowState, StepRow, StepState
    <3> HIDE DEF Frame, Idle
    <3>2. run \in [Procs -> Frame]
      BY <3>1 DEF Init
    <3>3. effects \in [Steps -> Nat] /\ undone \in [Steps -> Nat]
      BY DEF Init
    <3> QED
      BY <3>1, <3>2, <3>3 DEF Init, TypeOK, Frame, WorkflowState
  <2>3. StepNamed /\ OnlyStart
    BY <2>1 DEF StepNamed, AtAStep, OnlyStart, Executing
  <2>4. "start" \in Procs
    BY DEF Procs
  <2>5. wf = "PENDING" /\ late = {} /\ \A i \in Steps : effects[i] = 0
    BY DEF Init
  <2>6. Ahead(1) /\ Once /\ Ordered /\ CompletedHasAll
    BY <2>5 DEF Ahead, Once, Ordered, CompletedHasAll
  <2>7. Progress
    BY <2>1, <2>4, <2>6 DEF Progress
  <2> QED
    BY <2>2, <2>3, <2>6, <2>7 DEF IInv
<1>2. IInv /\ [Next]_vars => IInv'
  <2> SUFFICES ASSUME IInv, [Next]_vars PROVE IInv'
    OBVIOUS
  <2>1. ASSUME NEW p \in Procs, ExecutorStep(p) PROVE IInv'
    BY <2>1, ExecutorTypes, ExecutorProgress DEF IInv
  <2>2. ASSUME NEW p \in Procs, CompensatorStep(p) PROVE IInv'
    BY <2>2, CompensatorTypes, CompensatorProgress DEF IInv
  <2>3. ASSUME \/ \E i \in Steps : LateOperation(i)
               \/ cancelWorkflow \/ retryWorkflowStep \/ \E p \in Retries : retryWorkflow(p)
               \/ RecoveryJobs \/ Crash
        PROVE  IInv'
    BY <2>3, OtherTypes, OtherProgress DEF IInv
  <2>4. CASE UNCHANGED vars
    BY <2>4 DEF vars, IInv, TypeOK, StepNamed, OnlyStart, Executing, Progress, Ahead, Behind,
                Once, Ordered, CompletedHasAll
  <2> QED
    BY <2>1, <2>2, <2>3, <2>4 DEF Next
<1> QED
  BY <1>1, <1>2, PTL DEF Spec

(***************************************************************************)
(* At most one process executes the steps of a workflow and no operation   *)
(* takes effect twice, whatever administrators, recovery jobs, timeouts    *)
(* and restarts do (executeWorkflow, retryWorkflow, recoverWorkflow).      *)
(***************************************************************************)
THEOREM EffectsHappenOnce == Spec => []EffectAtMostOnce
<1>1. IInv => EffectAtMostOnce
  BY DEF IInv, OnlyStart, Once, EffectAtMostOnce
<1> QED
  BY <1>1, WorkflowInvariance, PTL

(***************************************************************************)
(* A workflow says COMPLETED only when every operation has taken effect,   *)
(* and operations take effect in the order of the steps (executeSteps).    *)
(***************************************************************************)
THEOREM CompletionIsReal == Spec => []CompletedIsReal
<1>1. IInv => CompletedIsReal
  BY DEF IInv, Ordered, CompletedHasAll, CompletedIsReal
<1> QED
  BY <1>1, WorkflowInvariance, PTL

-----------------------------------------------------------------------------
(***************************************************************************)
(* Compensation, in the scenario without timeouts, restarts, cancels and   *)
(* retries of single steps.  The executor is done before anybody           *)
(* compensates or retries, and whoever does has loaded the rows as the     *)
(* executor left them.                                                     *)
(***************************************************************************)
Settlers == {"comp1", "comp2", "retry"}
Undoing == {"c_save", "c_next", "c_undo"}
AtRest == {"COMPLETED", "FAILED", "CANCELLED"}
UnderSettlement == {"RUNNING", "COMPENSATING", "COMPENSATED"}

\* Nobody else takes part.
Calm ==
    /\ late = {} /\ crashes = 0
    /\ \A p \in Procs \ ({"start"} \cup Settlers) : run[p] = Idle
    /\ \A p \in Procs : run[p].pc # "timedout"
    /\ run["retry"].pc \notin Undoing /\ run["start"].pc \notin Undoing

\* The executor has the rows for itself, and nothing is undone meanwhile.
ExecutorFirst ==
    Running("start") => /\ wf \in {"PENDING", "RUNNING"}
                        /\ \A p \in Settlers : ~Running(p)
                        /\ \A i \in Steps : undone[i] = 0

\* What took effect is marked as completed, until somebody changes the rows;
\* who has begun to change them has first changed the workflow's state.
EffectsMarked ==
    (Running("start") \/ wf \in AtRest)
        => \A j \in Steps : effects[j] > 0
               => steps[j].state = "COMPLETED" \/ (At("start", "ok") /\ j = run["start"].cur)

Announced ==
    \A p \in Settlers : run[p].pc \in {"c_next", "c_undo", "r_step"} => wf \in UnderSettlement

\* A compensation has undone what it no longer has to undo, the last step first.
Undoes(p) ==
    /\ \A j \in Steps \cap Compensable : effects[j] > 0
          => \/ Copy(p, j).state = "COMPLETED" \/ undone[j] > 0
             \/ At(p, "c_undo") /\ j = run[p].cur
    /\ At(p, "c_undo") => \A j \in Steps \cap Compensable :
                              run[p].cur < j /\ effects[j] > 0 => undone[j] > 0

Settling == \A p \in Settlers : run[p].pc \in Undoing => Undoes(p)

\* An undone step has the steps after it undone.
Backwards ==
    \A i, j \in Steps \cap Compensable : (i < j /\ undone[i] > 0 /\ effects[j] > 0) => undone[j] > 0

AllUndone == \A i \in Steps \cap Compensable : effects[i] > 0 => undone[i] > 0
Clean == wf = "COMPENSATED" => AllUndone

UndoInv ==
    Calm /\ ExecutorFirst /\ EffectsMarked /\ Announced /\ Settling /\ Backwards /\ Clean

(***************************************************************************)
(* Saving one step leaves the other steps of the copy as they are.         *)
(***************************************************************************)
LEMMA SavedCopy ==
    ASSUME TypeOK, NEW p \in Procs, NEW i \in Steps, NEW row \in StepRow,
           NEW label \in Labels \ {"idle"}, SaveStep(p, i, row, label)
    PROVE  \A j \in Steps \ {i} : run'[p].steps[j] = run[p].steps[j]
<1> DEFINE f == [run[p] EXCEPT !.pc = label, !.steps[i] = row, !.cur = i]
<1>0. run[p] \in Frame /\ i \in 1..(NumSteps + 1)
  BY NumStepsAssumption DEF TypeOK, Frame, Steps
<1>1. f \in Frame /\ f.pc = label /\ \A j \in Steps \ {i} : f.steps[j] = run[p].steps[j]
  BY <1>0 DEF Frame
<1>2. Become(p, f)
  BY DEF SaveStep
<1> HIDE DEF f
<1>3. run'[p] = f
  BY <1>1, <1>2, Becoming
<1> QED
  BY <1>1, <1>3

(***************************************************************************)
(* A step of somebody who settles the workflow keeps the invariant, when   *)
(* it leaves the rows alone while the executor runs, announces itself      *)
(* before it changes them otherwise, and keeps what a compensation owes.   *)
(***************************************************************************)
LEMMA SettlerKeeps ==
    ASSUME TypeOK, UndoInv, Calm', NEW p \in Settlers,
           \A q \in Procs \ {p} : run'[q] = run[q],
           effects' = effects,
           undone' \in [Steps -> Nat], \A j \in Steps : undone'[j] >= undone[j],
           Running("start") => run'[p].pc = "idle" /\ wf' = wf /\ steps' = steps /\ undone' = undone,
           (wf' = wf /\ steps' = steps) \/ wf' \in UnderSettlement,
           run'[p].pc \in {"c_next", "c_undo", "r_step"} => wf' \in UnderSettlement,
           run'[p].pc \in Undoing => Undoes(p)',
           Backwards',
           wf' = "COMPENSATED" => wf = "COMPENSATED" \/ AllUndone'
    PROVE  UndoInv'
<1>0. /\ "start" \in Procs \ {p} /\ Settlers \subseteq Procs
      /\ run'["start"] = run["start"] /\ effects \in [Steps -> Nat] /\ undone \in [Steps -> Nat]
  BY DEF Settlers, Procs, Compensations, Retries, TypeOK
<1>1. ExecutorFirst'
  BY <1>0 DEF UndoInv, ExecutorFirst, Running, At
<1>2. EffectsMarked'
  <2>1. ASSUME wf' = wf /\ steps' = steps PROVE EffectsMarked'
    BY <1>0, <2>1 DEF UndoInv, EffectsMarked, Running, At
  <2>2. ASSUME wf' \in UnderSettlement PROVE EffectsMarked'
    <3>1. CASE Running("start")
      BY <3>1, <2>1
    <3>2. CASE ~Running("start")
      BY <1>0, <2>2, <3>2 DEF EffectsMarked, Running, At, UnderSettlement, AtRest
    <3> QED
      BY <3>1, <3>2
  <2> QED
    BY <2>1, <2>2
<1>3. Announced'
  BY <1>0 DEF UndoInv, Announced
<1>4. Settling'
  <2> SUFFICES ASSUME NEW q \in Settlers, run'[q].pc \in Undoing PROVE Undoes(q)'
    BY DEF Settling
  <2>1. CASE q = p
    BY <2>1
  <2>2. CASE q # p
    <3>1. run'[q] = run[q] /\ Undoes(q)
      BY <1>0, <2>2 DEF UndoInv, Settling
    <3>2. \A j \in Steps : undone[j] > 0 => undone'[j] > 0
      BY <1>0
    <3> QED
      BY <3>1, <3>2 DEF Undoes, Copy, At
  <2> QED
    BY <2>1, <2>2
<1>5. Clean'
  <2>1. \A j \in Steps : undone[j] > 0 => undone'[j] > 0
    BY <1>0
  <2>2. AllUndone => AllUndone'
    BY <2>1 DEF AllUndone
  <2> QED
    BY <2>2 DEF UndoInv, Clean
<1> QED
  BY <1>1, <1>2, <1>3, <1>4, <1>5 DEF UndoInv

(***************************************************************************)
(* Steps of the executor: it finds the operation of its step without       *)
(* effect until it performs it, and marks it before it goes on.            *)
(***************************************************************************)
LEMMA ExecutorMarks ==
    ASSUME IInv, UndoInv, Calm', ExecutorStep("start")
    PROVE  UndoInv'
<1> DEFINE p == "start"
           i == run[p].cur
<1> USE DEF world, limits, db
<1>0. /\ TypeOK /\ p \in Procs /\ Settlers \subseteq Procs \ {p} /\ p \notin LoadsSteps
      /\ i \in 1..(NumSteps + 1) /\ effects \in [Steps -> Nat]
      /\ Progress /\ steps \in [Steps -> StepRow]
      /\ run[p].pc \in AtAStep => i \in Steps
  BY DEF IInv, Procs, TypeOK, StepNamed, Settlers, Retries, Compensations, LoadsSteps
<1>1. run[p].pc # "idle"
  BY DEF ExecutorStep, executeWorkflow, LoadSteps, NextStep, BeginStep, OperationSucceeds,
         CompleteStep, OperationFails, OperationTimesOut, FailWorkflow, At
<1>2. /\ wf \in {"PENDING", "RUNNING"} /\ \A q \in Settlers : run[q].pc = "idle"
      /\ \A j \in Steps : undone[j] = 0
      /\ \A j \in Steps : effects[j] > 0
            => steps[j].state = "COMPLETED" \/ (run[p].pc = "ok" /\ j = i)
  BY <1>1 DEF UndoInv, ExecutorFirst, EffectsMarked, Running, At
<1>3. ASSUME \A q \in Procs \ {p} : run'[q] = run[q], undone' = undone,
             wf' # "COMPENSATED", wf' \in {"PENDING", "RUNNING"} \/ run'[p].pc = "idle",
             \A j \in Steps : effects'[j] > 0
                 => steps'[j].state = "COMPLETED" \/ (run'[p].pc = "ok" /\ j = run'[p].cur)
      PROVE  UndoInv'
  <2>1. \A q \in Settlers : run'[q].pc = "idle"
    BY <1>0, <1>2, <1>3
  <2>2. ExecutorFirst' /\ EffectsMarked'
    BY <1>2, <1>3, <2>1 DEF ExecutorFirst, EffectsMarked, Running, At
  <2>3. Announced' /\ Settling'
    BY <2>1 DEF Announced, Settling, Undoing
  <2>4. Backwards' /\ Clean'
    BY <1>2, <1>3 DEF Backwards, Clean
  <2> QED
    BY <2>2, <2>3, <2>4 DEF UndoInv
<1>4. ASSUME \A q \in Procs \ {p} : run'[q] = run[q], undone' = undone, run[p].pc # "ok",
             steps' = steps, effects' = effects, wf' # "COMPENSATED",
             wf' \in {"PENDING", "RUNNING"} \/ run'[p].pc = "idle"
      PROVE  UndoInv'
  BY <1>2, <1>3, <1>4
<1>5. ASSUME i \in Steps, NEW row \in StepRow, NEW label \in Labels,
             SaveStep(p, i, row, label), effects[i] = 0, effects' = effects, undone' = undone,
             wf' = wf, run[p].pc = "exec" \/ run[p].pc = "begin"
      PROVE  UndoInv'
  <2>1. \A q \in Procs \ {p} : run'[q] = run[q]
    BY <1>0, <1>5, SavingStep
  <2>2. \A j \in Steps \ {i} : steps'[j] = steps[j]
    BY <1>0, <1>5 DEF SaveStep
  <2>3. \A j \in Steps : effects'[j] > 0 => steps'[j].state = "COMPLETED"
    <3> SUFFICES ASSUME NEW j \in Steps, effects[j] > 0 PROVE steps'[j].state = "COMPLETED"
      BY <1>5
    <3>1. j # i
      BY <1>5
    <3> QED
      BY <1>2, <1>5, <2>2, <3>1
  <2> QED
    BY <1>2, <1>3, <1>5, <2>1, <2>3
<1>6. run[p].pc \in {"begin", "exec"} => i \in Steps /\ effects[i] = 0
  <2>1. run[p].pc \in {"begin", "exec"} => i \in Steps /\ Ahead(i)
    BY <1>0 DEF Progress, AtAStep
  <2> QED
    BY <2>1 DEF Ahead, Steps
<1>7. CASE executeWorkflow(p)
  <2>1. CASE /\ SaveWorkflow(p, "RUNNING")
             /\ Become(p, [run[p] EXCEPT !.pc = "load", !.wf = "RUNNING"])
    <3> DEFINE f == [run[p] EXCEPT !.pc = "load", !.wf = "RUNNING"]
    <3>0. run[p] \in Frame
      BY <1>0 DEF TypeOK, Frame
    <3>1. f \in Frame
      BY <3>0 DEF Frame, Labels, WorkflowState
    <3>2. Become(p, f)
      BY <2>1
    <3> HIDE DEF f
    <3>3. \A q \in Procs \ {p} : run'[q] = run[q]
      BY <1>0, <3>1, <3>2, Becoming
    <3>4. wf' = "RUNNING" /\ steps' = steps
      BY <1>0, <2>1 DEF SaveWorkflow
    <3> QED
      BY <1>4, <1>7, <3>3, <3>4 DEF executeWorkflow, At
  <2>2. CASE Goto(p, "idle") /\ UNCHANGED db
    <3>1. run'[p].pc = "idle" /\ \A q \in Procs \ {p} : run'[q] = run[q]
      BY <1>0, <2>2, Going DEF Labels
    <3> QED
      BY <1>2, <1>4, <1>7, <2>2, <3>1 DEF executeWorkflow, At
  <2> QED
    BY <1>7, <2>1, <2>2 DEF executeWorkflow
<1>8. CASE LoadSteps(p)
  <2> DEFINE f == [run[p] EXCEPT !.pc = "next", !.steps = steps, !.cur = 1]
  <2>0. run[p] \in Frame /\ 1 \in 1..(NumSteps + 1)
    BY <1>0, NumStepsAssumption DEF TypeOK, Frame
  <2>1. f \in Frame
    BY <1>0, <2>0 DEF Frame, Labels
  <2>2. Become(p, f)
    BY <1>8 DEF LoadSteps
  <2> HIDE DEF f
  <2>3. \A q \in Procs \ {p} : run'[q] = run[q]
    BY <1>0, <2>1, <2>2, Becoming
  <2> QED
    BY <1>2, <1>4, <1>8, <2>3 DEF LoadSteps, At
<1>9. CASE NextStep(p)
  <2>1. run[p].wf = "RUNNING" /\ run[p].pc = "next"
    BY <1>0, <1>9 DEF Progress, NextStep, At
  <2>2. PICK label \in {"begin", "idle"} :
           /\ Goto(p, label) /\ SaveWorkflow(p, IF label = "begin" THEN "RUNNING" ELSE "COMPLETED")
    BY <1>9, <2>1 DEF NextStep
  <2>3. run'[p].pc = label /\ \A q \in Procs \ {p} : run'[q] = run[q]
    BY <1>0, <2>2, Going DEF Labels
  <2>4. steps' = steps /\ wf' = IF label = "begin" THEN "RUNNING" ELSE "COMPLETED"
    BY <1>0, <2>2 DEF SaveWorkflow
  <2> QED
    BY <1>4, <1>9, <2>1, <2>3, <2>4 DEF NextStep
<1>10. CASE BeginStep(p)
  <2>1. run[p].pc = "begin" /\ i \in Steps /\ effects[i] = 0
    BY <1>6, <1>10 DEF BeginStep, At
  <2>2. CASE SaveStep(p, i, StepWith(p, i, "RUNNING"), "exec")
    <3>1. StepWith(p, i, "RUNNING") \in StepRow /\ "exec" \in Labels
      BY <1>0, <2>1, Rows DEF StepState, Labels
    <3> QED
      BY <1>5, <1>10, <2>1, <2>2, <3>1 DEF BeginStep
  <2>3. CASE Goto(p, "fail") /\ UNCHANGED steps
    <3>1. \A q \in Procs \ {p} : run'[q] = run[q]
      BY <1>0, <2>3, Going DEF Labels
    <3> QED
      BY <1>2, <1>4, <1>10, <2>1, <2>3, <3>1 DEF BeginStep
  <2> QED
    BY <1>10, <2>2, <2>3 DEF BeginStep
<1>11. CASE OperationSucceeds(p)
  <2>1. run[p].pc = "exec" /\ i \in Steps
    BY <1>6, <1>11 DEF OperationSucceeds, At
  <2>2. run'[p].pc = "ok" /\ run'[p].cur = i /\ \A q \in Procs \ {p} : run'[q] = run[q]
    BY <1>0, <1>11, Going DEF OperationSucceeds, Labels
  <2>3. \A j \in Steps \ {i} : effects'[j] = effects[j]
    BY <1>0, <1>11 DEF OperationSucceeds
  <2>4. steps' = steps /\ wf' = wf /\ undone' = undone
    BY <1>11 DEF OperationSucceeds
  <2> QED
    BY <1>2, <1>3, <2>1, <2>2, <2>3, <2>4
<1>12. CASE CompleteStep(p)
  <2> DEFINE done == StepWith(p, i, "COMPLETED")
             f == [run[p] EXCEPT !.pc = "next", !.steps[i] = done, !.cur = i + 1]
  <2>1. i \in Steps /\ run[p].pc = "ok"
    BY <1>0, <1>12 DEF CompleteStep, At, AtAStep
  <2>2. done \in StepRow /\ i + 1 \in 1..(NumSteps + 1) /\ done.state = "COMPLETED"
    <3>1. Copy(p, i) \in StepRow
      BY <1>0, <2>1, Rows DEF StepState
    <3> QED
      BY <2>1, <3>1, NumStepsAssumption DEF StepWith, StepRow, StepState, Steps
  <2>3. Become(p, f) /\ steps' = [steps EXCEPT ![i] = done]
    BY <1>12 DEF CompleteStep
  <2>4. wf' = wf /\ undone' = undone /\ effects' = effects
    BY <1>12 DEF CompleteStep
  <2> HIDE DEF done
  <2>5. f \in Frame
    BY <1>0, <2>1, <2>2, Frames, ZenonT(60) DEF Labels, WorkflowState
  <2> HIDE DEF f
  <2>6. \A q \in Procs \ {p} : run'[q] = run[q]
    BY <1>0, <2>3, <2>5, Becoming
  <2>7. \A j \in Steps : steps'[j] = IF j = i THEN done ELSE steps[j]
    BY <1>0, <2>3
  <2>8. \A j \in Steps : effects'[j] > 0 => steps'[j].state = "COMPLETED"
    BY <1>2, <2>1, <2>2, <2>4, <2>7
  <2> QED
    BY <1>2, <1>3, <2>4, <2>6, <2>8
<1>13. CASE OperationFails(p)
  <2>1. run[p].pc = "exec" /\ i \in Steps /\ effects[i] = 0
    BY <1>6, <1>13 DEF OperationFails, At
  <2>2. RetriedAs(p, i, "FAILED") \in StepRow /\ "begin" \in Labels /\ "fail" \in Labels
    BY <1>0, <2>1, Rows DEF StepState, Labels
  <2>3. effects' = effects /\ undone' = undone /\ wf' = wf
    BY <1>13 DEF OperationFails
  <2>4. \/ SaveStep(p, i, RetriedAs(p, i, "FAILED"), "begin")
        \/ SaveStep(p, i, RetriedAs(p, i, "FAILED"), "fail")
    BY <1>13 DEF OperationFails
  <2> QED
    BY <1>5, <2>1, <2>2, <2>3, <2>4
<1>14. CASE OperationTimesOut(p)
  <2>1. i \in Steps
    BY <1>6, <1>14 DEF OperationTimesOut, At
  <2>2. late' = late \cup {i}
    BY <1>14 DEF OperationTimesOut
  <2>3. late' = {}
    BY DEF Calm
  <2> QED
    BY <2>2, <2>3
<1>15. CASE FailWorkflow(p)
  <2>1. run'[p].pc = "idle" /\ \A q \in Procs \ {p} : run'[q] = run[q]
    BY <1>0, <1>15, Going DEF FailWorkflow, Labels
  <2>2. wf' = "FAILED" /\ steps' = steps
    BY <1>0, <1>15 DEF FailWorkflow, SaveWorkflow
  <2> QED
    BY <1>4, <1>15, <2>1, <2>2 DEF FailWorkflow, At
<1> QED
  BY <1>7, <1>8, <1>9, <1>10, <1>11, <1>12, <1>13, <1>14, <1>15 DEF ExecutorStep

(***************************************************************************)
(* Steps of compensateWorkflow: refused while the executor runs, it loads  *)
(* the rows as the executor left them and undoes the last step first.      *)
(***************************************************************************)
LEMMA CompensatorUndoes ==
    ASSUME IInv, UndoInv, Calm', NEW p \in {"comp1", "comp2"}, CompensatorStep(p)
    PROVE  UndoInv'
<1> DEFINE i == run[p].cur
<1> USE DEF world, limits, db
<1>0. /\ TypeOK /\ p \in Procs /\ p \in Settlers /\ p # "force" /\ p # "start"
      /\ effects \in [Steps -> Nat] /\ undone \in [Steps -> Nat]
      /\ run[p].pc \in AtAStep => i \in Steps
      /\ run[p].pc # "timedout"
  BY DEF IInv, Procs, TypeOK, StepNamed, Settlers, Retries, Compensations, UndoInv, Calm
<1>1. run[p].pc # "idle" => ~Running("start")
  BY <1>0 DEF UndoInv, ExecutorFirst, Running, At
<1>2. run[p].pc \in Undoing => Undoes(p)
  BY <1>0 DEF UndoInv, Settling
<1>3. run[p].pc \in {"c_next", "c_undo"} => wf \in UnderSettlement
  BY <1>0 DEF UndoInv, Announced
<1>b. UNCHANGED <<effects, undone>> => Backwards' /\ \A j \in Steps : undone'[j] >= undone[j]
  BY <1>0 DEF UndoInv, Backwards
<1>4. CASE compensateWorkflow(p)
  <2>1. UNCHANGED <<wf, steps, effects, undone>>
    BY <1>4 DEF compensateWorkflow
  <2>2. CASE canWorkflowCompensate(wf) /\ Become(p, Loaded(p, "c_save"))
    <3> DEFINE f == Loaded(p, "c_save")
    <3>0. run[p] \in Frame
      BY <1>0 DEF TypeOK, Frame
    <3>1. f \in Frame /\ f.pc = "c_save" /\ f.steps = steps
      BY <1>0, <3>0 DEF Loaded, Frame, TypeOK, Labels
    <3>2. Become(p, f)
      BY <2>2
    <3> HIDE DEF f
    <3>3. run'[p].pc = "c_save" /\ run'[p].steps = steps /\ \A q \in Procs \ {p} : run'[q] = run[q]
      BY <1>0, <3>1, <3>2, Becoming
    <3>4. wf \in AtRest /\ ~Running("start")
      BY <2>2 DEF canWorkflowCompensate, AtRest, UndoInv, ExecutorFirst
    <3>5. \A j \in Steps : effects[j] > 0 => steps[j].state = "COMPLETED"
      BY <3>4 DEF UndoInv, EffectsMarked, Running, At
    <3>6. Undoes(p)'
      BY <2>1, <3>3, <3>5 DEF Undoes, Copy, At
    <3> QED
      BY <1>0, <1>b, <2>1, <3>3, <3>4, <3>6, SettlerKeeps
  <2>3. CASE Goto(p, "idle")
    <3>1. run'[p].pc = "idle" /\ \A q \in Procs \ {p} : run'[q] = run[q]
      BY <1>0, <2>3, Going DEF Labels
    <3> QED
      BY <1>0, <1>b, <2>1, <3>1, SettlerKeeps DEF Undoing
  <2> QED
    BY <1>0, <1>4, <2>2, <2>3 DEF compensateWorkflow, At
<1>5. CASE MarkCompensating(p)
  <2>1. /\ run[p].pc = "c_save" /\ wf' = "COMPENSATING" /\ UNCHANGED <<effects, undone>>
    BY <1>5 DEF MarkCompensating, At
  <2>2. /\ run'[p].pc = "c_next" /\ run'[p].steps = run[p].steps
        /\ \A q \in Procs \ {p} : run'[q] = run[q]
    BY <1>0, <1>5, Going DEF MarkCompensating, Labels
  <2>3. Undoes(p)'
    BY <1>2, <2>1, <2>2 DEF Undoes, Undoing, Copy, At
  <2>4. wf' \in UnderSettlement /\ wf' # "COMPENSATED" /\ ~Running("start")
    BY <1>1, <2>1 DEF UnderSettlement
  <2> QED
    BY <1>0, <1>b, <2>1, <2>2, <2>3, <2>4, SettlerKeeps
<1>6. CASE CompensateNext(p)
  <2> DEFINE todo == {j \in Steps \cap Compensable : Copy(p, j).state = "COMPLETED"}
             m == NextToCompensate(todo)
  <2>0. /\ run[p].pc = "c_next" /\ UNCHANGED <<effects, undone>>
        /\ Undoes(p) /\ ~Running("start") /\ wf \in UnderSettlement
    BY <1>1, <1>2, <1>3, <1>6 DEF CompensateNext, At, Undoing
  <2>1. CASE todo # {}
    <3>1. m \in todo /\ \A y \in todo : y <= m
      BY <2>1, LastStep
    <3>2. SaveStep(p, m, StepWith(p, m, "COMPENSATING"), "c_undo") /\ wf' = wf
      BY <1>6, <2>1 DEF CompensateNext
    <3>3. m \in Steps /\ \A j \in Steps \cap Compensable : Copy(p, j).state = "COMPLETED" => j <= m
      BY <3>1
    <3> HIDE DEF m
    <3>4. StepWith(p, m, "COMPENSATING") \in StepRow
      BY <1>0, <3>3, Rows DEF StepState
    <3>5. /\ run'[p].pc = "c_undo" /\ run'[p].cur = m
          /\ \A q \in Procs \ {p} : run'[q] = run[q]
      BY <1>0, <3>2, <3>3, <3>4, SavingStep DEF Labels
    <3>6. \A j \in Steps \ {m} : run'[p].steps[j] = run[p].steps[j]
      BY <1>0, <3>2, <3>3, <3>4, SavedCopy DEF Labels
    <3>7. ASSUME NEW j \in Steps \cap Compensable, effects[j] > 0
          PROVE  Copy(p, j).state = "COMPLETED" \/ undone[j] > 0
      BY <2>0, <3>7 DEF Undoes, At
    <3>8. Undoes(p)'
      <4>1. ASSUME NEW j \in Steps \cap Compensable, effects[j] > 0
            PROVE  \/ run'[p].steps[j].state = "COMPLETED" \/ undone[j] > 0 \/ j = m
        BY <3>6, <3>7, <4>1 DEF Copy
      <4>2. ASSUME NEW j \in Steps \cap Compensable, effects[j] > 0, m < j
            PROVE  undone[j] > 0
        <5>1. ~(j <= m)
          BY <3>3, <4>2 DEF Steps
        <5> QED
          BY <3>3, <3>7, <4>2, <5>1
      <4> QED
        BY <2>0, <3>5, <4>1, <4>2 DEF Undoes, Copy, At
    <3> QED
      BY <1>0, <1>b, <2>0, <3>2, <3>5, <3>8, SettlerKeeps
  <2>2. CASE todo = {}
    <3>1. Goto(p, "idle") /\ wf' = "COMPENSATED"
      BY <1>6, <2>2 DEF CompensateNext
    <3>2. run'[p].pc = "idle" /\ \A q \in Procs \ {p} : run'[q] = run[q]
      BY <1>0, <3>1, Going DEF Labels
    <3>3. \A j \in Steps \cap Compensable : Copy(p, j).state # "COMPLETED"
      BY <2>2
    <3>4. AllUndone'
      BY <2>0, <3>3 DEF AllUndone, Undoes, At
    <3>5. wf' \in UnderSettlement
      BY <3>1 DEF UnderSettlement
    <3> QED
      BY <1>0, <1>b, <2>0, <3>2, <3>4, <3>5, SettlerKeeps DEF Undoing
  <2> QED
    BY <2>1, <2>2
<1>7. CASE CompensateStep(p)
  <2>0. /\ run[p].pc = "c_undo" /\ effects' = effects /\ wf' = wf
        /\ Undoes(p) /\ ~Running("start") /\ wf \in UnderSettlement /\ i \in Steps
    BY <1>0, <1>1, <1>2, <1>3, <1>7 DEF CompensateStep, At, Undoing, AtAStep
  <2>1. SaveStep(p, i, StepWith(p, i, "COMPENSATED"), "c_next")
    BY <1>7 DEF CompensateStep
  <2>2. StepWith(p, i, "COMPENSATED") \in StepRow
    BY <1>0, <2>0, Rows DEF StepState
  <2>3. run'[p].pc = "c_next" /\ \A q \in Procs \ {p} : run'[q] = run[q]
    BY <1>0, <2>0, <2>1, <2>2, SavingStep DEF Labels
  <2>4. \A j \in Steps \ {i} : run'[p].steps[j] = run[p].steps[j]
    BY <1>0, <2>0, <2>1, <2>2, SavedCopy DEF Labels
  <2>5. /\ undone' \in [Steps -> Nat]
        /\ \A j \in Steps : undone'[j] = IF j = i THEN undone[j] + 1 ELSE undone[j]
    BY <1>0, <1>7, <2>0 DEF CompensateStep
  <2>6. /\ undone'[i] > 0 /\ \A j \in Steps : undone[j] > 0 => undone'[j] > 0
        /\ \A j \in Steps : undone'[j] >= undone[j]
    BY <1>0, <2>0, <2>5
  <2>7. Undoes(p)'
    <3>1. ASSUME NEW j \in Steps \cap Compensable, effects[j] > 0
          PROVE  \/ run'[p].steps[j].state = "COMPLETED" \/ undone'[j] > 0
      BY <2>0, <2>4, <2>6, <3>1 DEF Undoes, Copy, At
    <3> QED
      BY <2>0, <2>3, <3>1 DEF Undoes, Copy, At
  <2>8. Backwards'
    <3> SUFFICES ASSUME NEW k \in Steps \cap Compensable, NEW j \in Steps \cap Compensable,
                        k < j, undone'[k] > 0, effects[j] > 0
                 PROVE  undone[j] > 0
      BY <2>0, <2>6 DEF Backwards
    <3>1. CASE k = i
      BY <2>0, <3>1 DEF Undoes, At
    <3>2. CASE k # i
      BY <2>5, <3>2 DEF UndoInv, Backwards
    <3> QED
      BY <3>1, <3>2
  <2> QED
    BY <1>0, <2>0, <2>3, <2>5, <2>6, <2>7, <2>8, SettlerKeeps
<1> QED
  BY <1>4, <1>5, <1>6, <1>7 DEF CompensatorStep

(***************************************************************************)
(* executeWorkflow refuses everybody but startWorkflow's own call.         *)
(***************************************************************************)
LEMMA RefusedChangesNothing ==
    ASSUME IInv, UndoInv, Calm', NEW p \in Settlers, executeWorkflow(p)
    PROVE  UndoInv'
<1>0. /\ TypeOK /\ p \in Procs /\ p # "start" /\ OnlyStart
      /\ effects \in [Steps -> Nat] /\ undone \in [Steps -> Nat]
  BY DEF IInv, Procs, TypeOK, Settlers, Retries, Compensations
<1>1. run[p].wf = "RUNNING"
  BY <1>0 DEF OnlyStart, executeWorkflow, At
<1>2. ~canTransitionWorkflow("RUNNING", "RUNNING")
  BY DEF canTransitionWorkflow, workflowTransitions
<1>3. Goto(p, "idle") /\ UNCHANGED <<wf, steps, effects, undone>>
  BY <1>1, <1>2 DEF executeWorkflow, world, db
<1>4. run'[p].pc = "idle" /\ \A q \in Procs \ {p} : run'[q] = run[q]
  BY <1>0, <1>3, Going DEF Labels
<1>5. Backwards' /\ \A j \in Steps : undone'[j] >= undone[j]
  BY <1>0, <1>3 DEF UndoInv, Backwards
<1> QED
  BY <1>0, <1>3, <1>4, <1>5, SettlerKeeps DEF Undoing

(***************************************************************************)
(* Steps of retryWorkflow: it finds a failed workflow only when the        *)
(* executor is gone, and undoes nothing.                                   *)
(***************************************************************************)
LEMMA RetryUndoesNothing ==
    ASSUME IInv, UndoInv, Calm', retryWorkflow("retry")
    PROVE  UndoInv'
<1> DEFINE p == "retry"
<1> USE DEF world, limits, db
<1>0. /\ TypeOK /\ p \in Procs /\ p \in Settlers /\ p # "start" /\ OnlyStart
      /\ effects \in [Steps -> Nat] /\ undone \in [Steps -> Nat]
      /\ run'[p].pc \notin Undoing
  BY DEF IInv, Procs, TypeOK, Settlers, Retries, Compensations, Calm
<1>1. run[p].pc # "idle" => ~Running("start")
  BY <1>0 DEF UndoInv, ExecutorFirst, Running, At
<1>2. run[p].pc = "r_step" => wf \in UnderSettlement
  BY <1>0 DEF UndoInv, Announced
<1>3. UNCHANGED <<effects, undone>>
  BY DEF retryWorkflow
<1>4. Backwards' /\ \A j \in Steps : undone'[j] >= undone[j]
  BY <1>0, <1>3 DEF UndoInv, Backwards
<1>5. ASSUME NEW label \in {"r_save", "idle"}, Become(p, Loaded(p, label)),
             label = "r_save" => wf = "FAILED", UNCHANGED db
      PROVE  UndoInv'
  <2> DEFINE f == Loaded(p, label)
  <2>0. run[p] \in Frame /\ label \in Labels
    BY <1>0 DEF TypeOK, Frame, Labels
  <2>1. f \in Frame /\ f.pc = label
    BY <1>0, <2>0 DEF Loaded, Frame, TypeOK
  <2>2. Become(p, f)
    BY <1>5
  <2> HIDE DEF f
  <2>3. run'[p].pc = label /\ \A q \in Procs \ {p} : run'[q] = run[q]
    BY <1>0, <2>1, <2>2, Becoming
  <2>4. Running("start") => label = "idle"
    BY <1>5 DEF UndoInv, ExecutorFirst
  <2> QED
    BY <1>0, <1>3, <1>4, <1>5, <2>3, <2>4, SettlerKeeps
<1>6. CASE /\ At(p, "r_save") /\ SaveWorkflow(p, "RUNNING")
           /\ Become(p, [run[p] EXCEPT !.pc = "r_step", !.wf = "RUNNING"])
  <2> DEFINE f == [run[p] EXCEPT !.pc = "r_step", !.wf = "RUNNING"]
  <2>0. run[p] \in Frame
    BY <1>0 DEF TypeOK, Frame
  <2>1. f \in Frame
    BY <2>0 DEF Frame, Labels, WorkflowState
  <2>2. Become(p, f)
    BY <1>6
  <2> HIDE DEF f
  <2>3. \A q \in Procs \ {p} : run'[q] = run[q]
    BY <1>0, <2>1, <2>2, Becoming
  <2>4. wf' = "RUNNING" /\ wf' \in UnderSettlement /\ ~Running("start")
    BY <1>1, <1>6 DEF SaveWorkflow, UnderSettlement, At
  <2> QED
    BY <1>0, <1>3, <1>4, <2>3, <2>4, SettlerKeeps
<1>7. ASSUME At(p, "r_step"), NEW j \in Steps,
             SaveStep(p, j, StepWith(p, j, "PENDING"), "execute"), wf' = wf
      PROVE  UndoInv'
  <2>1. StepWith(p, j, "PENDING") \in StepRow
    BY <1>0, Rows DEF StepState
  <2>2. \A q \in Procs \ {p} : run'[q] = run[q]
    BY <1>0, <1>7, <2>1, SavingStep DEF Labels
  <2>3. wf' \in UnderSettlement /\ ~Running("start")
    BY <1>1, <1>2, <1>7 DEF At
  <2> QED
    BY <1>0, <1>3, <1>4, <1>7, <2>2, <2>3, SettlerKeeps
<1>8. CASE At(p, "r_step") /\ Goto(p, "execute") /\ UNCHANGED <<wf, steps>>
  <2>1. run'[p].pc = "execute" /\ \A q \in Procs \ {p} : run'[q] = run[q]
    BY <1>0, <1>8, Going DEF Labels
  <2>2. ~Running("start")
    BY <1>1, <1>8 DEF At
  <2> QED
    BY <1>0, <1>3, <1>4, <1>8, <2>1, <2>2, SettlerKeeps
<1> QED
  BY <1>5, <1>6, <1>7, <1>8 DEF retryWorkflow, isWorkflowRecoverable

(***************************************************************************)
(* Where a process goes, whatever copies it takes along.                   *)
(***************************************************************************)
MovesTo(p, label) == run'[p].pc = label /\ \A q \in Procs \ {p} : run'[q] = run[q]

LEMMA Moving ==
    ASSUME TypeOK, NEW p \in Procs, NEW label, NEW i, NEW row, NEW c, NEW rows
    PROVE  /\ Goto(p, label) => MovesTo(p, label)
           /\ SaveStep(p, i, row, label) => MovesTo(p, label)
           /\ Become(p, Loaded(p, label)) => MovesTo(p, label)
           /\ Become(p, [Loaded(p, label) EXCEPT !.cur = c]) => MovesTo(p, label)
           /\ Become(p, [run[p] EXCEPT !.pc = label, !.wf = "RUNNING"]) => MovesTo(p, label)
           /\ Become(p, [run[p] EXCEPT !.pc = label, !.steps = rows, !.cur = c]) => MovesTo(p, label)
           /\ Become(p, [run[p] EXCEPT !.pc = label, !.steps[i] = row, !.cur = c])
                 => MovesTo(p, label)
<1>0. run[p] \in Frame /\ DOMAIN run = Procs /\ Idle.pc = "idle"
  BY DEF TypeOK, Frame, Idle
<1>1. ASSUME NEW f, Become(p, f), f.pc = label PROVE MovesTo(p, label)
  <2>1. run' = [run EXCEPT ![p] = IF f.pc = "idle" THEN Idle ELSE f]
    BY <1>1 DEF Become
  <2> HIDE DEF Idle
  <2> QED
    BY <1>0, <1>1, <2>1 DEF MovesTo
<1>2. /\ [run[p] EXCEPT !.pc = label].pc = label
      /\ Loaded(p, label).pc = label
      /\ [Loaded(p, label) EXCEPT !.cur = c].pc = label
      /\ [run[p] EXCEPT !.pc = label, !.wf = "RUNNING"].pc = label
  BY <1>0 DEF Frame, Loaded
<1>3. [run[p] EXCEPT !.pc = label, !.steps = rows, !.cur = c].pc = label
  BY <1>0 DEF Frame
<1>4. /\ [run[p] EXCEPT !.pc = label, !.steps[i] = row, !.cur = c].pc = label
      /\ [run[p] EXCEPT !.pc = label, !.steps[i] = row, !.cur = i].pc = label
  BY <1>0 DEF Frame
<1>5. Goto(p, label) => MovesTo(p, label)
  BY <1>1, <1>2 DEF Goto
<1>6. SaveStep(p, i, row, label) => MovesTo(p, label)
  BY <1>1, <1>4 DEF SaveStep
<1>7. /\ Become(p, Loaded(p, label)) => MovesTo(p, label)
      /\ Become(p, [Loaded(p, label) EXCEPT !.cur = c]) => MovesTo(p, label)
      /\ Become(p, [run[p] EXCEPT !.pc = label, !.wf = "RUNNING"]) => MovesTo(p, label)
  BY <1>1, <1>2
<1>8. /\ Become(p, [run[p] EXCEPT !.pc = label, !.steps = rows, !.cur = c]) => MovesTo(p, label)
      /\ Become(p, [run[p] EXCEPT !.pc = label, !.steps[i] = row, !.cur = c])
            => MovesTo(p, label)
  BY <1>1, <1>3, <1>4
<1> QED
  BY <1>5, <1>6, <1>7, <1>8

(***************************************************************************)
(* Neither the executor nor a retry ends up within a compensation.         *)
(***************************************************************************)
LEMMA OutOfCompensation ==
    ASSUME TypeOK, NEW p \in Procs, ExecutorStep(p) \/ retryWorkflow(p)
    PROVE  \E label : label \notin Undoing /\ MovesTo(p, label)
<1> USE DEF Undoing
<1>1. CASE executeWorkflow(p)
  BY <1>1, Moving DEF executeWorkflow
<1>2. CASE LoadSteps(p)
  BY <1>2, Moving DEF LoadSteps
<1>3. CASE NextStep(p)
  BY <1>3, Moving DEF NextStep
<1>4. CASE BeginStep(p)
  BY <1>4, Moving DEF BeginStep
<1>5. CASE OperationSucceeds(p)
  BY <1>5, Moving DEF OperationSucceeds
<1>6. CASE CompleteStep(p)
  BY <1>6, Moving DEF CompleteStep
<1>7. CASE OperationFails(p)
  BY <1>7, Moving DEF OperationFails
<1>8. CASE OperationTimesOut(p)
  BY <1>8, Moving DEF OperationTimesOut
<1>9. CASE FailWorkflow(p)
  BY <1>9, Moving DEF FailWorkflow
<1>10. CASE retryWorkflow(p)
  BY <1>10, Moving DEF retryWorkflow
<1> QED
  BY <1>1, <1>2, <1>3, <1>4, <1>5, <1>6, <1>7, <1>8, <1>9, <1>10 DEF ExecutorStep

(***************************************************************************)
(* In the scenario nobody else takes a step.                               *)
(***************************************************************************)
LEMMA WhoMoves ==
    ASSUME IInv, UndoInv, scenario = "undo", MCNext
    PROVE  /\ Calm'
           /\ \/ ExecutorStep("start")
              \/ \E p \in {"comp1", "comp2"} : CompensatorStep(p)
              \/ \E p \in Settlers : executeWorkflow(p)
              \/ retryWorkflow("retry")
<1> DEFINE Others == {"cancel", "recover", "stuck", "stepRetry", "force"}
           Goal == \/ ExecutorStep("start")
                   \/ \E p \in {"comp1", "comp2"} : CompensatorStep(p)
                   \/ \E p \in Settlers : executeWorkflow(p)
                   \/ retryWorkflow("retry")
<1>0. /\ TypeOK /\ OnlyStart /\ Calm
      /\ \A p \in Procs : run[p].pc # "timedout"
      /\ run["retry"].pc \notin Undoing /\ run["start"].pc \notin Undoing
      /\ Idle.pc = "idle"
  BY DEF IInv, UndoInv, Calm, Idle
<1>p. /\ Others = Procs \ ({"start"} \cup Settlers) /\ Others \subseteq Procs
      /\ Procs = {"start"} \cup Settlers \cup Others
      /\ {"start", "retry", "comp1", "comp2"} \subseteq Procs
      /\ Retries = {"retry", "stepRetry"} /\ Compensations = {"comp1", "comp2", "force"}
      /\ Settlers = {"comp1", "comp2", "retry"}
  BY DEF Procs, Settlers, Retries, Compensations
<1>1. Disturbing[scenario] = Settlers
  BY DEF Disturbing, Settlers
<1>2. /\ \A p \in Others : run'[p] = Idle /\ run[p] = Idle
      /\ crashes' = 0 /\ late' = {} /\ \A p \in Procs : run'[p].pc # "timedout"
  BY <1>0, <1>1, <1>p DEF MCNext, Calm
<1>3. \A p \in Others : run'[p].pc = "idle" /\ run[p].pc = "idle"
  BY <1>0, <1>2
<1>4. ASSUME NEW p \in Others, NEW label, MovesTo(p, label) PROVE label = "idle"
  BY <1>3, <1>4 DEF MovesTo
<1>5. ASSUME NEW p \in Procs, ExecutorStep(p) PROVE Goal
  <2>1. CASE p \in Settlers
    <3>1. executeWorkflow(p)
      BY <1>0, <1>5, <1>p, <2>1
         DEF OnlyStart, Executing, ExecutorStep, LoadSteps, NextStep, BeginStep, OperationSucceeds,
             CompleteStep, OperationFails, OperationTimesOut, FailWorkflow, At
    <3> QED
      BY <2>1, <3>1
  <2>2. CASE p \in Others
    BY <1>3, <1>5, <2>2
       DEF ExecutorStep, executeWorkflow, LoadSteps, NextStep, BeginStep, OperationSucceeds,
           CompleteStep, OperationFails, OperationTimesOut, FailWorkflow, At
  <2> QED
    BY <1>5, <1>p, <2>1, <2>2
<1>6. ASSUME NEW p \in Procs, CompensatorStep(p) PROVE p \in {"comp1", "comp2"}
  <2>1. compensateWorkflow(p) => p \in Compensations
    BY <1>0 DEF compensateWorkflow, At
  <2>2. ~compensateWorkflow(p) => run[p].pc \in Undoing
    BY <1>6 DEF CompensatorStep, MarkCompensating, CompensateNext, CompensateStep, At, Undoing
  <2>3. p \notin {"start", "retry"}
    BY <1>0, <1>p, <2>1, <2>2
  <2>4. p \notin Others
    <3> SUFFICES ASSUME p \in Others PROVE FALSE
      OBVIOUS
    <3>1. compensateWorkflow(p) /\ p = "force"
      BY <1>3, <1>p, <2>1, <2>2 DEF Undoing
    <3>2. Become(p, Loaded(p, "c_save"))
      BY <3>1 DEF compensateWorkflow
    <3>3. MovesTo(p, "c_save")
      BY <1>0, <3>2, Moving
    <3> QED
      BY <1>4, <3>3
  <2> QED
    BY <1>p, <2>3, <2>4
<1>7. ASSUME NEW i \in Steps, LateOperation(i) PROVE FALSE
  BY <1>0, <1>7 DEF LateOperation, Calm
<1>8. ASSUME cancelWorkflow PROVE FALSE
  <2>1. "cancel" \in Procs /\ "cancel" \in Others
    BY <1>p
  <2>2. Goto("cancel", "x_save")
    BY <1>3, <1>8, <2>1 DEF cancelWorkflow, At
  <2> QED
    BY <1>0, <1>4, <2>1, <2>2, Moving
<1>9. ASSUME retryWorkflowStep PROVE FALSE
  <2>1. "stepRetry" \in Procs /\ "stepRetry" \in Others
    BY <1>p
  <2>2. \E i \in Steps : Become("stepRetry", [Loaded("stepRetry", "t_save") EXCEPT !.cur = i])
    BY <1>3, <1>9, <2>1 DEF retryWorkflowStep, At
  <2> QED
    BY <1>0, <1>4, <2>1, <2>2, Moving
<1>10. ASSUME NEW p \in Retries, retryWorkflow(p) PROVE Goal
  <2>1. p # "stepRetry"
    BY <1>3, <1>10 DEF retryWorkflow, At
  <2> QED
    BY <1>10, <1>p, <2>1
<1>11. ASSUME recoverWorkflow PROVE FALSE
  <2>1. "recover" \in Procs /\ "recover" \in Others
    BY <1>p
  <2>2. Become("recover", Loaded("recover", "v_act"))
    BY <1>3, <1>11, <2>1 DEF recoverWorkflow, At
  <2> QED
    BY <1>0, <1>4, <2>1, <2>2, Moving
<1>12. ASSUME recoverStuckStep PROVE FALSE
  <2>1. "stuck" \in Procs /\ "stuck" \in Others
    BY <1>p
  <2>2. \E j \in Steps : Become("stuck", [Loaded("stuck", "s_act") EXCEPT !.cur = j])
    BY <1>3, <1>12, <2>1 DEF recoverStuckStep, At
  <2> QED
    BY <1>0, <1>4, <2>1, <2>2, Moving
<1>13. ASSUME Crash PROVE FALSE
  BY <1>0, <1>2, <1>13 DEF Crash, Calm
<1>14. Goal
  <2>1. Next
    BY DEF MCNext
  <2> HIDE DEF Goal
  <2>2. ASSUME NEW p \in Procs, CompensatorStep(p) PROVE Goal
    BY <1>6, <2>2 DEF Goal
  <2> QED
    BY <2>1, <1>5, <2>2, <1>7, <1>8, <1>9, <1>10, <1>11, <1>12, <1>13 DEF Next, RecoveryJobs
<1>15. run'["retry"].pc \notin Undoing /\ run'["start"].pc \notin Undoing
  <2>1. ASSUME NEW p \in Procs, ExecutorStep(p) \/ retryWorkflow(p)
        PROVE  run'["retry"].pc \notin Undoing /\ run'["start"].pc \notin Undoing
    <3>1. PICK label : label \notin Undoing /\ MovesTo(p, label)
      BY <1>0, <2>1, OutOfCompensation
    <3> QED
      BY <1>0, <1>p, <3>1 DEF MovesTo
  <2>2. ASSUME NEW p \in {"comp1", "comp2"}, CompensatorStep(p)
        PROVE  run'["retry"].pc \notin Undoing /\ run'["start"].pc \notin Undoing
    <3>1. p \in Procs
      BY <1>p
    <3>2. \E label : MovesTo(p, label)
      BY <1>0, <2>2, <3>1, Moving
         DEF CompensatorStep, compensateWorkflow, MarkCompensating, CompensateNext, CompensateStep
    <3> QED
      BY <1>0, <1>p, <3>2 DEF MovesTo
  <2>3. \A p \in Settlers : executeWorkflow(p) => ExecutorStep(p)
    BY DEF ExecutorStep
  <2> QED
    BY <1>14, <1>p, <2>1, <2>2, <2>3
<1>16. Calm'
  <2>1. \A p \in Procs \ ({"start"} \cup Settlers) : run'[p] = Idle'
    BY <1>2, <1>p DEF Idle, FreshSteps
  <2> QED
    BY <1>2, <1>15, <2>1 DEF Calm
<1> QED
  BY <1>14, <1>16

(***************************************************************************)
(* The scenarios are behaviours of the workflow.                           *)
(***************************************************************************)
LEMMA ScenarioInvariance == MCSpec => []IInv
<1>1. MCInit => Init
  BY DEF MCInit
<1>2. [MCNext]_<<vars, scenario>> => [Next]_vars
  BY DEF MCNext
<1>3. MCSpec => Spec
  BY <1>1, <1>2, PTL DEF MCSpec, Spec
<1> QED
  BY <1>3, WorkflowInvariance, PTL

UndoInvariant == scenario = "undo" => UndoInv

(***************************************************************************)
(* The invariant of compensation holds throughout the scenario, for any    *)
(* number of steps and attempts and any choice of compensable steps.       *)
(***************************************************************************)
THEOREM UndoInvariance == MCSpec => []UndoInvariant
<1>1. MCInit => UndoInvariant
  <2> SUFFICES ASSUME Init PROVE UndoInv
    BY DEF MCInit, UndoInvariant
  <2>1. /\ wf = "PENDING" /\ late = {} /\ crashes = 0
        /\ \A i \in Steps : effects[i] = 0 /\ undone[i] = 0
        /\ \A p \in Procs \ {"start"} : run[p] = Idle
        /\ run["start"].pc = "execute" /\ Idle.pc = "idle"
    BY DEF Init, Idle, Procs
  <2>2. {"start", "retry"} \subseteq Procs /\ Settlers \subseteq Procs \ {"start"}
    BY DEF Procs, Settlers, Retries, Compensations
  <2> HIDE DEF Idle
  <2>3. Calm
    BY <2>1, <2>2 DEF Calm, Undoing
  <2>4. ExecutorFirst /\ EffectsMarked
    BY <2>1, <2>2 DEF ExecutorFirst, EffectsMarked, Running, At
  <2>5. Announced /\ Settling
    BY <2>1, <2>2 DEF Announced, Settling, Undoing
  <2>6. Backwards /\ Clean
    BY <2>1 DEF Backwards, Clean
  <2> QED
    BY <2>3, <2>4, <2>5, <2>6 DEF UndoInv
<1>2. IInv /\ UndoInvariant /\ [MCNext]_<<vars, scenario>> => UndoInvariant'
  <2> SUFFICES ASSUME IInv, UndoInvariant, [MCNext]_<<vars, scenario>>, scenario' = "undo"
               PROVE  UndoInv'
    BY DEF UndoInvariant
  <2>0. scenario = "undo" /\ UndoInv
    BY DEF UndoInvariant, MCNext
  <2>1. CASE MCNext
    BY <2>0, <2>1, WhoMoves, ExecutorMarks, CompensatorUndoes, RefusedChangesNothing,
       RetryUndoesNothing
  <2>2. CASE UNCHANGED vars
    <3>1. Calm'
      BY <2>0, <2>2 DEF vars, UndoInv, Calm, Idle, FreshSteps
    <3>2. (ExecutorFirst /\ EffectsMarked /\ Announced)'
      BY <2>0, <2>2 DEF vars, UndoInv, ExecutorFirst, EffectsMarked, Announced, Running, At
    <3>3. (Settling /\ Backwards /\ Clean)'
      BY <2>0, <2>2 DEF vars, UndoInv, Settling, Undoes, Copy, At, Backwards, Clean, AllUndone
    <3> QED
      BY <3>1, <3>2, <3>3 DEF UndoInv
  <2> QED
    BY <2>1, <2>2
<1> QED
  BY <1>1, <1>2, ScenarioInvariance, PTL DEF MCSpec

(***************************************************************************)
(* Compensation undoes a step only when every later effect that can be     *)
(* undone has been, although two compensations and a retry work on copies  *)
(* of the same rows (compensateWorkflow, retryWorkflow).                   *)
(***************************************************************************)
THEOREM CompensationGoesBackwards == MCSpec => []UndoneInReverse
<1>1. UndoInvariant => UndoneInReverse
  BY DEF UndoInvariant, UndoInv, Backwards, UndoneInReverse
<1> QED
  BY <1>1, UndoInvariance, PTL

(***************************************************************************)
(* A workflow that says COMPENSATED has nothing left in effect that can be *)
(* undone: whoever saves that state had loaded every effect as a completed *)
(* step and has undone it (compensateWorkflow).                            *)
(***************************************************************************)
THEOREM CompensationIsClean == MCSpec => []CompensatedIsClean
<1>1. UndoInvariant => CompensatedIsClean
  BY DEF UndoInvariant, UndoInv, Clean, AllUndone, CompensatedIsClean
<1> QED
  BY <1>1, UndoInvariance, PTL
=============================================================================
