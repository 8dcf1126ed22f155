------------------------ MODULE WorkflowStartProofs ------------------------
(***************************************************************************)
(* Proofs about WorkflowStart, for any callers and any number of expiries  *)
(* and stopped services.                                                   *)
(***************************************************************************)
EXTENDS WorkflowStart, FiniteSetTheorems, TLAPS

Owns(c) == pc[c] \in {"steps", "execute"}

(***************************************************************************)
(* The lock plays no part in it: whoever inserts the row owns the          *)
(* execution, the row never goes away, and so nobody owns it again.        *)
(***************************************************************************)
OneOwner ==
    /\ \A c, d \in Callers : Owns(c) /\ Owns(d) => c = d
    /\ \A c \in Callers : Owns(c) => row # "none" /\ executed = {}
    /\ \A c \in Callers : pc[c] = "execute" => row = "ready"
    /\ executed # {} => row = "ready"
    /\ \A c, d \in executed : c = d

IInv == StartTypeOK /\ OneOwner

-----------------------------------------------------------------------------
(***************************************************************************)
(* Before the first call has moved, nobody owns the execution.             *)
(***************************************************************************)
LEMMA InitEstablishes == Init => IInv
  BY CountsAssumption
     DEF Init, IInv, StartTypeOK, OneOwner, Owns, Labels, Over

(***************************************************************************)
(* Every step of startWorkflow, an expiry of the lock and a stopping       *)
(* service keep the variables in their types.                              *)
(***************************************************************************)
LEMMA TypeStep ==
    ASSUME StartTypeOK, [Next]_vars
    PROVE  StartTypeOK'
<1> USE CountsAssumption DEF StartTypeOK, Labels, Over, Goto
<1>1. ASSUME NEW c \in Callers, StartStep(c)
      PROVE  StartTypeOK'
  <2>1. CASE FindExisting(c)
    BY <2>1 DEF FindExisting
  <2>2. CASE acquireWorkflowLock(c)
    BY <2>2 DEF acquireWorkflowLock
  <2>3. CASE waitForWorkflow(c)
    BY <2>3 DEF waitForWorkflow
  <2>4. CASE CreateWorkflow(c)
    BY <2>4 DEF CreateWorkflow
  <2>5. CASE CreateSteps(c)
    BY <2>5 DEF CreateSteps
  <2>6. CASE ExecuteWorkflow(c)
    BY <2>6 DEF ExecuteWorkflow
  <2>7. CASE releaseWorkflowLock(c)
    BY <2>7 DEF releaseWorkflowLock
  <2> QED
    BY <1>1, <2>1, <2>2, <2>3, <2>4, <2>5, <2>6, <2>7 DEF StartStep
<1>2. ASSUME NEW c \in Callers, Crash(c)
      PROVE  StartTypeOK'
  BY <1>2 DEF Crash
<1>3. CASE LockExpires
  BY <1>3 DEF LockExpires
<1>4. CASE UNCHANGED vars
  BY <1>4 DEF vars
<1> QED
  BY <1>1, <1>2, <1>3, <1>4 DEF Next

(***************************************************************************)
(* A call that moves to a label which owns nothing, while the row and the  *)
(* executions stay, takes no ownership: this is every step but three.      *)
(***************************************************************************)
LEMMA NoNewOwner ==
    ASSUME IInv, NEW c \in Callers,
           UNCHANGED <<row, executed>>,
           NEW label, label \notin {"steps", "execute"},
           Goto(c, label)
    PROVE  OneOwner'
<1>1. \A d \in Callers : pc'[d] = pc[d] \/ ~Owns(d)'
  BY DEF IInv, StartTypeOK, Goto, Owns
<1>2. \A d \in Callers : Owns(d)' => Owns(d) /\ pc'[d] = pc[d]
  BY <1>1 DEF Owns
<1> QED
  BY <1>2 DEF IInv, OneOwner, Owns

(***************************************************************************)
(* The insert makes its caller the owner only while there is no row, the   *)
(* steps keep it, and the execution ends it.                               *)
(***************************************************************************)
LEMMA OwnerStep ==
    ASSUME IInv, [Next]_vars
    PROVE  OneOwner'
<1>1. ASSUME NEW c \in Callers, StartStep(c)
      PROVE  OneOwner'
  <2>1. CASE FindExisting(c)
    <3>1. PICK l \in {"lock", "returned"} : Goto(c, l)
      BY <2>1 DEF FindExisting
    <3> QED
      BY <2>1, <3>1, NoNewOwner DEF FindExisting
  <2>2. CASE acquireWorkflowLock(c)
    <3>1. PICK l \in {"create", "wait"} : Goto(c, l)
      BY <2>2 DEF acquireWorkflowLock
    <3> QED
      BY <2>2, <3>1, NoNewOwner DEF acquireWorkflowLock
  <2>3. CASE waitForWorkflow(c)
    <3>1. PICK l \in {"returned", "busy"} : Goto(c, l)
      BY <2>3 DEF waitForWorkflow
    <3> QED
      BY <2>3, <3>1, NoNewOwner DEF waitForWorkflow
  <2>4. CASE CreateWorkflow(c)
    <3>1. CASE row = "none"
      <4>1. row' = "bare" /\ executed' = executed /\ executed = {}
        BY <2>4, <3>1 DEF CreateWorkflow, IInv, OneOwner
      <4>2. \A d \in Callers : ~Owns(d)
        BY <3>1 DEF IInv, OneOwner
      <4>3. \A d \in Callers : Owns(d)' => d = c /\ pc'[d] = "steps"
        BY <2>4, <3>1, <4>2 DEF CreateWorkflow, Goto, IInv, StartTypeOK, Owns
      <4> QED
        BY <4>1, <4>3 DEF OneOwner, Owns
    <3>2. CASE row # "none"
      <4>1. Goto(c, "get_err") /\ UNCHANGED <<row, executed>>
        BY <2>4, <3>2 DEF CreateWorkflow
      <4> QED
        BY <4>1, NoNewOwner
    <3> QED
      BY <3>1, <3>2
  <2>5. CASE CreateSteps(c)
    <3>1. Owns(c) /\ row' = "ready" /\ executed' = executed
      BY <2>5 DEF CreateSteps, Owns
    <3>2. \A d \in Callers : Owns(d)' => d = c
      BY <2>5, <3>1 DEF CreateSteps, Goto, IInv, StartTypeOK, OneOwner, Owns
    <3> QED
      BY <3>1, <3>2 DEF IInv, OneOwner
  <2>6. CASE ExecuteWorkflow(c)
    <3>1. Owns(c) /\ row' = "ready" /\ executed' = {c}
      BY <2>6 DEF ExecuteWorkflow, Owns, IInv, OneOwner
    <3>2. \A d \in Callers : ~Owns(d)'
      BY <2>6, <3>1 DEF ExecuteWorkflow, Goto, IInv, StartTypeOK, OneOwner, Owns
    <3> QED
      BY <3>1, <3>2 DEF OneOwner, Owns
  <2>7. CASE releaseWorkflowLock(c)
    <3>1. PICK l \in {"del", "del_err", "returned", "conflict"} : Goto(c, l)
      BY <2>7 DEF releaseWorkflowLock
    <3> QED
      BY <2>7, <3>1, NoNewOwner DEF releaseWorkflowLock
  <2> QED
    BY <1>1, <2>1, <2>2, <2>3, <2>4, <2>5, <2>6, <2>7 DEF StartStep
<1>2. ASSUME NEW c \in Callers, Crash(c)
      PROVE  OneOwner'
  BY <1>2, NoNewOwner DEF Crash
<1>3. CASE LockExpires
  BY <1>3 DEF LockExpires, IInv, OneOwner, Owns
<1>4. CASE UNCHANGED vars
  BY <1>4 DEF vars, IInv, OneOwner, Owns
<1> QED
  BY <1>1, <1>2, <1>3, <1>4 DEF Next

(***************************************************************************)
(* A set whose members are all one has at most one member.                 *)
(***************************************************************************)
LEMMA AtMostOne ==
    ASSUME NEW S, \A x, y \in S : x = y
    PROVE  Cardinality(S) <= 1
<1>1. CASE S = {}
  BY <1>1, FS_EmptySet
<1>2. CASE S # {}
  <2>1. PICK x : x \in S
    BY <1>2
  <2>2. S = {x}
    BY <2>1
  <2> QED
    BY <2>2, FS_Singleton
<1> QED
  BY <1>1, <1>2

(***************************************************************************)
(* Types and ownership hold in every state of startWorkflow's callers.     *)
(***************************************************************************)
THEOREM StartInvariance == Spec => []IInv
<1>1. IInv /\ [Next]_vars => IInv'
  <2> SUFFICES ASSUME IInv, [Next]_vars PROVE IInv'
    OBVIOUS
  <2>1. StartTypeOK'
    BY TypeStep DEF IInv
  <2> QED
    BY <2>1, OwnerStep DEF IInv
<1> QED
  BY <1>1, InitEstablishes, PTL DEF Spec

(***************************************************************************)
(* The workflow of a key is executed at most once, for any number of       *)
(* callers, expiries of the lock and stopped services (startWorkflow).     *)
(***************************************************************************)
THEOREM WorkflowExecutedOnce == Spec => []ExecutedOnce
<1>1. IInv => ExecutedOnce
  <2> SUFFICES ASSUME IInv PROVE ExecutedOnce
    OBVIOUS
  <2>1. Cardinality(executed) <= 1
    BY AtMostOne DEF IInv, OneOwner
  <2> QED
    BY <2>1 DEF IInv, OneOwner, Owns, ExecutedOnce
<1> QED
  BY <1>1, StartInvariance, PTL
=============================================================================
