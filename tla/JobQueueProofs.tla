--------------------------- MODULE JobQueueProofs ---------------------------
(***************************************************************************)
(* Proofs about JobQueue, for any jobs, attempts, requeue limit, number of *)
(* overlapping requeue calls and crashes.                                  *)
(***************************************************************************)
EXTENDS JobQueue, SequenceTheorems, TLAPS

Job == [st : States, tries : 0..Attempts, stalls : 0..1]
Call == [items : Seq(Ids), added : Nat]

Dead(i) == jobs[i].st \in {"failed", "removed"}

(***************************************************************************)
(* A job that is not over has attempts left.                               *)
(***************************************************************************)
Live == {"waiting", "active", "delayed"}

AttemptsLeft == \A i \in Ids : jobs[i].st \in Live \cup {"free"} => jobs[i].tries < Attempts

(***************************************************************************)
(* A job is announced as failed once, and pushed once, after it is dead.   *)
(***************************************************************************)
DeadOnce ==
    /\ \A i \in pending : Dead(i) /\ ~InDLQ(i)
    /\ \A k \in 1..Len(dlq) : Dead(dlq[k])
    /\ \A k, m \in 1..Len(dlq) : k # m => dlq[k] # dlq[m]

(***************************************************************************)
(* As long as requeue calls neither overlap nor skip an item, the one that *)
(* is under way has requeued the first items of the list and still holds   *)
(* the ones that follow them.                                              *)
(***************************************************************************)
Aligned ==
    ~uneven =>
        /\ \A a, b \in Operators : op[a] # None /\ op[b] # None => a = b
        /\ \A a \in Operators : op[a] # None =>
              /\ op[a].added + Len(op[a].items) <= Len(dlq)
              /\ \A k \in 1..op[a].added : dlq[k] \in requeued
              /\ \A k \in 1..Len(op[a].items) : dlq[op[a].added + k] = op[a].items[k]

Typed == JqTypeOK /\ op \in [Operators -> Call \cup {None}]

JqInv == Typed /\ AttemptsLeft /\ DeadOnce /\ Aligned /\ NothingDiscarded

-----------------------------------------------------------------------------
(***************************************************************************)
(* What the steps of a job do to it: nothing else moves, a dead job stays  *)
(* dead, and the job fails for good only when its attempts are used up.    *)
(***************************************************************************)
LEMMA JobsMove ==
    ASSUME Typed, AttemptsLeft, JqNext
    PROVE  /\ jobs' \in [Ids -> Job]
           /\ AttemptsLeft'
           /\ \A i \in Ids : Dead(i) => Dead(i)'
<1>t. jobs \in [Ids -> Job]
  BY DEF Typed, JqTypeOK, Job
<1>a. /\ Attempts \in Nat \ {0}
      /\ \A i \in Ids : jobs[i] \in Job /\ jobs[i].st \in States
                        /\ jobs[i].tries \in 0..Attempts /\ jobs[i].stalls \in 0..1
  BY <1>t, QueueAssumption DEF Job
<1>1. ASSUME NEW i \in Ids, NEW j \in Job, jobs' = [jobs EXCEPT ![i] = j], ~Dead(i),
             j.st \in Live \cup {"free"} => j.tries < Attempts
      PROVE  jobs' \in [Ids -> Job] /\ AttemptsLeft' /\ \A k \in Ids : Dead(k) => Dead(k)'
  <2>1. jobs'[i] = j /\ \A k \in Ids \ {i} : jobs'[k] = jobs[k]
    BY <1>t, <1>1
  <2> QED
    BY <1>t, <1>1, <2>1 DEF AttemptsLeft, Dead
<1>2. ASSUME NEW i \in Ids, jobs[i].st \in Live \cup {"free"},
             NEW st \in Live \cup {"completed"}, jobs' = [jobs EXCEPT ![i].st = st]
      PROVE  jobs' \in [Ids -> Job] /\ AttemptsLeft' /\ \A k \in Ids : Dead(k) => Dead(k)'
  <2> DEFINE j == [jobs[i] EXCEPT !.st = st]
  <2>1. j \in Job /\ j.st = st /\ j.tries = jobs[i].tries
    BY <1>a DEF Job, States, Live
  <2>2. jobs' = [jobs EXCEPT ![i] = j]
    BY <1>2, <1>t
  <2>3. ~Dead(i) /\ jobs[i].tries < Attempts
    BY <1>2 DEF Dead, Live, AttemptsLeft
  <2> HIDE DEF j
  <2> QED
    BY <1>1, <2>1, <2>2, <2>3
<1>3. ASSUME NEW i \in Ids, jobs[i].st = "active", Fails(i)
      PROVE  jobs' \in [Ids -> Job] /\ AttemptsLeft' /\ \A k \in Ids : Dead(k) => Dead(k)'
  <2> DEFINE n == jobs[i].tries + 1
             s == IF n < Attempts THEN "delayed" ELSE "failed"
             j == [jobs[i] EXCEPT !.tries = n, !.st = s]
  <2>1. jobs[i].tries < Attempts /\ ~Dead(i)
    BY <1>3 DEF AttemptsLeft, Live, Dead
  <2>2. n \in 0..Attempts /\ s \in States /\ (s \in Live \cup {"free"} => n < Attempts)
    BY <1>a, <2>1 DEF States, Live
  <2>3. j \in Job /\ j.st = s /\ j.tries = n
    BY <1>a, <2>2 DEF Job
  <2>4. jobs' = [jobs EXCEPT ![i] = j]
    BY <1>3, <1>t DEF Fails
  <2> HIDE DEF j
  <2> QED
    BY <1>1, <2>1, <2>2, <2>3, <2>4
<1>4. ASSUME NEW i \in NextId, jobs' = Added(i)
      PROVE  jobs' \in [Ids -> Job] /\ AttemptsLeft' /\ \A k \in Ids : Dead(k) => Dead(k)'
  BY <1>2, <1>4 DEF NextId, Added, Live
<1>5. CASE jobs' = jobs
  BY <1>t, <1>5 DEF AttemptsLeft, Dead
<1>6. CASE WorkerDies
  <2> DEFINE running == {i \in Ids : jobs[i].st = "active"}
             again == {i \in running : jobs[i].stalls = 0}
             w(i) == [jobs[i] EXCEPT !.st = "waiting", !.stalls = 1]
             f(i) == [jobs[i] EXCEPT !.st = "failed"]
  <2>1. jobs' = [i \in Ids |-> IF i \in again THEN w(i) ELSE IF i \in running THEN f(i) ELSE jobs[i]]
    BY <1>6 DEF WorkerDies
  <2>2. \A i \in Ids : /\ w(i) \in Job /\ w(i).st = "waiting" /\ w(i).tries = jobs[i].tries
                       /\ f(i) \in Job /\ f(i).st = "failed"
    <3>1. \A j \in Job : LET x == [j EXCEPT !.st = "waiting", !.stalls = 1] IN
             x \in Job /\ x.st = "waiting" /\ x.tries = j.tries
      <4> SUFFICES ASSUME NEW j \in Job
                   PROVE  LET x == [j EXCEPT !.st = "waiting", !.stalls = 1] IN
                          x \in Job /\ x.st = "waiting" /\ x.tries = j.tries
        OBVIOUS
      <4>1. 1 \in 0..1 /\ "waiting" \in States
        BY DEF States
      <4> QED
        BY <4>1 DEF Job
    <3>2. \A j \in Job : LET x == [j EXCEPT !.st = "failed"] IN x \in Job /\ x.st = "failed"
      BY DEF Job, States
    <3> QED
      BY <1>a, <3>1, <3>2
  <2>3. \A i \in again : i \in running
    OBVIOUS
  <2>4. \A i \in running : ~Dead(i) /\ jobs[i].tries < Attempts
    BY DEF Dead, AttemptsLeft, Live
  <2> HIDE DEF w, f, again, running
  <2>5. jobs' \in [Ids -> Job]
    BY <1>t, <2>1, <2>2
  <2>6. AttemptsLeft'
    BY <1>t, <2>1, <2>2, <2>3, <2>4 DEF AttemptsLeft, Live
  <2>7. \A i \in Ids : Dead(i) => Dead(i)'
    BY <2>1, <2>3, <2>4 DEF Dead
  <2> QED
    BY <2>5, <2>6, <2>7
<1>7. CASE purgeQueue
  <2> DEFINE r(i) == [jobs[i] EXCEPT !.st = "removed"]
  <2>1. jobs' = [i \in Ids |-> IF jobs[i].st = "failed" THEN r(i) ELSE jobs[i]]
    BY <1>7 DEF purgeQueue
  <2>2. \A i \in Ids : r(i) \in Job /\ r(i).st = "removed"
    BY <1>a DEF Job, States
  <2> HIDE DEF r
  <2> QED
    BY <1>t, <2>1, <2>2 DEF AttemptsLeft, Dead, Live
<1>8. ASSUME NEW i \in Ids, addJob(i) \/ JobStep(i) \/ handleJobFailure(i) \/ requeueJob(i)
      PROVE  jobs' \in [Ids -> Job] /\ AttemptsLeft' /\ \A k \in Ids : Dead(k) => Dead(k)'
  <2>1. CASE addJob(i)
    BY <1>4, <2>1 DEF addJob
  <2>2. CASE Take(i)
    BY <1>2, <2>2 DEF Take, Live
  <2>3. CASE ProcessJob(i)
    BY <1>2, <1>3, <2>3 DEF ProcessJob, handleDeployContract, handleProcessTts,
                            handleIndexMarketNews, Completes, Live
  <2>4. CASE BackoffOver(i)
    BY <1>2, <2>4 DEF BackoffOver, Live
  <2>5. CASE handleJobFailure(i)
    BY <1>5, <2>5 DEF handleJobFailure
  <2>6. CASE requeueJob(i)
    BY <1>4, <2>6 DEF requeueJob
  <2> QED
    BY <1>8, <2>1, <2>2, <2>3, <2>4, <2>5, <2>6 DEF JobStep
<1>9. ASSUME NEW a \in Operators, ReadDLQ(a) \/ RequeueItem(a) \/ TrimDLQ(a)
      PROVE  jobs' \in [Ids -> Job] /\ AttemptsLeft' /\ \A k \in Ids : Dead(k) => Dead(k)'
  BY <1>4, <1>5, <1>9 DEF ReadDLQ, RequeueItem, TrimDLQ
<1> QED
  BY <1>6, <1>7, <1>8, <1>9 DEF JqNext

(***************************************************************************)
(* The list of dead jobs, the events and the requeue calls stay typed.     *)
(***************************************************************************)
LEMMA TypeStep ==
    ASSUME Typed, AttemptsLeft, JqNext
    PROVE  Typed'
<1>j. jobs' \in [Ids -> Job]
  BY JobsMove
<1>t. /\ dlq \in Seq(Ids) /\ pending \subseteq Ids /\ op \in [Operators -> Call \cup {None}]
      /\ pushed \subseteq Ids /\ requeued \subseteq Ids /\ uneven \in BOOLEAN
  BY DEF Typed, JqTypeOK
<1>c. \A a \in Operators : op[a] # None => op[a] \in Call /\ op[a].items \in Seq(Ids) /\ op[a].added \in Nat
  BY <1>t DEF Call
<1>q. ASSUME dlq' \in Seq(Ids), pending' \subseteq Ids, op' \in [Operators -> Call \cup {None}],
             pushed' \subseteq Ids, requeued' \subseteq Ids, uneven' \in BOOLEAN
      PROVE  Typed'
  <2>1. \A a \in Operators : op'[a] = None \/ op'[a].items \in Seq(Ids)
    BY <1>q DEF Call
  <2> QED
    BY <1>j, <1>q, <2>1 DEF Typed, JqTypeOK, Job
<1>1. ASSUME NEW i \in Ids, addJob(i) \/ JobStep(i) \/ handleJobFailure(i) \/ requeueJob(i)
      PROVE  Typed'
  <2>1. CASE addJob(i) \/ JobStep(i) \/ requeueJob(i)
    BY <1>t, <1>q, <2>1 DEF addJob, JobStep, requeueJob, Take, ProcessJob, BackoffOver, jqGhosts,
         handleDeployContract, handleProcessTts, handleIndexMarketNews, Fails, Completes
  <2>2. CASE handleJobFailure(i)
    <3>1. Append(dlq, i) \in Seq(Ids)
      BY <1>t
    <3> QED
      BY <1>t, <1>q, <2>2, <3>1 DEF handleJobFailure
  <2> QED
    BY <1>1, <2>1, <2>2
<1>2. CASE WorkerDies
  <2>1. op' \in [Operators -> Call \cup {None}]
    BY <1>2 DEF WorkerDies
  <2>2. uneven' \in BOOLEAN
    BY <1>2, <1>t DEF WorkerDies
  <2> QED
    BY <1>2, <1>t, <1>q, <2>1, <2>2 DEF WorkerDies
<1>3. CASE purgeQueue
  BY <1>3, <1>t, <1>q DEF purgeQueue, jqGhosts
<1>4. ASSUME NEW a \in Operators, ReadDLQ(a)
      PROVE  Typed'
  <2> DEFINE n == IF Len(dlq) < RequeueLimit THEN Len(dlq) ELSE RequeueLimit
             c == [items |-> SubSeq(dlq, 1, n), added |-> 0]
  <2>1. n \in Nat /\ n <= Len(dlq)
    BY <1>t, QueueAssumption
  <2>2. SubSeq(dlq, 1, n) \in Seq(Ids)
    BY <1>t, <2>1, SubSeqProperties
  <2>3. c \in Call
    BY <2>2 DEF Call
  <2>4. op' = [op EXCEPT ![a] = c]
    BY <1>4 DEF ReadDLQ
  <2> HIDE DEF c
  <2>5. op' \in [Operators -> Call \cup {None}]
    BY <1>t, <2>3, <2>4
  <2>6. uneven' \in BOOLEAN
    BY <1>4, <1>t DEF ReadDLQ
  <2> QED
    BY <1>4, <1>t, <1>q, <2>5, <2>6 DEF ReadDLQ
<1>5. ASSUME NEW a \in Operators, RequeueItem(a)
      PROVE  Typed'
  <2>1. op[a] \in Call /\ op[a].items \in Seq(Ids) /\ op[a].items # <<>> /\ op[a].added \in Nat
    BY <1>5, <1>c DEF RequeueItem
  <2>2. Head(op[a].items) \in Ids /\ Tail(op[a].items) \in Seq(Ids)
    BY <2>1, HeadTailProperties
  <2> DEFINE c == [items |-> Tail(op[a].items), added |-> op[a].added + 1]
             d == [op[a] EXCEPT !.items = Tail(op[a].items)]
  <2>3. c \in Call /\ d \in Call
    BY <2>1, <2>2, SMTT(30) DEF Call
  <2>4. op' = [op EXCEPT ![a] = c] \/ op' = [op EXCEPT ![a] = d]
    BY <1>5, <1>t DEF RequeueItem
  <2> HIDE DEF c, d
  <2>5. op' \in [Operators -> Call \cup {None}]
    BY <1>t, <2>3, <2>4
  <2>6. requeued' \subseteq Ids /\ uneven' \in BOOLEAN
    BY <1>5, <1>t, <2>2 DEF RequeueItem
  <2> QED
    BY <1>5, <1>t, <1>q, <2>5, <2>6 DEF RequeueItem
<1>6. ASSUME NEW a \in Operators, TrimDLQ(a)
      PROVE  Typed'
  <2>1. op[a].added \in Nat
    BY <1>6, <1>c DEF TrimDLQ
  <2>2. dlq' \in Seq(Ids)
    BY <1>6, <1>t, <2>1, SubSeqProperties DEF TrimDLQ, Trimmed
  <2>3. op' \in [Operators -> Call \cup {None}]
    BY <1>6, <1>t DEF TrimDLQ
  <2> QED
    BY <1>6, <1>t, <1>q, <2>2, <2>3 DEF TrimDLQ, jqGhosts
<1> QED
  BY <1>1, <1>2, <1>3, <1>4, <1>5, <1>6 DEF JqNext

(***************************************************************************)
(* A trimmed list is what followed the items trimmed off.                  *)
(***************************************************************************)
LEMMA Trimming ==
    ASSUME Typed, NEW a \in Operators, TrimDLQ(a)
    PROVE  LET n == op[a].added IN
           /\ n \in Nat
           /\ Len(dlq') = IF n < Len(dlq) THEN Len(dlq) - n ELSE 0
           /\ \A k \in 1..Len(dlq') : n + k \in 1..Len(dlq) /\ dlq'[k] = dlq[n + k]
<1> DEFINE n == op[a].added
<1>1. dlq \in Seq(Ids) /\ Len(dlq) \in Nat /\ n \in Nat
  BY DEF Typed, JqTypeOK, TrimDLQ, Call
<1>2. dlq' = SubSeq(dlq, n + 1, Len(dlq))
  BY DEF TrimDLQ, Trimmed
<1> HIDE DEF n
<1>3. /\ Len(dlq') = IF n + 1 <= Len(dlq) THEN Len(dlq) - (n + 1) + 1 ELSE 0
      /\ \A k \in 1..(Len(dlq) - (n + 1) + 1) : dlq'[k] = dlq[(n + 1) + k - 1]
  BY <1>1, <1>2, SubSeqProperties
<1>4. Len(dlq') = IF n < Len(dlq) THEN Len(dlq) - n ELSE 0
  BY <1>1, <1>3
<1>5. ASSUME NEW k \in 1..Len(dlq')
      PROVE  n + k \in 1..Len(dlq) /\ dlq'[k] = dlq[n + k]
  <2>1. n < Len(dlq) /\ k \in 1..(Len(dlq) - n)
    BY <1>1, <1>4
  <2>2. n + k \in 1..Len(dlq) /\ k \in 1..(Len(dlq) - (n + 1) + 1) /\ (n + 1) + k - 1 = n + k
    BY <1>1, <2>1
  <2> QED
    BY <1>3, <2>2
<1>6. n \in Nat
  BY <1>1
<1> QED
  BY <1>4, <1>5, <1>6 DEF n

(***************************************************************************)
(* Only a job that has just used its last attempt is announced, and only   *)
(* an announced one is pushed.                                             *)
(***************************************************************************)
LEMMA DeadStep ==
    ASSUME Typed, AttemptsLeft, DeadOnce, JqNext
    PROVE  DeadOnce'
<1>d. \A i \in Ids : Dead(i) => Dead(i)'
  BY JobsMove
<1>t. /\ dlq \in Seq(Ids) /\ pending \subseteq Ids /\ Len(dlq) \in Nat /\ DOMAIN dlq = 1..Len(dlq)
      /\ \A k \in 1..Len(dlq) : dlq[k] \in Ids
  BY DEF Typed, JqTypeOK
<1>i. \A i \in Ids : InDLQ(i) <=> \E k \in 1..Len(dlq) : dlq[k] = i
  BY <1>t DEF InDLQ
<1>s. ASSUME dlq' = dlq, pending' \subseteq pending
      PROVE  DeadOnce'
  <2>1. \A k \in 1..Len(dlq') : Dead(dlq[k])'
    BY <1>d, <1>t, <1>s DEF DeadOnce, Dead
  <2> QED
    BY <1>d, <1>t, <1>s, <2>1 DEF DeadOnce, InDLQ, Dead
<1>1. ASSUME NEW i \in Ids, ProcessJob(i)
      PROVE  DeadOnce'
  <2>1. CASE pending' = pending
    BY <1>1, <1>s, <2>1 DEF ProcessJob
  <2>2. CASE Fails(i) /\ pending' # pending
    <3> DEFINE n == jobs[i].tries + 1
    <3>1. jobs[i] \in Job /\ jobs[i].tries \in Nat /\ Attempts \in Nat /\ jobs \in [Ids -> Job]
      BY QueueAssumption DEF Typed, JqTypeOK, Job
    <3>2. pending' = pending \cup {i} /\ n >= Attempts
      BY <2>2 DEF Fails, Exhausted
    <3>3. Dead(i)'
      <4>1. ~(n < Attempts)
        BY <3>1, <3>2
      <4> DEFINE j == [jobs[i] EXCEPT !.tries = n, !.st = IF n < Attempts THEN "delayed" ELSE "failed"]
      <4>2. j.st = "failed"
        BY <3>1, <4>1 DEF Job
      <4>3. jobs' = [jobs EXCEPT ![i] = j]
        BY <2>2, <3>1 DEF Fails
      <4> HIDE DEF j
      <4> QED
        BY <3>1, <4>2, <4>3 DEF Dead
    <3>4. ~InDLQ(i)
      BY <1>1, <1>i DEF ProcessJob, DeadOnce, Dead
    <3>5. dlq' = dlq
      BY <1>1 DEF ProcessJob
    <3>6. \A k \in 1..Len(dlq') : Dead(dlq[k])'
      BY <1>d, <1>t, <3>5 DEF DeadOnce, Dead
    <3> QED
      BY <1>d, <1>t, <3>2, <3>3, <3>4, <3>5, <3>6 DEF DeadOnce, InDLQ, Dead
  <2> QED
    BY <1>1, <2>1, <2>2 DEF ProcessJob, handleDeployContract, handleProcessTts,
                            handleIndexMarketNews, Completes
<1>2. ASSUME NEW i \in Ids, handleJobFailure(i)
      PROVE  DeadOnce'
  <2>1. i \in pending /\ pending' = pending \ {i} /\ (dlq' = Append(dlq, i) \/ dlq' = dlq)
    BY <1>2 DEF handleJobFailure
  <2>2. CASE dlq' = dlq
    BY <1>s, <2>1, <2>2
  <2>3. CASE dlq' = Append(dlq, i)
    <3>1. /\ Len(dlq') = Len(dlq) + 1 /\ dlq'[Len(dlq) + 1] = i /\ DOMAIN dlq' = 1..(Len(dlq) + 1)
          /\ \A k \in 1..Len(dlq) : dlq'[k] = dlq[k]
      BY <1>t, <2>3
    <3>2. Dead(i)' /\ ~InDLQ(i)
      BY <1>d, <1>t, <2>1 DEF DeadOnce
    <3>3. \A k \in 1..Len(dlq) : dlq[k] # i
      BY <1>i, <3>2
    <3>4. \A k \in 1..Len(dlq') : dlq'[k] = i \/ (k \in 1..Len(dlq) /\ dlq'[k] = dlq[k])
      BY <1>t, <3>1
    <3>5. \A k \in 1..Len(dlq') : Dead(dlq[k])'
      BY <1>d, <1>t, <3>2, <3>4 DEF DeadOnce, Dead
    <3>6. \A k, m \in 1..Len(dlq') : k # m => dlq'[k] # dlq'[m]
      BY <1>t, <3>1, <3>3 DEF DeadOnce
    <3>7. \A j \in pending' : Dead(j)' /\ ~InDLQ(j)'
      <4> SUFFICES ASSUME NEW j \in pending' PROVE Dead(j)' /\ ~InDLQ(j)'
        OBVIOUS
      <4>1. j \in Ids /\ j # i /\ Dead(j) /\ ~InDLQ(j)
        BY <1>t, <2>1 DEF DeadOnce
      <4>2. \A k \in 1..Len(dlq') : dlq'[k] # j
        BY <1>i, <3>4, <4>1
      <4> QED
        BY <1>d, <3>1, <4>1, <4>2 DEF InDLQ
    <3> QED
      BY <3>5, <3>6, <3>7 DEF DeadOnce
  <2> QED
    BY <2>1, <2>2, <2>3
<1>3. ASSUME NEW a \in Operators, TrimDLQ(a)
      PROVE  DeadOnce'
  <2> DEFINE n == op[a].added
  <2>1. /\ n \in Nat /\ \A k \in 1..Len(dlq') : n + k \in 1..Len(dlq) /\ dlq'[k] = dlq[n + k]
        /\ Len(dlq') \in Nat
    BY <1>3, <1>t, Trimming
  <2>2. pending' = pending /\ DOMAIN dlq' = 1..Len(dlq')
    <3>1. dlq' \in Seq(Ids)
      BY <1>3, TypeStep DEF Typed, JqTypeOK, JqNext
    <3> QED
      BY <1>3, <3>1 DEF TrimDLQ
  <2> HIDE DEF n
  <2>3. \A k \in 1..Len(dlq') : Dead(dlq[k])'
    BY <1>d, <1>t, <2>1 DEF DeadOnce, Dead
  <2>4. \A k, m \in 1..Len(dlq') : k # m => dlq'[k] # dlq'[m]
    BY <2>1 DEF DeadOnce
  <2>5. \A j \in pending' : Dead(j)' /\ ~InDLQ(j)'
    BY <1>d, <1>t, <1>i, <2>1, <2>2 DEF DeadOnce, InDLQ
  <2> QED
    BY <2>3, <2>4, <2>5 DEF DeadOnce
<1>4. ASSUME \/ \E i \in Ids : addJob(i) \/ Take(i) \/ BackoffOver(i) \/ requeueJob(i)
             \/ WorkerDies \/ purgeQueue
             \/ \E a \in Operators : ReadDLQ(a) \/ RequeueItem(a)
      PROVE  DeadOnce'
  BY <1>4, <1>s DEF addJob, Take, BackoffOver, requeueJob, WorkerDies, purgeQueue, ReadDLQ, RequeueItem
<1> QED
  BY <1>1, <1>2, <1>3, <1>4 DEF JqNext, JobStep

(***************************************************************************)
(* The list only grows at its end while a call is under way, so the call   *)
(* trims exactly the items it requeued.                                    *)
(***************************************************************************)
LEMMA AlignedStep ==
    ASSUME Typed, Aligned, NothingDiscarded, JqNext, Typed'
    PROVE  Aligned' /\ NothingDiscarded'
<1>t. /\ dlq \in Seq(Ids) /\ Len(dlq) \in Nat /\ DOMAIN dlq = 1..Len(dlq)
      /\ dlq' \in Seq(Ids) /\ Len(dlq') \in Nat /\ DOMAIN dlq' = 1..Len(dlq')
      /\ op \in [Operators -> Call \cup {None}] /\ None \notin Call
  BY QueueAssumption DEF Typed, JqTypeOK, Call
<1>c. \A a \in Operators : op[a] # None =>
         op[a].items \in Seq(Ids) /\ op[a].added \in Nat /\ Len(op[a].items) \in Nat
  BY <1>t DEF Call
<1> SUFFICES ASSUME ~uneven' PROVE Aligned' /\ NothingDiscarded'
  BY DEF Aligned, NothingDiscarded
<1>1. CASE UNCHANGED <<dlq, op, pushed, requeued, uneven>>
  BY <1>1 DEF Aligned, NothingDiscarded, InDLQ
<1>2. ASSUME NEW i \in Ids, handleJobFailure(i), dlq' = Append(dlq, i), pushed' = pushed \cup {i}
      PROVE  Aligned' /\ NothingDiscarded'
  <2>1. /\ Len(dlq') = Len(dlq) + 1 /\ dlq'[Len(dlq) + 1] = i
        /\ \A k \in 1..Len(dlq) : dlq'[k] = dlq[k]
    BY <1>t, <1>2
  <2>2. op' = op /\ requeued' = requeued /\ ~uneven
    BY <1>2 DEF handleJobFailure
  <2>3. NothingDiscarded'
    BY <1>t, <1>2, <2>1, <2>2 DEF NothingDiscarded, InDLQ
  <2>4. Aligned'
    <3>1. \A a \in Operators : op[a] # None =>
             /\ op[a].added + Len(op[a].items) <= Len(dlq')
             /\ \A k \in 1..op[a].added : dlq'[k] \in requeued
             /\ \A k \in 1..Len(op[a].items) : dlq'[op[a].added + k] = op[a].items[k]
      <4> SUFFICES ASSUME NEW a \in Operators, op[a] # None
                   PROVE  /\ op[a].added + Len(op[a].items) <= Len(dlq')
                          /\ \A k \in 1..op[a].added : dlq'[k] \in requeued
                          /\ \A k \in 1..Len(op[a].items) : dlq'[op[a].added + k] = op[a].items[k]
        OBVIOUS
      <4>1. /\ op[a].added + Len(op[a].items) <= Len(dlq)
            /\ \A k \in 1..op[a].added : dlq[k] \in requeued
            /\ \A k \in 1..Len(op[a].items) : dlq[op[a].added + k] = op[a].items[k]
        BY <2>2 DEF Aligned
      <4> DEFINE n == op[a].added
                 m == Len(op[a].items)
      <4>2. n \in Nat /\ m \in Nat /\ n + m <= Len(dlq)
        BY <1>c, <4>1
      <4>3. n + m <= Len(dlq')
        <5> HIDE DEF n, m
        <5> QED
          BY <1>t, <2>1, <4>2
      <4>4. \A k \in 1..n : k \in 1..Len(dlq)
        <5> HIDE DEF n, m
        <5> QED
          BY <1>t, <4>2
      <4>5. \A k \in 1..m : n + k \in 1..Len(dlq)
        <5> HIDE DEF n, m
        <5> QED
          BY <1>t, <4>2
      <4> QED
        BY <2>1, <4>1, <4>3, <4>4, <4>5
    <3> QED
      BY <2>2, <3>1 DEF Aligned
  <2> QED
    BY <2>3, <2>4
<1>3. CASE WorkerDies
  <2>1. /\ ~uneven /\ \A a \in Operators : op'[a] = None
        /\ UNCHANGED <<dlq, pushed, requeued>>
    BY <1>3 DEF WorkerDies
  <2> QED
    BY <2>1 DEF Aligned, NothingDiscarded, InDLQ
<1>4. ASSUME NEW a \in Operators, ReadDLQ(a)
      PROVE  Aligned' /\ NothingDiscarded'
  <2> DEFINE n == IF Len(dlq) < RequeueLimit THEN Len(dlq) ELSE RequeueLimit
             c == [items |-> SubSeq(dlq, 1, n), added |-> 0]
  <2>1. n \in Nat /\ n <= Len(dlq)
    BY <1>t, QueueAssumption
  <2>2. Len(c.items) = n /\ c.added = 0 /\ \A k \in 1..n : c.items[k] = dlq[k]
    BY <1>t, <2>1, SubSeqProperties
  <2>3. op' = [op EXCEPT ![a] = c]
    BY <1>4 DEF ReadDLQ
  <2> HIDE DEF c, n
  <2>4. op'[a] = c /\ \A b \in Operators \ {a} : op'[b] = op[b]
    BY <1>t, <2>3
  <2>5. ~uneven /\ (\A b \in Operators : op[b] = None) /\ UNCHANGED <<dlq, pushed, requeued>>
    BY <1>4 DEF ReadDLQ
  <2>6. Aligned'
    BY <2>1, <2>2, <2>4, <2>5 DEF Aligned
  <2> QED
    BY <2>5, <2>6 DEF NothingDiscarded, InDLQ
<1>5. ASSUME NEW a \in Operators, RequeueItem(a)
      PROVE  Aligned' /\ NothingDiscarded'
  <2> DEFINE s == op[a].items
             n == op[a].added
             c == [items |-> Tail(s), added |-> n + 1]
  <2>1. s \in Seq(Ids) /\ s # <<>> /\ n \in Nat /\ op[a] # None
    BY <1>5, <1>c DEF RequeueItem
  <2>2. /\ op' = [op EXCEPT ![a] = c] /\ requeued' = requeued \cup {Head(s)} /\ ~uneven
        /\ UNCHANGED <<dlq, pushed>>
    BY <1>5, <1>t DEF RequeueItem
  <2>3. /\ Len(s) \in Nat \ {0} /\ Head(s) = s[1] /\ Len(Tail(s)) = Len(s) - 1
        /\ \A k \in 1..(Len(s) - 1) : Tail(s)[k] = s[k + 1]
    BY <2>1
  <2>4. /\ n + Len(s) <= Len(dlq) /\ \A k \in 1..n : dlq[k] \in requeued
        /\ \A k \in 1..Len(s) : dlq[n + k] = s[k]
        /\ \A b \in Operators \ {a} : op[b] = None
    BY <2>1, <2>2 DEF Aligned
  <2>5. c.items = Tail(s) /\ c.added = n + 1
    OBVIOUS
  <2> HIDE DEF c, s, n
  <2>6. op'[a] = c /\ \A b \in Operators \ {a} : op'[b] = op[b]
    BY <1>t, <2>2
  <2>7. /\ c.added + Len(c.items) <= Len(dlq)
        /\ \A k \in 1..c.added : dlq[k] \in requeued'
        /\ \A k \in 1..Len(c.items) : dlq[c.added + k] = c.items[k]
    <3>1. n + 1 + (Len(s) - 1) <= Len(dlq)
      BY <1>t, <2>1, <2>3, <2>4
    <3>2. dlq[n + 1] = Head(s)
      BY <2>3, <2>4
    <3>3. \A k \in 1..(n + 1) : k = n + 1 \/ k \in 1..n
      BY <2>1
    <3>4. \A k \in 1..(Len(s) - 1) : dlq[n + (k + 1)] = s[k + 1] /\ n + (k + 1) = (n + 1) + k
      BY <2>1, <2>3, <2>4
    <3> QED
      BY <2>2, <2>3, <2>4, <2>5, <3>1, <3>2, <3>3, <3>4
  <2>8. Aligned'
    BY <2>2, <2>4, <2>6, <2>7 DEF Aligned
  <2> QED
    BY <2>2, <2>8 DEF NothingDiscarded, InDLQ
<1>6. ASSUME NEW a \in Operators, TrimDLQ(a)
      PROVE  Aligned' /\ NothingDiscarded'
  <2> DEFINE n == op[a].added
  <2>1. /\ op[a] # None /\ op[a].items = <<>> /\ op' = [op EXCEPT ![a] = None]
        /\ ~uneven /\ pushed' = pushed /\ requeued' = requeued
    BY <1>6 DEF TrimDLQ, jqGhosts
  <2>2. /\ n \in Nat /\ n <= Len(dlq) /\ \A k \in 1..n : dlq[k] \in requeued
        /\ \A b \in Operators \ {a} : op[b] = None
    BY <1>c, <1>t, <2>1 DEF Aligned
  <2>3. /\ Len(dlq') = IF n < Len(dlq) THEN Len(dlq) - n ELSE 0
        /\ \A k \in 1..Len(dlq') : dlq'[k] = dlq[n + k]
    BY <1>6, Trimming
  <2> HIDE DEF n
  <2>4. \A b \in Operators : op'[b] = None
    BY <1>t, <2>1, <2>2
  <2>5. \A k \in 1..Len(dlq) : k \in 1..n \/ (k - n \in 1..Len(dlq') /\ dlq'[k - n] = dlq[k])
    <3> SUFFICES ASSUME NEW k \in 1..Len(dlq), k \notin 1..n
                 PROVE  k - n \in 1..Len(dlq') /\ dlq'[k - n] = dlq[k]
      OBVIOUS
    <3>1. n < Len(dlq) /\ k - n \in 1..(Len(dlq) - n) /\ n + (k - n) = k
      BY <1>t, <2>2
    <3>2. Len(dlq') = Len(dlq) - n
      BY <2>3, <3>1
    <3>3. k - n \in 1..Len(dlq')
      BY <3>1, <3>2
    <3> QED
      BY <2>3, <3>1, <3>3
  <2>6. NothingDiscarded'
    <3> SUFFICES ASSUME NEW i \in pushed PROVE (\E k \in 1..Len(dlq') : dlq'[k] = i) \/ i \in requeued
      BY <1>t, <2>1 DEF NothingDiscarded, InDLQ
    <3>1. (\E k \in 1..Len(dlq) : dlq[k] = i) \/ i \in requeued
      BY <1>t, <2>1 DEF NothingDiscarded, InDLQ
    <3> QED
      BY <2>2, <2>5, <3>1
  <2> QED
    BY <2>4, <2>6 DEF Aligned
<1> QED
  BY <1>1, <1>2, <1>3, <1>4, <1>5, <1>6
     DEF JqNext, addJob, JobStep, Take, ProcessJob, BackoffOver, requeueJob, purgeQueue,
         handleJobFailure, jqGhosts

-----------------------------------------------------------------------------
(***************************************************************************)
(* The invariant holds in every state of the queue.                        *)
(***************************************************************************)
THEOREM QueueInvariance == JqSpec => []JqInv
<1>1. JqInit => JqInv
  <2> SUFFICES ASSUME JqInit PROVE JqInv
    OBVIOUS
  <2>0. Attempts \in Nat \ {0}
    BY QueueAssumption
  <2>1. \A i \in Ids : jobs[i] = FreeJob
    BY DEF JqInit
  <2>2. FreeJob \in Job /\ FreeJob.tries = 0
    BY <2>0 DEF FreeJob, Job, States
  <2>3. Typed
    <3>1. jobs \in [Ids -> Job]
      BY <2>2 DEF JqInit
    <3>2. op \in [Operators -> Call \cup {None}] /\ \A a \in Operators : op[a] = None
      BY DEF JqInit
    <3>3. dlq \in Seq(Ids)
      BY DEF JqInit
    <3>4. pending \subseteq Ids /\ pushed \subseteq Ids /\ requeued \subseteq Ids
      BY DEF JqInit
    <3>5. uneven \in BOOLEAN
      BY DEF JqInit
    <3> QED
      BY <3>1, <3>2, <3>3, <3>4, <3>5 DEF Typed, JqTypeOK, Job
  <2>4. AttemptsLeft
    BY <2>0, <2>1, <2>2 DEF AttemptsLeft
  <2>5. DeadOnce
    BY DEF JqInit, DeadOnce
  <2>6. Aligned /\ NothingDiscarded
    BY DEF JqInit, Aligned, NothingDiscarded
  <2> QED
    BY <2>3, <2>4, <2>5, <2>6 DEF JqInv
<1>2. JqInv /\ [JqNext]_jqVars => JqInv'
  <2> SUFFICES ASSUME JqInv, [JqNext]_jqVars PROVE JqInv'
    OBVIOUS
  <2>1. CASE JqNext
    <3>1. Typed' /\ AttemptsLeft'
      BY <2>1, TypeStep, JobsMove DEF JqInv
    <3>2. DeadOnce'
      BY <2>1, DeadStep DEF JqInv
    <3>3. Aligned' /\ NothingDiscarded'
      BY <2>1, <3>1, AlignedStep DEF JqInv
    <3> QED
      BY <3>1, <3>2, <3>3 DEF JqInv
  <2>2. CASE UNCHANGED jqVars
    BY <2>2 DEF jqVars, JqInv, Typed, JqTypeOK, AttemptsLeft, DeadOnce, Dead, InDLQ, Aligned,
                NothingDiscarded
  <2> QED
    BY <2>1, <2>2
<1> QED
  BY <1>1, <1>2, PTL DEF JqSpec

(***************************************************************************)
(* What is on the dead-letter list has failed for good, and is listed once *)
(* (handleJobFailure), whatever workers die and operators requeue.         *)
(***************************************************************************)
THEOREM TheDeadAreDead == JqSpec => []DeadIsDead
<1>1. JqInv => DeadIsDead
  <2> SUFFICES ASSUME JqInv PROVE DeadIsDead
    OBVIOUS
  <2>1. DOMAIN dlq = 1..Len(dlq)
    BY DEF JqInv, Typed, JqTypeOK
  <2> QED
    BY <2>1 DEF JqInv, Typed, DeadOnce, Dead, DeadIsDead
<1> QED
  BY <1>1, QueueInvariance, PTL

(***************************************************************************)
(* A requeue call that neither overlaps another nor fails to add a job     *)
(* trims what it requeued and nothing else (requeueFromDLQ), for any       *)
(* limit and any jobs pushed meanwhile.                                    *)
(***************************************************************************)
THEOREM NothingIsDiscarded == JqSpec => []NothingDiscarded
<1>1. JqInv => NothingDiscarded
  BY DEF JqInv
<1> QED
  BY <1>1, QueueInvariance, PTL
=============================================================================
