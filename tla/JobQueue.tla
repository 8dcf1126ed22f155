------------------------------ MODULE JobQueue ------------------------------
(***************************************************************************)
(* The background job queue (Backend/src/queue): jobs handed to Bull, the  *)
(* processors that run them, the dead-letter list kept by QueueService,    *)
(* and the operator's endpoints.  Bull itself is external: it retries a    *)
(* failed job until its attempts are used up, and gives a job whose worker *)
(* died one more chance before it fails it as stalled.  The three queues   *)
(* are independent and alike; this is one of them.                         *)
(***************************************************************************)
EXTENDS Absent, Naturals, Sequences, FiniteSets

CONSTANTS
    Ids,           \* job ids, numbers: as many as a run may use
    Operators,     \* concurrent requeueFromDLQ calls, numbered as they overlap
    Attempts,      \* attempts of a job (3)
    RequeueLimit,  \* DLQ items one call requeues (10)
    MaxCrashes     \* bound on the crashes of the worker

ASSUME QueueAssumption ==
    /\ Ids \subseteq Nat /\ Operators \subseteq Nat
    /\ Attempts \in Nat \ {0} /\ RequeueLimit \in Nat \ {0}
    /\ None \notin [items : Seq(Ids), added : Nat]

VARIABLES
    jobs,      \* Bull's jobs
    dlq,       \* the dead-letter list: ids of the jobs pushed, oldest first
    pending,   \* jobs whose 'failed' event has not been handled yet
    op,        \* requeueFromDLQ calls in progress
    crashes,
    pushed,    \* jobs ever pushed to the dead-letter list
    requeued,  \* jobs ever requeued from it
    uneven     \* requeue calls overlapped, or one of their adds failed

jqVars == <<jobs, dlq, pending, op, crashes, pushed, requeued, uneven>>
jqGhosts == <<pushed, requeued, uneven>>

States == {"free", "waiting", "active", "delayed", "completed", "failed", "removed"}

\* Bull's jobs and the service's own state are well typed.
JqTypeOK ==
    /\ jobs \in [Ids -> [st : States, tries : 0..Attempts, stalls : 0..1]]
    /\ dlq \in Seq(Ids) /\ pending \subseteq Ids
    /\ \A a \in Operators : op[a] = None \/ op[a].items \in Seq(Ids)
    /\ pushed \subseteq Ids /\ requeued \subseteq Ids /\ uneven \in BOOLEAN

FreeJob == [st |-> "free", tries |-> 0, stalls |-> 0]

JqInit ==
    /\ jobs = [i \in Ids |-> FreeJob]
    /\ dlq = <<>> /\ pending = {} /\ crashes = 0
    /\ op = [a \in Operators |-> None]
    /\ pushed = {} /\ requeued = {} /\ uneven = FALSE

\* Bull numbers its jobs: the next id, if the bound on ids leaves one.
NextId == {i \in Ids : jobs[i].st = "free" /\ \A j \in Ids : j < i => jobs[j].st # "free"}
Added(i) == [jobs EXCEPT ![i].st = "waiting"]

-----------------------------------------------------------------------------
addJob(i) ==
    /\ i \in NextId
    /\ jobs' = Added(i)
    /\ UNCHANGED <<dlq, pending, op, crashes, jqGhosts>>

Take(i) ==
    /\ jobs[i].st = "waiting"
    /\ jobs' = [jobs EXCEPT ![i].st = "active"]
    /\ UNCHANGED <<dlq, pending, op, crashes, jqGhosts>>

\* Faulty: one attempt too early.
ExhaustedEarly(tries) == tries >= Attempts - 1

Exhausted(tries) == tries >= Attempts

\* The processor throws: Bull counts the attempt, and either delays the job
\* or fails it.  It emits 'failed' in both cases; the handler ignores it
\* while attempts are left.
Fails(i) ==
    LET n == jobs[i].tries + 1 IN
    /\ jobs' = [jobs EXCEPT ![i].tries = n,
                            ![i].st = IF n < Attempts THEN "delayed" ELSE "failed"]
    /\ pending' = IF Exhausted(n) THEN pending \cup {i} ELSE pending

Completes(i) == jobs' = [jobs EXCEPT ![i].st = "completed"] /\ UNCHANGED pending

\* The processors: a missing field, a progress report or a step of the work
\* that throws is rethrown to Bull.
handleDeployContract(i) == Fails(i) \/ Completes(i)

handleProcessTts(i) == Fails(i) \/ Completes(i)

\* Items that could not be indexed do not fail the job.
handleIndexMarketNews(i) == Fails(i) \/ Completes(i)

\* One of them, according to the queue.
ProcessJob(i) ==
    /\ jobs[i].st = "active"
    /\ handleDeployContract(i) \/ handleProcessTts(i) \/ handleIndexMarketNews(i)
    /\ UNCHANGED <<dlq, op, crashes, jqGhosts>>

BackoffOver(i) ==
    /\ jobs[i].st = "delayed"
    /\ jobs' = [jobs EXCEPT ![i].st = "waiting"]
    /\ UNCHANGED <<dlq, pending, op, crashes, jqGhosts>>

\* The push to the dead-letter list may fail; then the job is only logged.
handleJobFailure(i) ==
    /\ i \in pending
    /\ pending' = pending \ {i}
    /\ \/ dlq' = Append(dlq, i) /\ pushed' = pushed \cup {i}
       \/ UNCHANGED <<dlq, pushed>>
    /\ UNCHANGED <<jobs, op, crashes, requeued, uneven>>

\* The worker dies: Bull finds its jobs stalled, puts them back once and
\* fails them the second time.  Events not handled yet are lost;
\* a stalled job has attempts left: it is never pushed.
WorkerDies ==
    /\ crashes < MaxCrashes
    /\ crashes' = crashes + 1
    /\ LET running == {i \in Ids : jobs[i].st = "active"}
           again == {i \in running : jobs[i].stalls = 0} IN
       jobs' = [i \in Ids |->
                     IF i \in again THEN [jobs[i] EXCEPT !.st = "waiting", !.stalls = 1]
                     ELSE IF i \in running THEN [jobs[i] EXCEPT !.st = "failed"]
                     ELSE jobs[i]]
    /\ pending' = {} /\ op' = [a \in Operators |-> None]
    /\ uneven' = (uneven \/ \E a \in Operators : op[a] # None)
    /\ UNCHANGED <<dlq, pushed, requeued>>

-----------------------------------------------------------------------------
\* requeueJob copies the data of any job Bull still has, whatever its state.
requeueJob(i) ==
    /\ jobs[i].st \notin {"free", "removed"}
    /\ \E j \in NextId : jobs' = Added(j)
    /\ UNCHANGED <<dlq, pending, op, crashes, jqGhosts>>

purgeQueue ==
    /\ \E i \in Ids : jobs[i].st = "failed"
    /\ jobs' = [i \in Ids |-> IF jobs[i].st = "failed"
                              THEN [jobs[i] EXCEPT !.st = "removed"] ELSE jobs[i]]
    /\ UNCHANGED <<dlq, pending, op, crashes, jqGhosts>>

\* requeueFromDLQ: read the head of the list, add the jobs one by one, then
\* trim as many items as were added off whatever the head is by then.
ReadDLQ(a) ==
    /\ op[a] = None /\ dlq # <<>>
    /\ \A b \in Operators : b < a => op[b] # None
    /\ LET n == IF Len(dlq) < RequeueLimit THEN Len(dlq) ELSE RequeueLimit IN
       op' = [op EXCEPT ![a] = [items |-> SubSeq(dlq, 1, n), added |-> 0]]
    /\ uneven' = (uneven \/ \E b \in Operators : op[b] # None)
    /\ UNCHANGED <<jobs, dlq, pending, crashes, pushed, requeued>>

RequeueItem(a) ==
    /\ op[a] # None /\ op[a].items # <<>>
    /\ LET i == Head(op[a].items) IN
       \/ /\ \E j \in NextId : jobs' = Added(j)
          /\ op' = [op EXCEPT ![a] = [items |-> Tail(@.items), added |-> @.added + 1]]
          /\ requeued' = requeued \cup {i}
          /\ UNCHANGED uneven
       \/ /\ op' = [op EXCEPT ![a].items = Tail(@)]
          /\ uneven' = TRUE
          /\ UNCHANGED <<jobs, requeued>>
    /\ UNCHANGED <<dlq, pending, crashes, pushed>>

\* Faulty: the number asked for is trimmed, not the number requeued.
TrimmedLimit(n) == IF n = 0 THEN 0 ELSE RequeueLimit

Trimmed(n) == n

TrimDLQ(a) ==
    /\ op[a] # None /\ op[a].items = <<>>
    /\ dlq' = SubSeq(dlq, Trimmed(op[a].added) + 1, Len(dlq))
    /\ op' = [op EXCEPT ![a] = None]
    /\ UNCHANGED <<jobs, pending, crashes, jqGhosts>>

JobStep(i) == Take(i) \/ ProcessJob(i) \/ BackoffOver(i)

JqNext ==
    \/ \E i \in Ids : addJob(i) \/ JobStep(i) \/ handleJobFailure(i) \/ requeueJob(i)
    \/ WorkerDies \/ purgeQueue
    \/ \E a \in Operators : ReadDLQ(a) \/ RequeueItem(a) \/ TrimDLQ(a)

JqSpec == JqInit /\ [][JqNext]_jqVars

-----------------------------------------------------------------------------
InDLQ(i) == \E k \in DOMAIN dlq : dlq[k] = i

(***************************************************************************)
(* A dead job is dead: what is on the dead-letter list has failed for good *)
(* (it is not waiting for another attempt, running or completed, so        *)
(* requeueing it adds no second run of a live job), and is listed once.    *)
(* With the type invariant.                                                *)
(***************************************************************************)
DeadIsDead ==
    /\ JqTypeOK
    /\ \A k \in DOMAIN dlq : jobs[dlq[k]].st \in {"failed", "removed"}
    /\ \A k, m \in DOMAIN dlq : k # m => dlq[k] # dlq[m]

(***************************************************************************)
(* Nothing leaves the dead-letter list unrequeued, although jobs keep      *)
(* being pushed between the read and the trim: as long as requeue calls do *)
(* not overlap, are not cut off, and add every job they read.  (Overlapping*)
(* calls requeue the same head twice and trim it twice, and an add that    *)
(* fails shifts the trim onto the wrong items.)                            *)
(***************************************************************************)
NothingDiscarded ==
    ~uneven => \A i \in pushed : InDLQ(i) \/ i \in requeued
=============================================================================
