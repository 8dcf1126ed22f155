----------------------------- MODULE MCWorkflow -----------------------------
(* TLC instance of Workflow.  A scenario says who disturbs the executor: a *)
(* restart, step timeouts, retries of a step and the recovery jobs; two    *)
(* compensations and a retry, without timeouts and restarts; or, for the   *)
(* liveness property (MCRows), the administrators and the recovery job.    *)
EXTENDS Workflow

VARIABLE scenario

Disturbing == [recovery |-> {"stepRetry", "recover", "stuck"},
               undo     |-> {"comp1", "comp2", "retry"},
               admin    |-> {"cancel", "comp1", "force", "recover"}]

MCInit == Init /\ scenario \in {"recovery", "undo"}

MCNext ==
    /\ Next
    /\ issued' \subseteq Disturbing[scenario]
    /\ \A p \in Procs \ {"start"} : p \in Disturbing[scenario] \/ run'[p] = Idle
    /\ scenario = "undo" => /\ crashes' = 0 /\ late' = {}
                            /\ \A p \in Procs : run'[p].pc # "timedout"
    /\ UNCHANGED scenario

MCSpec == MCInit /\ [][MCNext]_<<vars, scenario>>

(***************************************************************************)
(* Compensation goes backwards: a step is undone only when every later     *)
(* effect has been undone.  (Here and below without timeouts: an operation *)
(* given up may take effect when the compensation is past its step.)       *)
(***************************************************************************)
UndoneInReverse ==
    scenario = "undo" =>
        \A i, j \in Steps \cap Compensable :
            (i < j /\ undone[i] > 0 /\ effects[j] > 0) => undone[j] > 0

(***************************************************************************)
(* A workflow that says COMPENSATED has nothing left in effect that can be *)
(* undone, although retries and a second compensation saved their copies.  *)
(***************************************************************************)
CompensatedIsClean ==
    (scenario = "undo" /\ wf = "COMPENSATED")
        => \A i \in Steps \cap Compensable : effects[i] > 0 => undone[i] > 0
=============================================================================
