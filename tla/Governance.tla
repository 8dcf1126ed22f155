----------------------------- MODULE Governance -----------------------------
(***************************************************************************)
(* Upgrade governance (Contracts/shared/src/governance.rs) behind the      *)
(* upgrade endpoints of the trading contract: proposals with a list of     *)
(* approvers, a threshold and a timelock.  The new contract's hash, its    *)
(* target and its description are carried through unread and left out.     *)
(***************************************************************************)
EXTENDS ACL, HostClock

CONSTANTS
    ApproverLists,   \* approver vectors a proposal is created with
    Delays,          \* timelock delays a proposal is created with
    MaxProposals     \* bound on the number of proposals

ASSUME ApproverListsAssumption == ApproverLists \subseteq Seq(Users)
ASSUME DelaysAssumption == Delays \subseteq Nat
ASSUME BoundsAssumption == MaxProposals \in Nat

VARIABLES
    prop_cnt,   \* id of the last proposal
    props,      \* proposals by id
    apprv       \* pairs <<id, approver>> of the approvals given

govVars == <<prop_cnt, props, apprv, now>>
vars == <<aclVars, govVars>>

ProposalStatus == {"Pending", "Approved", "Rejected", "Executed", "Cancelled"}

UpgradeProposal ==
    [proposer           : Users,
     approval_threshold : Nat,
     approvers          : Seq(Users),
     approvals_count    : Nat,
     status             : ProposalStatus,
     execution_time     : Nat,
     executed           : BOOLEAN]

\* The type invariant of the governance storage.
TypeOK ==
    /\ AclTypeOK
    /\ prop_cnt \in Nat
    /\ props \in [1..prop_cnt -> UpgradeProposal]
    /\ apprv \in SUBSET ((1..prop_cnt) \X Users)
    /\ now \in Nat

-----------------------------------------------------------------------------
\* The vector may list one address twice: the threshold is compared with its
\* length, not with the number of different approvers.
propose_upgrade(proposer, threshold, approvers, delay) ==
    /\ require_permission(proposer, "propose")
    /\ threshold # 0 /\ threshold <= Len(approvers)
    /\ prop_cnt < MaxProposals
    /\ prop_cnt' = prop_cnt + 1
    /\ props' = [i \in 1..(prop_cnt + 1) |->
                    IF i \in 1..prop_cnt THEN props[i]
                    ELSE [proposer           |-> proposer,
                          approval_threshold |-> threshold,
                          approvers          |-> approvers,
                          approvals_count    |-> 0,
                          status             |-> "Pending",
                          execution_time     |-> now + delay,
                          executed           |-> FALSE]]
    /\ UNCHANGED <<aclVars, apprv, now>>

Listed(u, id) == HasRole(props[id].approvers, u)

\* Faulty: an approver who has approved counts again.
approve_proposal_again(id, approver) ==
    LET count == props[id].approvals_count + 1 IN
    /\ require_permission(approver, "approve")
    /\ props[id].status = "Pending"
    /\ Listed(approver, id)
    /\ apprv' = apprv \cup {<<id, approver>>}
    /\ props' = [props EXCEPT
                   ![id].approvals_count = count,
                   ![id].status = IF count >= props[id].approval_threshold
                                  THEN "Approved" ELSE "Pending"]
    /\ UNCHANGED <<aclVars, prop_cnt, now>>

approve_proposal(id, approver) ==
    LET count == props[id].approvals_count + 1 IN
    /\ require_permission(approver, "approve")
    /\ props[id].status = "Pending"
    /\ Listed(approver, id)
    /\ <<id, approver>> \notin apprv
    /\ apprv' = apprv \cup {<<id, approver>>}
    /\ props' = [props EXCEPT
                   ![id].approvals_count = count,
                   ![id].status = IF count >= props[id].approval_threshold
                                  THEN "Approved" ELSE "Pending"]
    /\ UNCHANGED <<aclVars, prop_cnt, now>>

\* Faulty: the timelock is not waited for.
execute_proposal_early(id, executor) ==
    /\ initialized
    /\ props[id].status = "Approved"
    /\ props' = [props EXCEPT ![id].executed = TRUE, ![id].status = "Executed"]
    /\ UNCHANGED <<aclVars, prop_cnt, apprv, now>>

\* The check for the execute permission is commented out in the code: any
\* address may execute.
execute_proposal(id, executor) ==
    /\ initialized
    /\ props[id].status = "Approved"
    /\ now >= props[id].execution_time
    /\ props' = [props EXCEPT ![id].executed = TRUE, ![id].status = "Executed"]
    /\ UNCHANGED <<aclVars, prop_cnt, apprv, now>>

reject_proposal(id, rejector) ==
    /\ require_permission(rejector, "approve")
    /\ props[id].status = "Pending"
    /\ props' = [props EXCEPT ![id].status = "Rejected"]
    /\ UNCHANGED <<aclVars, prop_cnt, apprv, now>>

\* Faulty: an executed proposal can be cancelled.
cancel_proposal_executed(id, admin) ==
    /\ require_permission(admin, "propose")
    /\ props' = [props EXCEPT ![id].status = "Cancelled"]
    /\ UNCHANGED <<aclVars, prop_cnt, apprv, now>>

\* Refused only for an executed proposal; a rejected one can be cancelled.
cancel_proposal(id, admin) ==
    /\ require_permission(admin, "propose")
    /\ ~props[id].executed
    /\ props' = [props EXCEPT ![id].status = "Cancelled"]
    /\ UNCHANGED <<aclVars, prop_cnt, apprv, now>>

Tick == LedgerCloses /\ UNCHANGED <<aclVars, prop_cnt, props, apprv>>

-----------------------------------------------------------------------------
Init ==
    /\ AclInit
    /\ prop_cnt = 0
    /\ props = [i \in 1..0 |-> i]
    /\ apprv = {}
    /\ now = 0

UpgradeNext ==
    \/ \E u \in Users, as \in ApproverLists, d \in Delays :
         \E t \in 0..(Len(as) + 1) : propose_upgrade(u, t, as, d)
    \/ \E id \in 1..prop_cnt, u \in Users :
         \/ approve_proposal(id, u)
         \/ execute_proposal(id, u)
         \/ reject_proposal(id, u)
         \/ cancel_proposal(id, u)

Next ==
    \/ AclNext /\ UNCHANGED govVars
    \/ UpgradeNext
    \/ Tick

Spec == Init /\ [][Next]_vars

-----------------------------------------------------------------------------
Voters(id) == {u \in Users : <<id, u>> \in apprv}

Counted(id) ==
    /\ props[id].approvals_count = Cardinality(Voters(id))
    /\ \A u \in Voters(id) : Listed(u, id)
    /\ props[id].approval_threshold > 0
    /\ props[id].status = "Pending"
          => props[id].approvals_count < props[id].approval_threshold
    /\ props[id].status \in {"Approved", "Executed"}
          => props[id].approvals_count >= props[id].approval_threshold

(***************************************************************************)
(* The stored counter is the number of different addresses that approved,  *)
(* all of them on the proposal's list, and the status agrees with it:      *)
(* Pending below the threshold, Approved or Executed from it on            *)
(* (approve_proposal keeps the counter and the approvals map apart).       *)
(***************************************************************************)
VotesCounted == \A id \in 1..prop_cnt : Counted(id)

(***************************************************************************)
(* No upgrade executes without its quorum and its timelock: an executed    *)
(* proposal was approved by at least threshold different listed addresses  *)
(* and its execution time has passed (execute_proposal).                   *)
(***************************************************************************)
ExecutedHadQuorum ==
    \A id \in 1..prop_cnt :
        props[id].executed =>
            /\ Cardinality({u \in Voters(id) : Listed(u, id)})
                  >= props[id].approval_threshold
            /\ now >= props[id].execution_time

(***************************************************************************)
(* The executed flag, which cancel_proposal tests, and the Executed        *)
(* status, which execute_proposal tests, never disagree.                   *)
(***************************************************************************)
ExecutedFlagAgrees ==
    \A id \in 1..prop_cnt : props[id].executed <=> props[id].status = "Executed"

ProposalStep(p, q) ==
    /\ <<p.status, q.status>> \in
          {<<s, s>> : s \in ProposalStatus} \cup
          {<<"Pending", "Approved">>, <<"Pending", "Rejected">>,
           <<"Pending", "Cancelled">>, <<"Approved", "Executed">>,
           <<"Approved", "Cancelled">>, <<"Rejected", "Cancelled">>}
    /\ p.approval_threshold = q.approval_threshold
    /\ p.approvers = q.approvers
    /\ p.execution_time = q.execution_time

(***************************************************************************)
(* A closed proposal stays closed, as far as the code keeps it: executed   *)
(* and cancelled proposals keep their status, a rejected one can only be   *)
(* cancelled, an approved one never returns to Pending and never becomes   *)
(* Rejected, and the terms a proposal was created with do not change under *)
(* the approvers.  (UPGRADEABILITY.md promises more of a rejected one: see *)
(* RejectedIsTerminal.)                                                    *)
(***************************************************************************)
ClosedStaysClosed ==
    [][\A id \in 1..prop_cnt : ProposalStep(props[id], props'[id])]_vars

(***************************************************************************)
(* UPGRADEABILITY.md:206 and :268 say of a rejected proposal that no       *)
(* further action is possible, and :211 that cancelling is for pending or  *)
(* approved ones.  cancel_proposal looks at the executed flag only, so it  *)
(* turns a rejected proposal into a cancelled one.                         *)
(***************************************************************************)
RejectedIsTerminal ==
    [][\A id \in 1..prop_cnt : props[id].status = "Rejected" => props'[id].status = "Rejected"]_vars
=============================================================================
