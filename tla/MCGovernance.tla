---------------------------- MODULE MCGovernance ----------------------------
(* TLC instance of the access control list and of the upgrade governance   *)
(* behind it.  Init picks what a run exercises: every ACL endpoint in any  *)
(* order, or proposals of a contract that alice deployed, in which anyone  *)
(* may become an approver later.  (The proofs cover the interleaving of    *)
(* all ACL endpoints with proposals.)  The approver vectors include one    *)
(* that lists an address twice.                                            *)
EXTENDS Governance

CONSTANTS alice, bob

VARIABLE focus

MCApproverLists == {<<alice, bob>>, <<bob, bob>>}

MCInit == Init /\ focus \in {"acl", "upgrades"}

MCNext ==
    /\ \/ focus = "acl" /\ AclNext /\ UNCHANGED govVars
       \/ /\ focus = "upgrades"
          /\ \/ init(alice, {bob}, bob) /\ UNCHANGED govVars
             \/ \E a, u \in Users : assign_role(a, u, ROLE_APPROVER) /\ UNCHANGED govVars
             \/ UpgradeNext
             \/ Tick
    /\ UNCHANGED focus

MCSpec == MCInit /\ [][MCNext]_<<vars, focus>>
=============================================================================
