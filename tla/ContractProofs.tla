--------------------------- MODULE ContractProofs ---------------------------
(***************************************************************************)
(* Proofs about the trading contract: its ACL, its upgrade governance and  *)
(* the whole contract of Trading, for every set of addresses, roles,       *)
(* limits, batches and bounds.  What OrderBookProofs proves about the      *)
(* order book alone is used here for the book behind the gate.             *)
(***************************************************************************)
EXTENDS Governance, Trading, FiniteSetTheorems, SequenceTheorems, TLAPS

BP == INSTANCE OrderBookProofs

-----------------------------------------------------------------------------
(* The ACL *)

(***************************************************************************)
(* Appending a role keeps a user's role vector a vector of roles and never *)
(* moves the role in front (acl.rs assign_role).                           *)
(***************************************************************************)
LEMMA WithRoleKeepsHead ==
    ASSUME NEW roles \in Seq(Roles), NEW r \in Roles
    PROVE  /\ WithRole(roles, r) \in Seq(Roles)
           /\ roles # <<>> => /\ WithRole(roles, r) # <<>>
                              /\ Head(WithRole(roles, r)) = Head(roles)
<1>1. CASE HasRole(roles, r)
  BY <1>1 DEF WithRole
<1>2. CASE ~HasRole(roles, r)
  <2>1. WithRole(roles, r) = Append(roles, r)
    BY <1>2 DEF WithRole
  <2>2. Append(roles, r) \in Seq(Roles) /\ Append(roles, r) # <<>>
    BY SMTT(30)
  <2>3. roles # <<>> => Head(Append(roles, r)) = Head(roles)
    OBVIOUS
  <2> QED
    BY <2>1, <2>2, <2>3
<1> QED
  BY <1>1, <1>2

(***************************************************************************)
(* The vectors init builds a user's roles from.                            *)
(***************************************************************************)
LEMMA RoleVectors ==
    /\ <<ROLE_ADMIN>> \in Seq(Roles) /\ <<ROLE_APPROVER>> \in Seq(Roles)
    /\ <<ROLE_EXECUTOR>> \in Seq(Roles) /\ <<>> \in Seq(Roles)
<1>1. ROLE_ADMIN \in Roles /\ ROLE_APPROVER \in Roles /\ ROLE_EXECUTOR \in Roles
  BY DEF Roles
<1> QED
  BY <1>1

(***************************************************************************)
(* The role vector init gives a user is a vector of roles.                 *)
(***************************************************************************)
LEMMA InitialRolesType ==
    ASSUME NEW u, NEW admin, NEW approvers, NEW executor
    PROVE  InitialRoles(u, admin, approvers, executor) \in Seq(Roles)
<1> DEFINE A == IF u = admin THEN <<ROLE_ADMIN>> ELSE <<>>
           B == IF u \in approvers THEN <<ROLE_APPROVER>> ELSE <<>>
           C == IF u = executor THEN <<ROLE_EXECUTOR>> ELSE <<>>
<1>1. /\ <<ROLE_ADMIN>> \in Seq(Roles) /\ <<ROLE_APPROVER>> \in Seq(Roles)
      /\ <<ROLE_EXECUTOR>> \in Seq(Roles) /\ <<>> \in Seq(Roles)
  BY RoleVectors
<1>2. A \in Seq(Roles) /\ B \in Seq(Roles) /\ C \in Seq(Roles)
  BY <1>1, Zenon
<1> HIDE DEF A, B, C
<1>3. (A \o B) \o C \in Seq(Roles)
  BY <1>2
<1> QED
  BY <1>3 DEF InitialRoles, A, B, C

(***************************************************************************)
(* The admin's vector starts with the admin role, whatever else the admin  *)
(* is (init assigns ROLE_ADMIN before the other two).                      *)
(***************************************************************************)
LEMMA InitialAdminFirst ==
    ASSUME NEW admin, NEW approvers, NEW executor
    PROVE  /\ InitialRoles(admin, admin, approvers, executor) # <<>>
           /\ Head(InitialRoles(admin, admin, approvers, executor)) = ROLE_ADMIN
<1> DEFINE B == IF admin \in approvers THEN <<ROLE_APPROVER>> ELSE <<>>
           C == IF admin = executor THEN <<ROLE_EXECUTOR>> ELSE <<>>
<1>1. B \in Seq(Roles) /\ C \in Seq(Roles) /\ <<ROLE_ADMIN>> \in Seq(Roles)
  BY RoleVectors, Zenon
<1> HIDE DEF B, C
<1>2. InitialRoles(admin, admin, approvers, executor) = (<<ROLE_ADMIN>> \o B) \o C
  BY DEF InitialRoles, B, C
<1>3. Len((<<ROLE_ADMIN>> \o B) \o C) >= 1 /\ ((<<ROLE_ADMIN>> \o B) \o C)[1] = ROLE_ADMIN
  BY <1>1
<1> QED
  BY <1>1, <1>2, <1>3

(***************************************************************************)
(* Every ACL endpoint keeps the ACL well typed.                            *)
(***************************************************************************)
LEMMA AclTypeStep ==
    ASSUME AclTypeOK, AclNext
    PROVE  AclTypeOK'
<1> USE DEF AclTypeOK
<1>1. ASSUME NEW a \in Users, NEW e \in Users, NEW as \in SUBSET Users, init(a, as, e)
      PROVE  AclTypeOK'
  <2>1. \A r \in Roles : InitialPerms(r) \in SUBSET Perms
    BY DEF InitialPerms, Perms, StandardPerms, Roles, ROLE_ADMIN, ROLE_APPROVER, ROLE_EXECUTOR
  <2>2. u_roles' \in [Users -> Seq(Roles)]
    BY <1>1, InitialRolesType DEF init
  <2> QED
    BY <1>1, <2>1, <2>2 DEF init, Roles
<1>2. ASSUME NEW a \in Users, NEW r \in Roles, create_role(a, r)
      PROVE  AclTypeOK'
  BY <1>2 DEF create_role
<1>3. ASSUME NEW a \in Users, NEW u \in Users, NEW r \in Roles, assign_role(a, u, r)
      PROVE  AclTypeOK'
  BY <1>3, WithRoleKeepsHead DEF assign_role
<1>4. ASSUME NEW a \in Users, NEW r \in Roles, NEW p \in GrantablePerms,
             assign_permission(a, r, p)
      PROVE  AclTypeOK'
  BY <1>4 DEF assign_permission, AssignPermissions, Perms
<1>5. ASSUME NEW a \in Users, NEW r \in Roles, NEW ps \in SUBSET GrantablePerms,
             assign_permissions_batch(a, r, ps)
      PROVE  AclTypeOK'
  BY <1>5 DEF assign_permissions_batch, AssignPermissions, Perms
<1>6. ASSUME NEW a \in Users, NEW c \in Roles, NEW p \in Roles, set_role_parent(a, c, p)
      PROVE  AclTypeOK'
  BY <1>6 DEF set_role_parent
<1> QED
  BY <1>1, <1>2, <1>3, <1>4, <1>5, <1>6 DEF AclNext, AclEndpoints

(***************************************************************************)
(* Once init has run, somebody's first role carries mgr_acl itself: no ACL *)
(* endpoint removes a permission or moves a role.                          *)
(***************************************************************************)
LEMMA AdminRootedStep ==
    ASSUME AclTypeOK, AdminRooted, AclNext
    PROVE  AdminRooted'
<1> USE DEF AclTypeOK, AdminRooted
<1>1. ASSUME NEW a \in Users, NEW e \in Users, NEW as \in SUBSET Users, init(a, as, e)
      PROVE  AdminRooted'
  <2>1. u_roles'[a] = InitialRoles(a, a, as, e)
    BY <1>1 DEF init
  <2>2. u_roles'[a] # <<>> /\ Head(u_roles'[a]) = ROLE_ADMIN
    BY <2>1, InitialAdminFirst
  <2>3. "mgr_acl" \in InitialPerms(ROLE_ADMIN) /\ ROLE_ADMIN \in Roles
    BY DEF InitialPerms, Roles, ROLE_ADMIN, ROLE_APPROVER, ROLE_EXECUTOR
  <2>4. "mgr_acl" \in r_perms'[ROLE_ADMIN]
    BY <1>1, <2>3 DEF init
  <2> QED
    BY <2>2, <2>4
<1>2. ASSUME NEW a \in Users, require_permission(a, "mgr_acl"),
             initialized' = initialized,
             \A u \in Users : u_roles[u] # <<>> =>
                 u_roles'[u] # <<>> /\ Head(u_roles'[u]) = Head(u_roles[u]),
             \A r \in Roles : r_perms[r] \subseteq r_perms'[r]
      PROVE  AdminRooted'
  <2>1. PICK u \in Users : u_roles[u] # <<>> /\ "mgr_acl" \in r_perms[Head(u_roles[u])]
    BY <1>2 DEF require_permission
  <2>2. Head(u_roles[u]) \in Roles
    BY <2>1
  <2> QED
    BY <1>2, <2>1, <2>2
<1>3. ASSUME NEW a \in Users, NEW r \in Roles, create_role(a, r)
      PROVE  AdminRooted'
  BY <1>2, <1>3 DEF create_role
<1>4. ASSUME NEW a \in Users, NEW u \in Users, NEW r \in Roles, assign_role(a, u, r)
      PROVE  AdminRooted'
  <2>1. \A v \in Users : u_roles[v] # <<>> =>
            u_roles'[v] # <<>> /\ Head(u_roles'[v]) = Head(u_roles[v])
    BY <1>4, WithRoleKeepsHead DEF assign_role
  <2> QED
    BY <1>2, <1>4, <2>1 DEF assign_role
<1>5. ASSUME NEW a \in Users, NEW r \in Roles, NEW ps \in SUBSET GrantablePerms,
             AssignPermissions(r, ps), require_permission(a, "mgr_acl"),
             UNCHANGED <<initialized, u_roles, r_parent>>
      PROVE  AdminRooted'
  BY <1>2, <1>5 DEF AssignPermissions
<1>6. ASSUME NEW a \in Users, NEW c \in Roles, NEW p \in Roles, set_role_parent(a, c, p)
      PROVE  AdminRooted'
  BY <1>2, <1>6 DEF set_role_parent
<1>7. ASSUME NEW a \in Users, NEW r \in Roles, NEW p \in GrantablePerms,
             assign_permission(a, r, p)
      PROVE  AdminRooted'
  <2>1. {p} \in SUBSET GrantablePerms
    OBVIOUS
  <2> QED
    BY <1>5, <1>7, <2>1 DEF assign_permission
<1> QED
  BY <1>1, <1>3, <1>4, <1>5, <1>6, <1>7 DEF AclNext, AclEndpoints, assign_permissions_batch

(***************************************************************************)
(* A user whose first role carries mgr_acl holds mgr_acl, whatever the     *)
(* parent map looks like (check_role answers at depth 0).                  *)
(***************************************************************************)
LEMMA RootedManages ==
    ASSUME AclTypeOK, AdminRooted
    PROVE  SomeoneManagesAcl
<1> SUFFICES ASSUME initialized PROVE \E u \in Users : has_permission(u, "mgr_acl")
  BY DEF SomeoneManagesAcl
<1>1. PICK u \in Users : u_roles[u] # <<>> /\ "mgr_acl" \in r_perms[Head(u_roles[u])]
  BY DEF AdminRooted
<1>2. 1 \in DOMAIN u_roles[u] /\ u_roles[u][1] = Head(u_roles[u])
  BY <1>1 DEF AclTypeOK
<1>3. check_role(u_roles[u][1], "mgr_acl") = "granted"
  BY <1>1, <1>2 DEF check_role, CheckLevel
<1>4. \A j \in 1..(1 - 1) : check_role(u_roles[u][j], "mgr_acl") = "denied"
  OBVIOUS
<1> QED
  BY <1>2, <1>3, <1>4 DEF has_permission

-----------------------------------------------------------------------------
(* Governance *)

(***************************************************************************)
(* The initial state satisfies the inductive invariant's parts.            *)
(***************************************************************************)
LEMMA InitEstablishes ==
    ASSUME Init
    PROVE  TypeOK /\ AdminRooted /\ VotesCounted /\ ExecutedFlagAgrees /\ ExecutedHadQuorum
<1>1. AclTypeOK /\ AdminRooted
  <2>1. u_roles \in [Users -> Seq(Roles)]
    BY RoleVectors DEF Init, AclInit
  <2> QED
    BY <2>1 DEF Init, AclInit, AclTypeOK, AdminRooted
<1>2. 1..prop_cnt = {}
  BY DEF Init
<1>3. props \in [1..prop_cnt -> UpgradeProposal]
  BY <1>2 DEF Init
<1> QED
  BY <1>1, <1>2, <1>3 DEF Init, TypeOK, VotesCounted, ExecutedFlagAgrees, ExecutedHadQuorum

(***************************************************************************)
(* Every step keeps the state well typed.                                  *)
(***************************************************************************)
LEMMA TypeStep ==
    ASSUME TypeOK, [Next]_vars
    PROVE  TypeOK'
<1> USE DEF TypeOK
<1>1. CASE AclNext /\ UNCHANGED govVars
  BY <1>1, AclTypeStep DEF govVars
<1>2. ASSUME NEW u \in Users, NEW as \in ApproverLists, NEW d \in Delays,
             NEW t \in 0..(Len(as) + 1), propose_upgrade(u, t, as, d)
      PROVE  TypeOK'
  <2>1. AclTypeOK'
    BY <1>2 DEF propose_upgrade, aclVars, AclTypeOK
  <2>2. as \in Seq(Users) /\ d \in Nat
    BY ApproverListsAssumption, DelaysAssumption
  <2>3. t \in Nat /\ now + d \in Nat /\ 0 \in Nat
    BY <2>2
  <2>4. [proposer |-> u, approval_threshold |-> t, approvers |-> as,
         approvals_count |-> 0, status |-> "Pending",
         execution_time |-> now + d, executed |-> FALSE] \in UpgradeProposal
    BY <2>2, <2>3, Zenon DEF UpgradeProposal, ProposalStatus
  <2>5. props' \in [1..prop_cnt' -> UpgradeProposal]
    BY <1>2, <2>4 DEF propose_upgrade
  <2>6. prop_cnt' \in Nat /\ now' \in Nat /\ apprv' \in SUBSET ((1..prop_cnt') \X Users)
    BY <1>2 DEF propose_upgrade
  <2> QED
    BY <2>1, <2>5, <2>6
<1>3. ASSUME NEW id \in 1..prop_cnt, NEW u \in Users, approve_proposal(id, u)
      PROVE  TypeOK'
  <2>1. AclTypeOK'
    BY <1>3 DEF approve_proposal, aclVars, AclTypeOK
  <2>2. props' \in [1..prop_cnt' -> UpgradeProposal]
    <3> DEFINE s == IF props[id].approvals_count + 1 >= props[id].approval_threshold
                    THEN "Approved" ELSE "Pending"
               c == props[id].approvals_count + 1
    <3>1. props' = [props EXCEPT ![id].approvals_count = c, ![id].status = s]
      BY <1>3 DEF approve_proposal
    <3>2. s \in ProposalStatus
      BY DEF ProposalStatus
    <3>3. c \in Nat
      BY DEF UpgradeProposal
    <3>4. prop_cnt' = prop_cnt
      BY <1>3 DEF approve_proposal
    <3> HIDE DEF s, c
    <3> QED
      BY <3>1, <3>2, <3>3, <3>4, ZenonT(60) DEF UpgradeProposal
  <2>3. prop_cnt' \in Nat /\ now' \in Nat /\ apprv' \in SUBSET ((1..prop_cnt') \X Users)
    BY <1>3 DEF approve_proposal
  <2> QED
    BY <2>1, <2>2, <2>3
<1>4. ASSUME NEW id \in 1..prop_cnt, NEW s \in ProposalStatus, NEW x \in BOOLEAN,
             props' = [props EXCEPT ![id].executed = x, ![id].status = s],
             UNCHANGED <<aclVars, prop_cnt, apprv, now>>
      PROVE  TypeOK'
  <2>1. AclTypeOK'
    BY <1>4 DEF aclVars, AclTypeOK
  <2>2. props' \in [1..prop_cnt' -> UpgradeProposal]
    BY <1>4, ZenonT(60) DEF UpgradeProposal
  <2> QED
    BY <1>4, <2>1, <2>2
<1>5. ASSUME NEW id \in 1..prop_cnt, NEW s \in ProposalStatus,
             props' = [props EXCEPT ![id].status = s],
             UNCHANGED <<aclVars, prop_cnt, apprv, now>>
      PROVE  TypeOK'
  <2>1. AclTypeOK'
    BY <1>5 DEF aclVars, AclTypeOK
  <2>2. props' \in [1..prop_cnt' -> UpgradeProposal]
    BY <1>5 DEF UpgradeProposal
  <2> QED
    BY <1>5, <2>1, <2>2
<1>6. ASSUME NEW id \in 1..prop_cnt, NEW u \in Users,
             execute_proposal(id, u) \/ reject_proposal(id, u) \/ cancel_proposal(id, u)
      PROVE  TypeOK'
  BY <1>4, <1>5, <1>6 DEF execute_proposal, reject_proposal, cancel_proposal, ProposalStatus
<1>7. CASE Tick
  BY <1>7, MaxTimeAssumption DEF Tick, LedgerCloses, aclVars, AclTypeOK
<1>8. CASE UNCHANGED vars
  BY <1>8 DEF vars, aclVars, govVars, AclTypeOK
<1> QED
  BY <1>1, <1>2, <1>3, <1>6, <1>7, <1>8 DEF Next, UpgradeNext

(***************************************************************************)
(* No upgrade endpoint touches the ACL, so every step keeps its root.      *)
(***************************************************************************)
LEMMA NextKeepsRoot ==
    ASSUME TypeOK, AdminRooted, [Next]_vars
    PROVE  AdminRooted'
<1>1. CASE UNCHANGED aclVars
  BY <1>1 DEF aclVars, AdminRooted
<1>2. CASE AclNext
  BY <1>2, AdminRootedStep DEF TypeOK
<1>3. UpgradeNext \/ Tick => UNCHANGED aclVars
  BY DEF UpgradeNext, propose_upgrade, approve_proposal, execute_proposal,
         reject_proposal, cancel_proposal, Tick, LedgerCloses
<1> QED
  BY <1>1, <1>2, <1>3 DEF Next, vars

(***************************************************************************)
(* What execute_proposal, reject_proposal and cancel_proposal do to a      *)
(* proposal: its terms and its votes stay, its status moves one of three   *)
(* ways.                                                                   *)
(***************************************************************************)
LEMMA ProposalUpdate ==
    ASSUME TypeOK, NEW id \in 1..prop_cnt, NEW u \in Users,
           execute_proposal(id, u) \/ reject_proposal(id, u) \/ cancel_proposal(id, u)
    PROVE  /\ prop_cnt' = prop_cnt /\ apprv' = apprv /\ now' = now
           /\ \A i \in 1..prop_cnt : i # id => props'[i] = props[i]
           /\ props'[id].approvals_count = props[id].approvals_count
           /\ props'[id].approval_threshold = props[id].approval_threshold
           /\ props'[id].approvers = props[id].approvers
           /\ props'[id].execution_time = props[id].execution_time
           /\ \/ /\ props[id].status = "Approved" /\ props'[id].status = "Executed"
                 /\ props'[id].executed = TRUE /\ now >= props[id].execution_time
              \/ /\ props[id].status = "Pending" /\ props'[id].status = "Rejected"
                 /\ props'[id].executed = props[id].executed
              \/ /\ ~props[id].executed /\ props'[id].status = "Cancelled"
                 /\ props'[id].executed = props[id].executed
<1> USE DEF TypeOK, UpgradeProposal
<1>1. CASE execute_proposal(id, u)
  BY <1>1 DEF execute_proposal
<1>2. CASE reject_proposal(id, u)
  BY <1>2 DEF reject_proposal
<1>3. CASE cancel_proposal(id, u)
  BY <1>3 DEF cancel_proposal
<1> QED
  BY <1>1, <1>2, <1>3

(***************************************************************************)
(* What approve_proposal does to a proposal: one new voter, one more in    *)
(* the counter, and the status that goes with the counter.                 *)
(***************************************************************************)
LEMMA ApprovalUpdate ==
    ASSUME TypeOK, NEW id \in 1..prop_cnt, NEW u \in Users, approve_proposal(id, u)
    PROVE  /\ prop_cnt' = prop_cnt /\ now' = now
           /\ \A i \in 1..prop_cnt : i # id => props'[i] = props[i] /\ Voters(i)' = Voters(i)
           /\ Listed(u, id)
           /\ u \notin Voters(id) /\ Voters(id)' = Voters(id) \cup {u}
           /\ props'[id].approvals_count = props[id].approvals_count + 1
           /\ props'[id].approval_threshold = props[id].approval_threshold
           /\ props'[id].approvers = props[id].approvers
           /\ props'[id].execution_time = props[id].execution_time
           /\ props'[id].executed = props[id].executed
           /\ props[id].status = "Pending"
           /\ \/ /\ props'[id].status = "Approved"
                 /\ props[id].approvals_count + 1 >= props[id].approval_threshold
              \/ /\ props'[id].status = "Pending"
                 /\ props[id].approvals_count + 1 < props[id].approval_threshold
<1> USE DEF TypeOK, UpgradeProposal
<1> DEFINE c == props[id].approvals_count + 1
           s == IF c >= props[id].approval_threshold THEN "Approved" ELSE "Pending"
<1>1. /\ u \notin Voters(id)
      /\ Voters(id)' = Voters(id) \cup {u}
      /\ \A i \in 1..prop_cnt : i # id => Voters(i)' = Voters(i)
  BY DEF approve_proposal, Voters
<1>2. props' = [props EXCEPT ![id].approvals_count = c, ![id].status = s]
  BY DEF approve_proposal
<1>3. /\ prop_cnt' = prop_cnt /\ now' = now /\ Listed(u, id)
      /\ props[id].status = "Pending"
  BY DEF approve_proposal
<1>4. \/ s = "Approved" /\ c >= props[id].approval_threshold
      \/ s = "Pending" /\ c < props[id].approval_threshold
  <2>1. c \in Nat /\ props[id].approval_threshold \in Nat
    OBVIOUS
  <2> QED
    BY <2>1
<1> HIDE DEF s
<1>5. /\ props'[id].approvals_count = c /\ props'[id].status = s
      /\ props'[id].approval_threshold = props[id].approval_threshold
      /\ props'[id].approvers = props[id].approvers
      /\ props'[id].execution_time = props[id].execution_time
      /\ props'[id].executed = props[id].executed
      /\ \A i \in 1..prop_cnt : i # id => props'[i] = props[i]
  BY <1>2
<1> QED
  BY <1>1, <1>3, <1>4, <1>5

(***************************************************************************)
(* What propose_upgrade does: one more proposal, pending and without       *)
(* votes, and the others as they were.                                     *)
(***************************************************************************)
LEMMA ProposalCreated ==
    ASSUME TypeOK, NEW u \in Users, NEW as \in ApproverLists, NEW d \in Delays,
           NEW t \in 0..(Len(as) + 1), propose_upgrade(u, t, as, d)
    PROVE  /\ 1..prop_cnt' = (1..prop_cnt) \cup {prop_cnt + 1}
           /\ now' = now
           /\ \A i \in 1..prop_cnt : props'[i] = props[i] /\ Voters(i)' = Voters(i)
           /\ props'[prop_cnt + 1].approvals_count = 0
           /\ props'[prop_cnt + 1].approval_threshold \in Nat \ {0}
           /\ props'[prop_cnt + 1].status = "Pending"
           /\ props'[prop_cnt + 1].executed = FALSE
           /\ \A n : n = prop_cnt + 1 => Voters(n)' = {}
<1> USE DEF TypeOK
<1>1. as \in Seq(Users)
  BY ApproverListsAssumption
<1>2. t \in Nat \ {0}
  BY <1>1 DEF propose_upgrade
<1>3. \A i \in 1..prop_cnt : props'[i] = props[i] /\ Voters(i)' = Voters(i)
  BY DEF propose_upgrade, Voters
<1>4. /\ props'[prop_cnt + 1].approvals_count = 0
      /\ props'[prop_cnt + 1].approval_threshold = t
      /\ props'[prop_cnt + 1].status = "Pending"
      /\ props'[prop_cnt + 1].executed = FALSE
  BY DEF propose_upgrade
<1>5. \A n : n = prop_cnt + 1 => Voters(n)' = {}
  BY DEF propose_upgrade, Voters
<1>6. 1..prop_cnt' = (1..prop_cnt) \cup {prop_cnt + 1} /\ now' = now
  BY DEF propose_upgrade
<1> QED
  BY <1>2, <1>3, <1>4, <1>5, <1>6

(***************************************************************************)
(* Every step keeps the votes counted: the counter moves only when a new   *)
(* approver enters the approvals map.                                      *)
(***************************************************************************)
LEMMA VotesStep ==
    ASSUME TypeOK, TypeOK', VotesCounted, [Next]_vars
    PROVE  VotesCounted'
<1>1. \A id \in 1..prop_cnt : IsFiniteSet(Voters(id))
  BY UsersAssumption, FS_Subset DEF Voters
<1>2. CASE UNCHANGED <<prop_cnt, props, apprv>>
  BY <1>2 DEF VotesCounted, Counted, Voters, Listed
<1>3. ASSUME NEW u \in Users, NEW as \in ApproverLists, NEW d \in Delays,
             NEW t \in 0..(Len(as) + 1), propose_upgrade(u, t, as, d)
      PROVE  VotesCounted'
  <2>1. /\ 1..prop_cnt' = (1..prop_cnt) \cup {prop_cnt + 1}
        /\ \A i \in 1..prop_cnt : props'[i] = props[i] /\ Voters(i)' = Voters(i)
        /\ props'[prop_cnt + 1].approvals_count = 0
        /\ props'[prop_cnt + 1].approval_threshold \in Nat \ {0}
        /\ props'[prop_cnt + 1].status = "Pending"
        /\ \A n : n = prop_cnt + 1 => Voters(n)' = {}
    BY <1>3, ProposalCreated
  <2>3. ASSUME NEW i \in 1..prop_cnt' PROVE Counted(i)'
    <3>1. CASE i \in 1..prop_cnt
      BY <2>1, <3>1 DEF VotesCounted, Counted, Listed
    <3>2. CASE i = prop_cnt + 1
      <4>1. Voters(i)' = {} /\ Cardinality(Voters(i)') = 0
        BY <2>1, <3>2, FS_EmptySet
      <4> QED
        BY <2>1, <3>2, <4>1 DEF Counted
    <3> QED
      BY <2>1, <2>3, <3>1, <3>2
  <2> QED
    BY <2>3 DEF VotesCounted
<1>4. ASSUME NEW id \in 1..prop_cnt, NEW u \in Users, approve_proposal(id, u)
      PROVE  VotesCounted'
  <2>1. Cardinality(Voters(id) \cup {u}) = Cardinality(Voters(id)) + 1
    BY <1>1, <1>4, ApprovalUpdate, FS_AddElement
  <2>2. /\ prop_cnt' = prop_cnt
        /\ \A i \in 1..prop_cnt : i # id => props'[i] = props[i] /\ Voters(i)' = Voters(i)
    BY <1>4, ApprovalUpdate
  <2>3. ASSUME NEW i \in 1..prop_cnt, i # id PROVE Counted(i)'
    BY <2>2, <2>3 DEF VotesCounted, Counted, Listed
  <2>4. Counted(id)'
    <3>1. /\ Listed(u, id)
          /\ Voters(id)' = Voters(id) \cup {u}
          /\ props'[id].approvals_count = props[id].approvals_count + 1
          /\ props'[id].approval_threshold = props[id].approval_threshold
          /\ props'[id].approvers = props[id].approvers
          /\ \/ /\ props'[id].status = "Approved"
                /\ props[id].approvals_count + 1 >= props[id].approval_threshold
             \/ /\ props'[id].status = "Pending"
                /\ props[id].approvals_count + 1 < props[id].approval_threshold
      BY <1>4, ApprovalUpdate
    <3>2. props[id].approvals_count = Cardinality(Voters(id))
      BY DEF VotesCounted, Counted
    <3>3. props'[id].approvals_count = Cardinality(Voters(id)')
      BY <3>1, <3>2, <2>1
    <3>4. \A v \in Voters(id)' : Listed(v, id)'
      BY <3>1 DEF VotesCounted, Counted, Listed
    <3>5. props'[id].approval_threshold > 0
      BY <3>1 DEF VotesCounted, Counted
    <3> QED
      BY <3>1, <3>3, <3>4, <3>5 DEF Counted
  <2> QED
    BY <2>2, <2>3, <2>4 DEF VotesCounted
<1>5. ASSUME NEW id \in 1..prop_cnt, NEW u \in Users,
             execute_proposal(id, u) \/ reject_proposal(id, u) \/ cancel_proposal(id, u)
      PROVE  VotesCounted'
  <2>1. \A i \in 1..prop_cnt : Voters(i)' = Voters(i)
    BY <1>5, ProposalUpdate DEF Voters
  <2>2. /\ prop_cnt' = prop_cnt
        /\ \A i \in 1..prop_cnt : i # id => props'[i] = props[i]
        /\ props'[id].approvals_count = props[id].approvals_count
        /\ props'[id].approval_threshold = props[id].approval_threshold
        /\ props'[id].approvers = props[id].approvers
        /\ \/ props[id].status = "Approved" /\ props'[id].status = "Executed"
           \/ props'[id].status = "Rejected"
           \/ props'[id].status = "Cancelled"
    BY <1>5, ProposalUpdate
  <2>3. ASSUME NEW i \in 1..prop_cnt, i # id PROVE Counted(i)'
    BY <2>1, <2>2, <2>3 DEF VotesCounted, Counted, Listed
  <2>4. Counted(id)'
    BY <2>1, <2>2 DEF VotesCounted, Counted, Listed
  <2> QED
    BY <2>2, <2>3, <2>4 DEF VotesCounted
<1> QED
  BY <1>2, <1>3, <1>4, <1>5 DEF Next, UpgradeNext, Tick, LedgerCloses, vars, govVars

(***************************************************************************)
(* The executed flag and the Executed status are only set together, and    *)
(* only by execute_proposal.                                               *)
(***************************************************************************)
LEMMA FlagStep ==
    ASSUME TypeOK, ExecutedFlagAgrees, [Next]_vars
    PROVE  ExecutedFlagAgrees'
<1>1. ASSUME NEW u \in Users, NEW as \in ApproverLists, NEW d \in Delays,
             NEW t \in 0..(Len(as) + 1), propose_upgrade(u, t, as, d)
      PROVE  ExecutedFlagAgrees'
  BY <1>1, ProposalCreated, ZenonT(60) DEF ExecutedFlagAgrees
<1>2. ASSUME NEW id \in 1..prop_cnt, NEW u \in Users, approve_proposal(id, u)
      PROVE  ExecutedFlagAgrees'
  BY <1>2, ApprovalUpdate DEF ExecutedFlagAgrees
<1>3. ASSUME NEW id \in 1..prop_cnt, NEW u \in Users,
             execute_proposal(id, u) \/ reject_proposal(id, u) \/ cancel_proposal(id, u)
      PROVE  ExecutedFlagAgrees'
  BY <1>3, ProposalUpdate, ZenonT(60) DEF ExecutedFlagAgrees
<1>4. CASE UNCHANGED <<prop_cnt, props>>
  BY <1>4 DEF ExecutedFlagAgrees
<1> QED
  BY <1>1, <1>2, <1>3, <1>4 DEF Next, UpgradeNext, Tick, LedgerCloses, vars, govVars

(***************************************************************************)
(* Time never runs back and an executed proposal's terms never change, so  *)
(* the execution time of an executed proposal stays in the past.           *)
(***************************************************************************)
TimelockRespected ==
    \A id \in 1..prop_cnt : props[id].executed => now >= props[id].execution_time

(***************************************************************************)
(* Every step keeps the timelock respected: only execute_proposal sets     *)
(* the flag, and it compares the times first.                              *)
(***************************************************************************)
LEMMA TimelockStep ==
    ASSUME TypeOK, TimelockRespected, [Next]_vars
    PROVE  TimelockRespected'
<1>1. ASSUME NEW u \in Users, NEW as \in ApproverLists, NEW d \in Delays,
             NEW t \in 0..(Len(as) + 1), propose_upgrade(u, t, as, d)
      PROVE  TimelockRespected'
  BY <1>1, ProposalCreated DEF TimelockRespected
<1>2. ASSUME NEW id \in 1..prop_cnt, NEW u \in Users, approve_proposal(id, u)
      PROVE  TimelockRespected'
  BY <1>2, ApprovalUpdate DEF TimelockRespected
<1>3. ASSUME NEW id \in 1..prop_cnt, NEW u \in Users,
             execute_proposal(id, u) \/ reject_proposal(id, u) \/ cancel_proposal(id, u)
      PROVE  TimelockRespected'
  <2>1. /\ prop_cnt' = prop_cnt /\ now' = now
        /\ \A i \in 1..prop_cnt : i # id => props'[i] = props[i]
        /\ props'[id].execution_time = props[id].execution_time
        /\ now >= props[id].execution_time \/ props'[id].executed = props[id].executed
    BY <1>3, ProposalUpdate
  <2>2. \A i \in 1..prop_cnt : props'[i].executed => now >= props'[i].execution_time
    BY <2>1 DEF TimelockRespected
  <2> QED
    BY <2>1, <2>2 DEF TimelockRespected
<1>4. CASE UNCHANGED <<prop_cnt, props, now>>
  BY <1>4 DEF TimelockRespected
<1>5. CASE Tick
  <2>1. prop_cnt' = prop_cnt /\ props' = props /\ now' \in Nat /\ now' > now
    BY <1>5, MaxTimeAssumption DEF Tick, LedgerCloses
  <2>2. \A id \in 1..prop_cnt : props[id].execution_time \in Nat
    BY DEF TypeOK, UpgradeProposal
  <2>3. now \in Nat
    BY DEF TypeOK
  <2> QED
    BY <2>1, <2>2, <2>3 DEF TimelockRespected
<1> QED
  BY <1>1, <1>2, <1>3, <1>4, <1>5 DEF Next, UpgradeNext, vars, govVars

(***************************************************************************)
(* The quorum of an executed proposal follows from the counted votes, the  *)
(* flag's agreement with the status, and the timelock.                     *)
(***************************************************************************)
LEMMA QuorumFollows ==
    ASSUME VotesCounted, ExecutedFlagAgrees, TimelockRespected
    PROVE  ExecutedHadQuorum
<1> SUFFICES ASSUME NEW id \in 1..prop_cnt, props[id].executed
             PROVE  /\ Cardinality({u \in Voters(id) : Listed(u, id)})
                          >= props[id].approval_threshold
                    /\ now >= props[id].execution_time
  BY DEF ExecutedHadQuorum
<1>1. {u \in Voters(id) : Listed(u, id)} = Voters(id)
  BY DEF VotesCounted, Counted
<1>2. props[id].approvals_count >= props[id].approval_threshold
  BY DEF VotesCounted, Counted, ExecutedFlagAgrees
<1>3. props[id].approvals_count = Cardinality(Voters(id))
  BY DEF VotesCounted, Counted
<1> QED
  BY <1>1, <1>2, <1>3 DEF TimelockRespected

(***************************************************************************)
(* A step never reopens a proposal or changes its terms.                   *)
(***************************************************************************)
LEMMA ClosedStep ==
    ASSUME TypeOK, ExecutedFlagAgrees, [Next]_vars
    PROVE  \A id \in 1..prop_cnt : ProposalStep(props[id], props'[id])
<1>1. \A id \in 1..prop_cnt : props[id].status \in ProposalStatus
  BY DEF TypeOK, UpgradeProposal
<1>2. ASSUME NEW id \in 1..prop_cnt, props'[id] = props[id]
      PROVE  ProposalStep(props[id], props'[id])
  BY <1>1, <1>2 DEF ProposalStep
<1>3. ASSUME NEW u \in Users, NEW as \in ApproverLists, NEW d \in Delays,
             NEW t \in 0..(Len(as) + 1), propose_upgrade(u, t, as, d)
      PROVE  \A id \in 1..prop_cnt : ProposalStep(props[id], props'[id])
  BY <1>2, <1>3, ProposalCreated
<1>4. ASSUME NEW id \in 1..prop_cnt, NEW u \in Users, approve_proposal(id, u)
      PROVE  \A i \in 1..prop_cnt : ProposalStep(props[i], props'[i])
  <2>1. ProposalStep(props[id], props'[id])
    BY <1>4, ApprovalUpdate DEF ProposalStep, ProposalStatus
  <2> QED
    BY <1>2, <1>4, <2>1, ApprovalUpdate
<1>5. ASSUME NEW id \in 1..prop_cnt, NEW u \in Users,
             execute_proposal(id, u) \/ reject_proposal(id, u) \/ cancel_proposal(id, u)
      PROVE  \A i \in 1..prop_cnt : ProposalStep(props[i], props'[i])
  <2>1. ProposalStep(props[id], props'[id])
    BY <1>1, <1>5, ProposalUpdate DEF ProposalStep, ProposalStatus, ExecutedFlagAgrees
  <2> QED
    BY <1>2, <1>5, <2>1, ProposalUpdate
<1>6. CASE UNCHANGED props
  BY <1>2, <1>6
<1> QED
  BY <1>3, <1>4, <1>5, <1>6 DEF Next, UpgradeNext, Tick, LedgerCloses, vars, govVars

-----------------------------------------------------------------------------
(***************************************************************************)
(* The inductive invariant.  The quorum property alone is not inductive:   *)
(* it needs the counter to be the number of voters while the proposal is   *)
(* still pending, and the flag to move with the status.                    *)
(***************************************************************************)
IInv ==
    /\ TypeOK
    /\ AdminRooted
    /\ VotesCounted
    /\ ExecutedFlagAgrees
    /\ TimelockRespected

(***************************************************************************)
(* Every reachable state of an initialized or fresh contract satisfies the *)
(* inductive invariant.                                                    *)
(***************************************************************************)
THEOREM Invariance == Spec => []IInv
<1>1. Init => IInv
  BY InitEstablishes DEF IInv, TimelockRespected, Init
<1>2. IInv /\ [Next]_vars => IInv'
  <2> SUFFICES ASSUME IInv, [Next]_vars PROVE IInv'
    OBVIOUS
  <2>1. TypeOK'
    BY TypeStep DEF IInv
  <2>2. AdminRooted'
    BY NextKeepsRoot DEF IInv
  <2>3. VotesCounted'
    BY <2>1, VotesStep DEF IInv
  <2>4. ExecutedFlagAgrees' /\ TimelockRespected'
    BY FlagStep, TimelockStep DEF IInv
  <2> QED
    BY <2>1, <2>2, <2>3, <2>4 DEF IInv
<1> QED
  BY <1>1, <1>2, PTL DEF Spec

(***************************************************************************)
(* Type correctness of the contract's storage, for any number of users,    *)
(* roles, proposals and any depth limit.                                   *)
(***************************************************************************)
THEOREM TypeCorrect == Spec => []TypeOK
<1>1. IInv => TypeOK
  BY DEF IInv
<1> QED
  BY <1>1, Invariance, PTL

(***************************************************************************)
(* The approvals counter is the number of listed voters in every reachable *)
(* state (approve_proposal).                                               *)
(***************************************************************************)
THEOREM VotesAreCounted == Spec => []VotesCounted
<1>1. IInv => VotesCounted
  BY DEF IInv
<1> QED
  BY <1>1, Invariance, PTL

(***************************************************************************)
(* No upgrade is ever executed without threshold different listed          *)
(* approvers and an elapsed timelock (execute_proposal).                   *)
(***************************************************************************)
THEOREM NoExecutionWithoutQuorum == Spec => []ExecutedHadQuorum
<1>1. IInv => ExecutedHadQuorum
  BY QuorumFollows DEF IInv
<1> QED
  BY <1>1, Invariance, PTL

(***************************************************************************)
(* However roles, permissions and parents are changed, somebody can still  *)
(* manage the ACL (has_permission never panics for that somebody).         *)
(***************************************************************************)
THEOREM AclStaysManageable == Spec => []SomeoneManagesAcl
<1>1. IInv => SomeoneManagesAcl
  BY RootedManages DEF IInv, TypeOK
<1> QED
  BY <1>1, Invariance, PTL

(***************************************************************************)
(* No step reopens a closed proposal or changes its terms.                 *)
(***************************************************************************)
THEOREM ProposalsStayClosed == Spec => ClosedStaysClosed
<1>1. IInv /\ [Next]_vars
        => [\A id \in 1..prop_cnt : ProposalStep(props[id], props'[id])]_vars
  BY ClosedStep DEF IInv
<1> QED
  BY <1>1, Invariance, PTL DEF Spec, ClosedStaysClosed

-----------------------------------------------------------------------------
(* Sums and the order book, as the contract sees them *)

Total(f, S) == BP!SumFunctionOnSet(f, S)

(***************************************************************************)
(* A sum means the same here and in the proofs of the order book.          *)
(***************************************************************************)
LEMMA SameSums ==
    ASSUME NEW f
    PROVE  Book!SumFunction(f) = Total(f, DOMAIN f)
BY DEF Book!SumFunction, Book!SumFunctionOnSet, Book!FoldFunctionOnSet, Book!MapThenFoldSet,
       BP!SumFunctionOnSet, BP!FoldFunctionOnSet, BP!MapThenFoldSet, Total

(***************************************************************************)
(* Finite means the same here and in the proofs of the order book.         *)
(***************************************************************************)
LEMMA SameFinite ==
    ASSUME NEW S
    PROVE  BP!IsFiniteSet(S) <=> IsFiniteSet(S)
BY DEF IsFiniteSet, BP!IsFiniteSet

(***************************************************************************)
(* The assumptions of the order book's proofs.                             *)
(***************************************************************************)
LEMMA BookAssumptions ==
    MaxTime \in Nat /\ (Prices \subseteq Int /\ Amounts \subseteq Int) /\ MaxOrders \in Nat
BY MaxTimeAssumption, TradeInputsAssumption

(***************************************************************************)
(* A finite sum of integers is an integer.                                 *)
(***************************************************************************)
LEMMA TotalInt ==
    ASSUME NEW f, NEW S, IsFiniteSet(S), \A x \in S : f[x] \in Int
    PROVE  Total(f, S) \in Int
<1>1. BP!IsFiniteSet(S)
  BY SameFinite
<1> QED
  BY <1>1, BookAssumptions, BP!SumInt DEF Total

(***************************************************************************)
(* A sum of zeros is zero.                                                 *)
(***************************************************************************)
LEMMA TotalZero ==
    ASSUME NEW f, NEW S, IsFiniteSet(S), \A x \in S : f[x] = 0
    PROVE  Total(f, S) = 0
<1>1. BP!IsFiniteSet(S)
  BY SameFinite
<1> QED
  BY <1>1, BookAssumptions, BP!SumZero DEF Total

(***************************************************************************)
(* Functions with the same terms have the same sum.                        *)
(***************************************************************************)
LEMMA TotalExt ==
    ASSUME NEW f, NEW e, NEW S, IsFiniteSet(S), \A x \in S : f[x] = e[x]
    PROVE  Total(f, S) = Total(e, S)
<1>1. BP!IsFiniteSet(S)
  BY SameFinite
<1> QED
  BY <1>1, BookAssumptions, BP!SumExt DEF Total

(***************************************************************************)
(* One term of a sum changes.                                              *)
(***************************************************************************)
LEMMA TotalChange ==
    ASSUME NEW f, NEW e, NEW S, IsFiniteSet(S), NEW a \in S,
           \A x \in S : f[x] \in Int /\ e[x] \in Int,
           \A x \in S \ {a} : f[x] = e[x]
    PROVE  Total(e, S) = Total(f, S) + (e[a] - f[a])
<1>1. BP!IsFiniteSet(S)
  BY SameFinite
<1> QED
  BY <1>1, BookAssumptions, BP!SumChange DEF Total

\* e lists the m terms of f and then the n terms of g.
Joins(e, m, f, n, g) ==
    /\ \A i \in 1..m : f[i] \in Int /\ e[i] = f[i]
    /\ \A i \in 1..n : g[i] \in Int /\ e[m + i] = g[i]

(***************************************************************************)
(* The sum over a concatenation is the sum of the two sums.                *)
(***************************************************************************)
LEMMA TotalConcat ==
    ASSUME NEW m \in Nat, NEW n \in Nat, NEW l, l = m + n, NEW f, NEW g, NEW e,
           Joins(e, m, f, n, g)
    PROVE  Total(e, 1..l) = Total(f, 1..m) + Total(g, 1..n)
BY BookAssumptions, BP!SumConcat DEF Total, Joins

(***************************************************************************)
(* The sum of one term.                                                    *)
(***************************************************************************)
LEMMA TotalOne ==
    ASSUME NEW f, NEW a, f[a] \in Int
    PROVE  Total(f, {a}) = f[a]
<1> DEFINE z == [x \in {a} |-> 0]
<1>1. IsFiniteSet({a})
  BY FS_Singleton
<1>2. Total(z, {a}) = 0
  BY <1>1, TotalZero
<1>3. Total(f, {a}) = Total(z, {a}) + (f[a] - z[a])
  BY <1>1, TotalChange
<1> QED
  BY <1>2, <1>3

(***************************************************************************)
(* What the book offers an order.                                          *)
(***************************************************************************)
LEMMA SameFill == \A o : Book!available_fill_for_order(o) = BP!available_fill_for_order(o)
BY DEF Book!available_fill_for_order, BP!available_fill_for_order, Book!SumFunction,
       BP!SumFunction, Book!SumFunctionOnSet, Book!FoldFunctionOnSet, Book!MapThenFoldSet,
       BP!SumFunctionOnSet, BP!FoldFunctionOnSet, BP!MapThenFoldSet,
       Book!Fillable, BP!Fillable, Book!OppositeBook, BP!OppositeBook, Book!Opposite,
       BP!Opposite, Book!IsOpen, BP!IsOpen, Book!order_matches, BP!order_matches

(***************************************************************************)
(* The steps of the order book.                                            *)
(***************************************************************************)
LEMMA SameSteps ==
    /\ \A u \in Users, k \in Pairs, s \in Book!OrderSide, p \in Prices, n \in Amounts,
          tif \in Book!TimeInForce :
         Book!create_limit_order(u, k, s, p, n, tif)
             => BP!create_limit_order(u, k, s, p, n, tif)
    /\ Book!match_limit_order => BP!match_limit_order
    /\ Book!finish_order => BP!finish_order
    /\ \A u, id : Book!cancel_order(u, id) => BP!cancel_order(u, id)
<1>1. \A u \in Users, k \in Pairs, s \in Book!OrderSide, p \in Prices, n \in Amounts,
          tif \in Book!TimeInForce :
         Book!create_limit_order(u, k, s, p, n, tif)
             => BP!create_limit_order(u, k, s, p, n, tif)
  <2>1. \A u, k, s, p, n, tif : Book!NewOrder(u, k, s, p, n, tif) = BP!NewOrder(u, k, s, p, n, tif)
    BY DEF Book!NewOrder, BP!NewOrder
  <2> QED
    BY <2>1, SameFill DEF Book!create_limit_order, BP!create_limit_order
<1>2. Book!match_limit_order => BP!match_limit_order
  BY DEF Book!match_limit_order, BP!match_limit_order, Book!pick_best_match_index,
         BP!pick_best_match_index, Book!Beats, BP!Beats, Book!BetterPrice, BP!BetterPrice,
         Book!Fillable, BP!Fillable, Book!OppositeBook, BP!OppositeBook, Book!Opposite, BP!Opposite,
         Book!IsOpen, BP!IsOpen, Book!order_matches, BP!order_matches,
         Book!Filled, BP!Filled, Book!StatusAfterFill, BP!StatusAfterFill,
         Book!remove_order_from_book, BP!remove_order_from_book, Book!Listed, BP!Listed,
         Book!record_trades, BP!record_trades, Book!TradeRecord, BP!TradeRecord
<1>3. Book!finish_order => BP!finish_order
  BY DEF Book!finish_order, BP!finish_order, Book!LoopIsOver, BP!LoopIsOver,
         Book!Fillable, BP!Fillable, Book!OppositeBook, BP!OppositeBook, Book!Opposite, BP!Opposite,
         Book!IsOpen, BP!IsOpen, Book!order_matches, BP!order_matches
<1>4. \A u, id : Book!cancel_order(u, id) => BP!cancel_order(u, id)
  BY DEF Book!cancel_order, BP!cancel_order, Book!IsOpen, BP!IsOpen,
         Book!remove_order_from_book, BP!remove_order_from_book, Book!Listed, BP!Listed
<1> QED
  BY <1>1, <1>2, <1>3, <1>4

(***************************************************************************)
(* The types of the order book.                                            *)
(***************************************************************************)
LEMMA SameTypes ==
    /\ Book!BookTypeOK <=> BP!BookTypeOK
    /\ Book!Trade = BP!Trade /\ Book!OrderSide = BP!OrderSide /\ Book!TimeInForce = BP!TimeInForce
BY DEF Book!BookTypeOK, BP!BookTypeOK, Book!LimitOrder, BP!LimitOrder, Book!OrderStatus,
       BP!OrderStatus, Book!Trade, BP!Trade, Book!OrderSide, BP!OrderSide, Book!TimeInForce,
       BP!TimeInForce

-----------------------------------------------------------------------------
(* The trade log *)

\* The volume of a sequence of records.
VolumeOf(ts) == Book!SumFunction([i \in DOMAIN ts |-> Volume(ts[i])])

Logs(ts) == Book!record_trades(ts, VolumeOf(ts))

(***************************************************************************)
(* The volume of a log is the sum over its records, an integer.            *)
(***************************************************************************)
LEMMA VolumeIs ==
    ASSUME NEW ts \in Seq(Book!Trade)
    PROVE  /\ VolumeOf(ts) = Total([i \in 1..Len(ts) |-> Volume(ts[i])], 1..Len(ts))
           /\ VolumeOf(ts) \in Int /\ Len(ts) \in Nat
           /\ \A i \in 1..Len(ts) : ts[i] \in Book!Trade /\ Volume(ts[i]) \in Int
<1> DEFINE f == [i \in 1..Len(ts) |-> Volume(ts[i])]
<1>1. DOMAIN ts = 1..Len(ts) /\ Len(ts) \in Nat
  OBVIOUS
<1>2. \A i \in 1..Len(ts) : ts[i] \in Book!Trade
  OBVIOUS
<1>3. \A r \in Book!Trade : Volume(r) \in Int
  BY DEF Volume, Book!Trade
<1>4. VolumeOf(ts) = Total(f, 1..Len(ts))
  BY <1>1, SameSums DEF VolumeOf
<1>5. Total(f, 1..Len(ts)) \in Int
  <2>1. IsFiniteSet(1..Len(ts))
    BY <1>1, FS_Interval
  <2>2. \A i \in 1..Len(ts) : f[i] \in Int
    BY <1>2, <1>3
  <2> HIDE DEF f
  <2> QED
    BY <2>1, <2>2, TotalInt
<1> QED
  BY <1>1, <1>2, <1>3, <1>4, <1>5

(***************************************************************************)
(* The volume of a log and what is appended to it.                         *)
(***************************************************************************)
LEMMA VolumeConcat ==
    ASSUME NEW ts \in Seq(Book!Trade), NEW us \in Seq(Book!Trade)
    PROVE  /\ ts \o us \in Seq(Book!Trade)
           /\ VolumeOf(ts \o us) = VolumeOf(ts) + VolumeOf(us)
<1> DEFINE m == Len(ts)
           n == Len(us)
           f == [i \in 1..m |-> Volume(ts[i])]
           g == [i \in 1..n |-> Volume(us[i])]
           e == [i \in 1..Len(ts \o us) |-> Volume((ts \o us)[i])]
<1>1. ts \o us \in Seq(Book!Trade) /\ Len(ts \o us) = m + n
  OBVIOUS
<1>2. /\ \A i \in 1..m : (ts \o us)[i] = ts[i]
      /\ \A i \in 1..n : (ts \o us)[m + i] = us[i]
  OBVIOUS
<1>3. /\ VolumeOf(ts) = Total(f, 1..m) /\ VolumeOf(us) = Total(g, 1..n)
      /\ VolumeOf(ts \o us) = Total(e, 1..Len(ts \o us))
      /\ m \in Nat /\ n \in Nat
      /\ \A i \in 1..m : Volume(ts[i]) \in Int
      /\ \A i \in 1..n : Volume(us[i]) \in Int
  BY <1>1, VolumeIs
<1>4. Joins(e, m, f, n, g)
  <2>1. \A i \in 1..m : i \in 1..(m + n)
    BY <1>3
  <2>2. \A i \in 1..n : m + i \in 1..(m + n)
    BY <1>3
  <2> QED
    BY <1>1, <1>2, <1>3, <2>1, <2>2 DEF Joins
<1>5. m \in Nat /\ n \in Nat /\ Len(ts \o us) = m + n
  BY <1>1, <1>3
<1> DEFINE l == Len(ts \o us)
<1> HIDE DEF e, f, g, m, n, l
<1>6. Total(e, 1..l) = Total(f, 1..m) + Total(g, 1..n)
  <2>1. l = m + n
    BY <1>5 DEF l
  <2> QED
    BY <1>4, <1>5, <2>1, TotalConcat
<1> QED
  BY <1>1, <1>3, <1>6 DEF l

(***************************************************************************)
(* A trade record is well typed and carries its amount.                    *)
(***************************************************************************)
LEMMA RecordIs ==
    ASSUME now \in Nat, NEW u \in Users, NEW k \in Pairs, NEW n \in Int, NEW p \in Int,
           NEW s \in Book!OrderSide, n > 0
    PROVE  /\ Book!TradeRecord(u, k, n, p, s) \in Book!Trade
           /\ Volume(Book!TradeRecord(u, k, n, p, s)) = n
BY DEF Book!TradeRecord, Book!Trade, Volume

(***************************************************************************)
(* A direct trade appends a record and its volume (trade).                 *)
(***************************************************************************)
LEMMA TradeLogs ==
    ASSUME now \in Nat, NEW u \in Users, NEW k \in Pairs, NEW n \in Int, NEW p \in Int,
           NEW s \in Book!OrderSide, trade(u, k, n, p, s)
    PROVE  \E ts \in Seq(Book!Trade) : Logs(ts)
<1> DEFINE r == Book!TradeRecord(u, k, n, p, s)
<1>1. r \in Book!Trade /\ Volume(r) = n
  BY RecordIs DEF trade
<1>2. Book!record_trades(<<r>>, n)
  BY DEF trade
<1> HIDE DEF r
<1>3. <<r>> \in Seq(Book!Trade) /\ Len(<<r>>) = 1 /\ <<r>>[1] = r
  BY <1>1
<1>4. VolumeOf(<<r>>) = n
  <2> DEFINE f == [i \in 1..Len(<<r>>) |-> Volume(<<r>>[i])]
  <2>1. VolumeOf(<<r>>) = Total(f, 1..Len(<<r>>))
    BY <1>3, VolumeIs
  <2>2. 1..Len(<<r>>) = {1} /\ f[1] = n
    BY <1>1, <1>3
  <2> HIDE DEF f
  <2>3. Total(f, {1}) = n
    BY <2>2, TotalOne
  <2> QED
    BY <2>1, <2>2, <2>3
<1> QED
  BY <1>2, <1>3, <1>4 DEF Logs

(***************************************************************************)
(* A batch appends a record per item and their volume (batch_trade).       *)
(***************************************************************************)
LEMMA BatchLogs ==
    ASSUME now \in Nat, NEW u \in Users, NEW b \in Batches, batch_trade(u, b)
    PROVE  \E ts \in Seq(Book!Trade) : Logs(ts)
<1> DEFINE ts == [i \in DOMAIN b |-> Book!TradeRecord(u, b[i].pair, b[i].amount, b[i].price, b[i].side)]
           f == [i \in 1..Len(ts) |-> Volume(ts[i])]
           g == [i \in DOMAIN b |-> b[i].amount]
<1>1. b \in Seq(BatchItem)
  BY TradeInputsAssumption
<1>2. DOMAIN b = 1..Len(b) /\ Len(b) \in Nat
  BY <1>1
<1>3. \A i \in 1..Len(b) : /\ b[i].pair \in Pairs /\ b[i].amount \in Int /\ b[i].price \in Int
                           /\ b[i].side \in Book!OrderSide /\ b[i].amount > 0
  <2>1. \A x \in BatchItem : /\ x.pair \in Pairs /\ x.amount \in Int /\ x.price \in Int
                             /\ x.side \in Book!OrderSide
    BY DEF BatchItem, Book!OrderSide
  <2>2. \A i \in 1..Len(b) : b[i] \in BatchItem
    BY <1>1
  <2>3. \A i \in 1..Len(b) : b[i].amount > 0
    BY <1>2 DEF batch_trade
  <2> QED
    BY <2>1, <2>2, <2>3
<1>4. \A i \in 1..Len(b) : ts[i] \in Book!Trade /\ Volume(ts[i]) = b[i].amount
  BY <1>2, <1>3, RecordIs
<1>5. ts \in Seq(Book!Trade) /\ Len(ts) = Len(b)
  <2>1. ts \in [1..Len(b) -> Book!Trade]
    BY <1>2, <1>4
  <2> QED
    BY <1>2, <2>1, SeqDef, LenProperties
<1>6. Book!record_trades(ts, BatchVolume(b))
  BY DEF batch_trade
<1> HIDE DEF ts
<1>7. VolumeOf(ts) = Total(f, 1..Len(b))
  BY <1>5, VolumeIs
<1>8. BatchVolume(b) = Total(g, 1..Len(b))
  BY <1>2, SameSums DEF BatchVolume
<1>9. Total(f, 1..Len(b)) = Total(g, 1..Len(b))
  <2>1. IsFiniteSet(1..Len(b))
    BY <1>2, FS_Interval
  <2>2. \A i \in 1..Len(b) : f[i] = g[i]
    BY <1>2, <1>4, <1>5
  <2> HIDE DEF f, g
  <2> QED
    BY <2>1, <2>2, TotalExt
<1> QED
  BY <1>5, <1>6, <1>7, <1>8, <1>9 DEF Logs

(***************************************************************************)
(* An iteration of the loop appends a record of each side, and twice what  *)
(* it fills (match_limit_order).                                           *)
(***************************************************************************)
LEMMA MatchLogs ==
    ASSUME BP!BookCore, Book!match_limit_order
    PROVE  \E ts \in Seq(Book!Trade) : Logs(ts)
<1>1. PICK m \in 1..o_cnt, fill \in Int : BP!Matched(m, fill)
  BY SameSteps, BookAssumptions, BP!Matching
<1>2. 0 < fill
  BY <1>1 DEF BP!Matched
<1>3. PICK a \in Book!Trade, b \in Book!Trade :
        /\ trades' = trades \o <<a, b>>
        /\ a.signed_amount \in {fill, 0 - fill} /\ b.signed_amount \in {fill, 0 - fill}
        /\ stats' = [total_trades |-> stats.total_trades + 2,
                     total_volume |-> stats.total_volume + 2 * fill]
  <2>1. \E a, b \in BP!Trade :
          /\ trades' = trades \o <<a, b>>
          /\ a.signed_amount \in {fill, 0 - fill} /\ b.signed_amount \in {fill, 0 - fill}
          /\ stats' = [total_trades |-> stats.total_trades + 2,
                       total_volume |-> stats.total_volume + 2 * fill]
    BY <1>1, BookAssumptions, BP!MatchedTrades
  <2> QED
    BY <2>1, SameTypes
<1>4. Volume(a) = fill /\ Volume(b) = fill
  <2>1. \A x \in {fill, 0 - fill} : (IF x < 0 THEN -x ELSE x) = fill
    BY <1>2
  <2> QED
    BY <1>3, <2>1 DEF Volume
<1>5. <<a, b>> \in Seq(Book!Trade) /\ Len(<<a, b>>) = 2
  OBVIOUS
<1>6. VolumeOf(<<a, b>>) = 2 * fill
  <2> DEFINE D == 1..Len(<<a, b>>)
             f == [i \in D |-> Volume(<<a, b>>[i])]
             z == [i \in D |-> 0]
             y == [i \in D |-> IF i = 1 THEN fill ELSE 0]
  <2>1. VolumeOf(<<a, b>>) = Total(f, D) /\ IsFiniteSet(D)
    <3>1. VolumeOf(<<a, b>>) = Total(f, D)
      BY <1>5, VolumeIs
    <3>2. \A n \in Nat : IsFiniteSet(1..n)
      BY FS_Interval
    <3>3. Len(<<a, b>>) \in Nat
      BY <1>5
    <3>4. IsFiniteSet(D)
      BY <3>2, <3>3, Zenon
    <3> QED
      BY <3>1, <3>4
  <2>2. 1 \in D /\ 2 \in D /\ \A i \in D : i = 1 \/ i = 2
    BY <1>5
  <2>3. f[1] = fill /\ f[2] = fill
    BY <1>4, <2>2
  <2> HIDE DEF D
  <2>4. /\ \A i \in D : z[i] = 0
        /\ y[1] = fill /\ y[2] = 0
    BY <2>2
  <2> HIDE DEF f, z, y
  <2>5. Total(z, D) = 0
    BY <2>1, <2>4, TotalZero
  <2>6. Total(y, D) = Total(z, D) + (y[1] - z[1])
    BY <2>1, <2>2, <2>4, TotalChange
  <2>7. Total(f, D) = Total(y, D) + (f[2] - y[2])
    BY <2>1, <2>2, <2>3, <2>4, TotalChange
  <2> QED
    BY <2>1, <2>2, <2>3, <2>4, <2>5, <2>6, <2>7
<1> QED
  BY <1>3, <1>5, <1>6 DEF Logs, Book!record_trades

-----------------------------------------------------------------------------
(* What a step of the contract is to its parts *)

\* Calls that only the order book can tell apart.
OrderCall ==
    \/ \E u \in Users, k \in Pairs, s \in Book!OrderSide, p \in Prices, n \in Amounts,
          tif \in Book!TimeInForce : Book!create_limit_order(u, k, s, p, n, tif)
    \/ Book!match_limit_order \/ Book!finish_order
    \/ \E u \in Users, id \in 1..o_cnt : Book!cancel_order(u, id)

NoOrderCall == UNCHANGED <<o_cnt, orders, obook, taker>> /\ now' \in Nat /\ now <= now'

(***************************************************************************)
(* Every step is a step of the order book or leaves the orders alone, and  *)
(* logs what it trades or leaves the log alone.                            *)
(***************************************************************************)
LEMMA BookPart ==
    ASSUME BP!BookCore, [TradingNext]_tradingVars
    PROVE  /\ OrderCall \/ NoOrderCall
           /\ (\E ts \in Seq(Book!Trade) : Logs(ts)) \/ UNCHANGED <<trades, stats>>
<1>1. now \in Nat
  BY DEF BP!BookCore, BP!Typed
<1>2. CASE UNCHANGED <<bookVars, now>>
  BY <1>1, <1>2 DEF bookVars, NoOrderCall
<1>3. DeployNext \/ AclCall \/ AdminNext \/ PrivateTrade \/ UNCHANGED tradingVars
        => UNCHANGED <<bookVars, now>>
  BY DEF DeployNext, deploy, AclCall, AdminNext, set_rate_limit_config, set_premium_user,
         set_pause_level, unpause, pause_function, unpause_function, PrivateTrade, tradingVars
<1>4. CASE LedgerTick
  BY <1>1, <1>4, MaxTimeAssumption DEF LedgerTick, LedgerCloses, bookVars, NoOrderCall
<1>5. ASSUME NEW u \in Users, NEW k \in Pairs, NEW s \in Book!OrderSide, NEW p \in Prices,
             NEW n \in Amounts, trade(u, k, n, p, s)
      PROVE  NoOrderCall /\ \E ts \in Seq(Book!Trade) : Logs(ts)
  <2>1. p \in Int /\ n \in Int
    BY TradeInputsAssumption
  <2>2. \E ts \in Seq(Book!Trade) : Logs(ts)
    BY <1>1, <1>5, <2>1, TradeLogs
  <2> QED
    BY <1>1, <1>5, <2>2 DEF trade, NoOrderCall
<1>6. ASSUME NEW u \in Users, NEW b \in Batches, batch_trade(u, b)
      PROVE  NoOrderCall /\ \E ts \in Seq(Book!Trade) : Logs(ts)
  BY <1>1, <1>6, BatchLogs DEF batch_trade, NoOrderCall
<1>7. ASSUME NEW u \in Users, NEW k \in Pairs, NEW s \in Book!OrderSide, NEW p \in Prices,
             NEW n \in Amounts, NEW tif \in Book!TimeInForce, create_limit_order(u, k, s, p, n, tif)
      PROVE  OrderCall /\ UNCHANGED <<trades, stats>>
  BY <1>7 DEF create_limit_order, Book!create_limit_order, OrderCall
<1>8. ASSUME NEW u \in Users, NEW id \in 1..o_cnt, cancel_order(u, id)
      PROVE  OrderCall /\ UNCHANGED <<trades, stats>>
  BY <1>8 DEF cancel_order, Book!cancel_order, OrderCall
<1>9. CASE ContinueInvocation
  BY <1>9, MatchLogs DEF ContinueInvocation, Book!finish_order, OrderCall
<1> QED
  BY <1>2, <1>3, <1>4, <1>5, <1>6, <1>7, <1>8, <1>9
     DEF TradingNext, TradeNext, BatchNext, CancelNext

(***************************************************************************)
(* The books stay in order whatever the rest of the contract does.         *)
(***************************************************************************)
LEMMA BookStep ==
    ASSUME BP!BookCore, [TradingNext]_tradingVars
    PROVE  BP!BookCore'
<1>1. CASE OrderCall
  <2>1. ASSUME NEW u \in Users, NEW k \in Pairs, NEW s \in Book!OrderSide, NEW p \in Prices,
               NEW n \in Amounts, NEW tif \in Book!TimeInForce,
               Book!create_limit_order(u, k, s, p, n, tif)
        PROVE  BP!BookCore'
    <3>1. /\ p \in Int /\ n \in Int /\ s \in BP!OrderSide /\ tif \in BP!TimeInForce
          /\ BP!create_limit_order(u, k, s, p, n, tif)
      BY <2>1, TradeInputsAssumption, SameTypes, SameSteps
    <3> QED
      BY <3>1, BookAssumptions, BP!CreateStep
  <2>2. CASE Book!match_limit_order
    BY <2>2, SameSteps, BookAssumptions, BP!MatchStep
  <2>3. CASE Book!finish_order
    BY <2>3, SameSteps, BookAssumptions, BP!FinishStep
  <2>4. ASSUME NEW u \in Users, NEW id \in 1..o_cnt, Book!cancel_order(u, id)
        PROVE  BP!BookCore'
    BY <2>4, SameSteps, BookAssumptions, BP!CancelStep
  <2> QED
    BY <1>1, <2>1, <2>2, <2>3, <2>4 DEF OrderCall
<1>2. CASE NoOrderCall
  <2>1. trades \in Seq(Book!Trade) /\ stats \in [total_trades : Nat, total_volume : Int]
    BY SameTypes DEF BP!BookCore, BP!Typed, BP!BookTypeOK
  <2>2. trades' \in Seq(Book!Trade) /\ stats' \in [total_trades : Nat, total_volume : Int]
    <3>1. ASSUME NEW ts \in Seq(Book!Trade), Logs(ts)
          PROVE  trades' \in Seq(Book!Trade) /\ stats' \in [total_trades : Nat, total_volume : Int]
      <4>1. VolumeOf(ts) \in Int /\ Len(ts) \in Nat /\ trades \o ts \in Seq(Book!Trade)
        BY <2>1, VolumeIs, VolumeConcat
      <4>2. stats.total_trades \in Nat /\ stats.total_volume \in Int
        BY <2>1
      <4> QED
        BY <3>1, <4>1, <4>2 DEF Logs, Book!record_trades
    <3> QED
      BY <2>1, <3>1, BookPart
  <2>3. trades' \in Seq(BP!Trade)
    BY <2>2, SameTypes
  <2> QED
    BY <1>2, <2>2, <2>3, BookAssumptions, BP!ElsewhereStep DEF NoOrderCall
<1> QED
  BY <1>1, <1>2, BookPart

(***************************************************************************)
(* The totals follow the log.                                              *)
(***************************************************************************)
LEMMA TotalsStep ==
    ASSUME BP!BookCore, TotalsFollowLog, [TradingNext]_tradingVars
    PROVE  TotalsFollowLog'
<1>1. trades \in Seq(Book!Trade)
  BY SameTypes DEF BP!BookCore, BP!Typed, BP!BookTypeOK
<1>2. TotalsFollowLog <=> stats.total_trades = Len(trades) /\ stats.total_volume = VolumeOf(trades)
  BY DEF TotalsFollowLog, VolumeOf
<1>3. TotalsFollowLog' <=> stats'.total_trades = Len(trades') /\ stats'.total_volume = VolumeOf(trades')
  BY DEF TotalsFollowLog, VolumeOf
<1>4. ASSUME NEW ts \in Seq(Book!Trade), Logs(ts)
      PROVE  TotalsFollowLog'
  <2>1. Len(trades \o ts) = Len(trades) + Len(ts) /\ VolumeOf(trades \o ts) = VolumeOf(trades) + VolumeOf(ts)
    BY <1>1, VolumeConcat
  <2>2. /\ trades' = trades \o ts /\ stats'.total_trades = stats.total_trades + Len(ts)
        /\ stats'.total_volume = stats.total_volume + VolumeOf(ts)
    BY <1>4 DEF Logs, Book!record_trades
  <2> QED
    BY <1>2, <1>3, <2>1, <2>2
<1>5. CASE UNCHANGED <<trades, stats>>
  BY <1>2, <1>3, <1>5
<1> QED
  BY <1>4, <1>5, BookPart

(***************************************************************************)
(* No call but the ACL's own endpoints and init changes the ACL, and init  *)
(* is the only one that initializes.                                       *)
(***************************************************************************)
LEMMA AclPart ==
    ASSUME [TradingNext]_tradingVars
    PROVE  AclNext \/ UNCHANGED aclVars
<1>1. DeployNext => AclNext
  BY DEF DeployNext, deploy, AclNext
<1>2. AclCall => AclNext
  BY DEF AclCall, AclNext
<1>3. AdminNext \/ TradeNext \/ BatchNext \/ CancelNext \/ ContinueInvocation
        \/ PrivateTrade \/ LedgerTick \/ UNCHANGED tradingVars => UNCHANGED aclVars
  BY DEF AdminNext, set_rate_limit_config, set_premium_user, set_pause_level, unpause,
         pause_function, unpause_function, TradeNext, trade, create_limit_order, BatchNext,
         batch_trade, CancelNext, cancel_order, ContinueInvocation, PrivateTrade, LedgerTick,
         tradingVars
<1> QED
  BY <1>1, <1>2, <1>3 DEF TradingNext

(***************************************************************************)
(* The ACL stays well typed and rooted in whatever else the contract does. *)
(***************************************************************************)
LEMMA AclStep ==
    ASSUME AclTypeOK, AdminRooted, [TradingNext]_tradingVars
    PROVE  AclTypeOK' /\ AdminRooted'
<1>1. CASE AclNext
  BY <1>1, AclTypeStep, AdminRootedStep
<1>2. CASE UNCHANGED aclVars
  BY <1>2 DEF aclVars, AclTypeOK, AdminRooted
<1> QED
  BY <1>1, <1>2, AclPart

-----------------------------------------------------------------------------
(* The circuit breaker *)

(***************************************************************************)
(* What a step is to the breaker: a deployment that starts it afresh, a    *)
(* trade it lets through and counts, an administrator who sets the level,  *)
(* a function that is released, or nothing.                                *)
(***************************************************************************)
LEMMA BreakerPart ==
    ASSUME [TradingNext]_tradingVars
    PROVE  \/ \E c \in CbConfigs : cb_init(c) /\ UNCHANGED touched
           \/ /\ UNCHANGED <<initialized, touched>>
              /\ \E n \in Int : track_activity(n) /\ require_not_paused("trade")
           \/ /\ "pause" \in touched'
              /\ \/ \E l \in PauseLevel : set_level(l)
                 \/ \E f \in PausableFns : pause_fn(f)
           \/ /\ UNCHANGED <<initialized, touched>>
              /\ \E f \in PausableFns : unpause_fn(f)
           \/ UNCHANGED <<initialized, cbVars>> /\ touched \subseteq touched'
<1>1. CASE DeployNext
  BY <1>1 DEF DeployNext, deploy
<1>2. CASE AclCall
  BY <1>2 DEF AclCall, AclEndpoints, create_role, assign_role, assign_permission,
              assign_permissions_batch, set_role_parent
<1>3. CASE AdminNext
  <2>1. ASSUME NEW a \in Users, NEW c \in RateLimits, set_rate_limit_config(a, c)
        PROVE  UNCHANGED <<initialized, cbVars>> /\ touched \subseteq touched'
    BY <2>1 DEF set_rate_limit_config, aclVars
  <2>2. ASSUME NEW a \in Users, NEW u \in Users, NEW b \in BOOLEAN, set_premium_user(a, u, b)
        PROVE  UNCHANGED <<initialized, cbVars>> /\ touched \subseteq touched'
    BY <2>2 DEF set_premium_user, aclVars
  <2>3. ASSUME NEW a \in Users, NEW l \in PauseLevel, set_pause_level(a, l)
        PROVE  "pause" \in touched' /\ set_level(l)
    BY <2>3 DEF set_pause_level
  <2>4. ASSUME NEW a \in Users, unpause(a)
        PROVE  "pause" \in touched' /\ set_level("None")
    BY <2>4 DEF unpause
  <2>5. ASSUME NEW a \in Users, NEW f \in PausableFns, pause_function(a, f)
        PROVE  "pause" \in touched' /\ pause_fn(f)
    BY <2>5 DEF pause_function
  <2>6. ASSUME NEW a \in Users, NEW f \in PausableFns, unpause_function(a, f)
        PROVE  UNCHANGED <<initialized, touched>> /\ unpause_fn(f)
    BY <2>6 DEF unpause_function, aclVars
  <2>7. "None" \in PauseLevel
    BY DEF PauseLevel
  <2> QED
    BY <1>3, <2>1, <2>2, <2>3, <2>4, <2>5, <2>6, <2>7 DEF AdminNext
<1>4. ASSUME NEW u \in Users, NEW k \in Pairs, NEW s \in Book!OrderSide, NEW p \in Prices,
             NEW n \in Amounts, trade(u, k, n, p, s)
      PROVE  /\ UNCHANGED <<initialized, touched>>
             /\ \E m \in Int : track_activity(m) /\ require_not_paused("trade")
  BY <1>4, TradeInputsAssumption DEF trade, ensure_tradeable, aclVars
<1>5. ASSUME NEW u \in Users, NEW k \in Pairs, NEW s \in Book!OrderSide, NEW p \in Prices,
             NEW n \in Amounts, NEW tif \in Book!TimeInForce, create_limit_order(u, k, s, p, n, tif)
      PROVE  UNCHANGED <<initialized, cbVars, touched>>
  BY <1>5 DEF create_limit_order, aclVars
<1>6. BatchNext \/ CancelNext \/ ContinueInvocation \/ PrivateTrade \/ LedgerTick
         \/ UNCHANGED tradingVars => UNCHANGED <<initialized, cbVars, touched>>
  BY DEF BatchNext, batch_trade, CancelNext, cancel_order, ContinueInvocation, PrivateTrade,
         LedgerTick, tradingVars, aclVars
<1> QED
  BY <1>1, <1>2, <1>3, <1>4, <1>5, <1>6 DEF TradingNext, TradeNext

\* Only an administrator sets a partial pause.
BreakerInv ==
    /\ CbTypeOK
    /\ BreakerTrips
    /\ "pause" \notin touched => cb_state.pause_level # "Partial"

(***************************************************************************)
(* What one more transaction does to the counters.                         *)
(***************************************************************************)
LEMMA Activity ==
    ASSUME CbTypeOK, now \in Nat, NEW n \in Int
    PROVE  LET s == WithActivity(cb_state, n) IN
           /\ s \in CircuitBreakerState /\ s.pause_level = cb_state.pause_level
           /\ \/ s.current_period_tx_count = 1
              \/ s.current_period_tx_count = cb_state.current_period_tx_count + 1
<1> DEFINE c == cb_state.current_period_tx_count + 1
           v == cb_state.current_period_volume + n
<1>1. cb_state \in CircuitBreakerState
  BY DEF CbTypeOK
<1>2. c \in Nat /\ v \in Int
  BY <1>1 DEF CircuitBreakerState
<1>3. CASE now >= cb_state.current_period_start + cb_config.period_duration
  <2>1. WithActivity(cb_state, n) = [cb_state EXCEPT !.current_period_start = now,
              !.current_period_volume = n, !.current_period_tx_count = 1]
    BY <1>3 DEF WithActivity
  <2> HIDE DEF c, v
  <2>2. 1 \in Nat
    OBVIOUS
  <2>3. /\ WithActivity(cb_state, n) \in CircuitBreakerState
        /\ WithActivity(cb_state, n).pause_level = cb_state.pause_level
        /\ WithActivity(cb_state, n).current_period_tx_count = 1
    BY <1>1, <2>1, <2>2, ZenonT(30) DEF CircuitBreakerState
  <2> QED
    BY <2>3
<1>4. CASE ~(now >= cb_state.current_period_start + cb_config.period_duration)
  <2>1. WithActivity(cb_state, n) = [cb_state EXCEPT !.current_period_volume = v,
                                                     !.current_period_tx_count = c]
    BY <1>4 DEF WithActivity
  <2> HIDE DEF c, v
  <2>2. /\ WithActivity(cb_state, n) \in CircuitBreakerState
        /\ WithActivity(cb_state, n).pause_level = cb_state.pause_level
        /\ WithActivity(cb_state, n).current_period_tx_count = c
    BY <1>1, <1>2, <2>1 DEF CircuitBreakerState
  <2> QED
    BY <2>2 DEF c
<1> QED
  BY <1>3, <1>4

(***************************************************************************)
(* The breaker's invariant through a trade: the level was not Full when    *)
(* the trade passed, so the thresholds had not been reached.               *)
(***************************************************************************)
LEMMA CountedStep ==
    ASSUME BreakerInv, now \in Nat, NEW n \in Int, track_activity(n), require_not_paused("trade"),
           UNCHANGED <<initialized, touched>>
    PROVE  BreakerInv'
<1> DEFINE s == WithActivity(cb_state, n)
           t == IF OverThreshold(s) /\ s.pause_level = "None"
                THEN [s EXCEPT !.pause_level = "Full", !.last_trigger_timestamp = now]
                ELSE s
<1>1. /\ s \in CircuitBreakerState /\ s.pause_level = cb_state.pause_level
      /\ \/ s.current_period_tx_count = 1
         \/ s.current_period_tx_count = cb_state.current_period_tx_count + 1
  BY Activity DEF BreakerInv
<1>2. cb_state' = t /\ cb_config' = cb_config /\ cb_p_fns' = cb_p_fns
  BY DEF track_activity
<1> HIDE DEF s
<1>3. /\ t \in CircuitBreakerState
      /\ t.current_period_tx_count = s.current_period_tx_count
      /\ t.current_period_volume = s.current_period_volume
      /\ t.pause_level = IF OverThreshold(s) /\ s.pause_level = "None" THEN "Full" ELSE s.pause_level
  BY <1>1 DEF CircuitBreakerState, PauseLevel
<1> HIDE DEF t
<1>4. CbTypeOK'
  BY <1>2, <1>3 DEF BreakerInv, CbTypeOK
<1>5. OverThreshold(cb_state)' <=> OverThreshold(s)
  BY <1>2, <1>3 DEF OverThreshold
<1>6. ASSUME "pause" \notin touched
      PROVE  cb_state'.pause_level # "Partial"
  BY <1>1, <1>2, <1>3, <1>6 DEF BreakerInv
<1>7. ASSUME initialized, "pause" \notin touched, OverThreshold(s)
      PROVE  /\ cb_state'.pause_level = "Full"
             /\ \/ cb_state'.current_period_tx_count <= cb_config.max_tx_count_per_period
                \/ cb_state'.current_period_tx_count = 1
  <2>1. cb_state.pause_level = "None"
    BY <1>7 DEF BreakerInv, CbTypeOK, CircuitBreakerState, PauseLevel, require_not_paused
  <2>2. cb_state.current_period_tx_count \in Nat /\ cb_config.max_tx_count_per_period \in Nat
    BY CbConfigsAssumption DEF BreakerInv, CbTypeOK, CircuitBreakerState
  <2>3. \/ cb_state.current_period_tx_count = 0
        \/ cb_state.current_period_tx_count < cb_config.max_tx_count_per_period
    BY <1>7, <2>1, <2>2 DEF BreakerInv, BreakerTrips, OverThreshold
  <2>4. \/ s.current_period_tx_count = 1
        \/ s.current_period_tx_count <= cb_config.max_tx_count_per_period
    BY <1>1, <2>2, <2>3
  <2>5. cb_state'.current_period_tx_count = s.current_period_tx_count
    BY <1>2, <1>3
  <2>6. cb_state'.pause_level = "Full"
    BY <1>1, <1>2, <1>3, <1>7, <2>1
  <2> QED
    BY <2>4, <2>5, <2>6
<1>8. BreakerTrips'
  BY <1>2, <1>5, <1>7 DEF BreakerTrips
<1> QED
  BY <1>4, <1>6, <1>8 DEF BreakerInv

(***************************************************************************)
(* The breaker's invariant through every step.                             *)
(***************************************************************************)
LEMMA BreakerStep ==
    ASSUME BreakerInv, now \in Nat, [TradingNext]_tradingVars
    PROVE  BreakerInv'
<1> USE DEF BreakerInv, CbTypeOK
<1>1. ASSUME NEW c \in CbConfigs, cb_init(c), UNCHANGED touched
      PROVE  BreakerInv'
  <2>1. /\ FreshState(now) \in CircuitBreakerState
        /\ FreshState(now).current_period_tx_count = 0 /\ FreshState(now).pause_level = "None"
    BY DEF FreshState, CircuitBreakerState, PauseLevel
  <2> QED
    BY <1>1, <2>1 DEF cb_init, BreakerTrips
<1>2. ASSUME NEW l \in PauseLevel, cb_state' = [cb_state EXCEPT !.pause_level = l],
             cb_p_fns' \in SUBSET PausableFns, cb_config' = cb_config, "pause" \in touched'
      PROVE  BreakerInv'
  BY <1>2 DEF CircuitBreakerState, BreakerTrips
<1>3. ASSUME NEW l \in PauseLevel, set_level(l), "pause" \in touched'
      PROVE  BreakerInv'
  BY <1>2, <1>3 DEF set_level
<1>4. ASSUME NEW f \in PausableFns, pause_fn(f), "pause" \in touched'
      PROVE  BreakerInv'
  <2> DEFINE l == IF cb_state.pause_level = "None" THEN "Partial" ELSE cb_state.pause_level
  <2>1. l \in PauseLevel
    BY DEF CircuitBreakerState, PauseLevel
  <2>2. cb_state' = [cb_state EXCEPT !.pause_level = l]
    BY <1>4 DEF pause_fn
  <2>3. cb_p_fns' \in SUBSET PausableFns /\ cb_config' = cb_config
    BY <1>4 DEF pause_fn
  <2> HIDE DEF l
  <2> QED
    BY <1>2, <1>4, <2>1, <2>2, <2>3
<1>5. ASSUME NEW f \in PausableFns, unpause_fn(f), UNCHANGED <<initialized, touched>>
      PROVE  BreakerInv'
  BY <1>5 DEF unpause_fn, BreakerTrips, OverThreshold
<1>6. CASE UNCHANGED <<initialized, cbVars>> /\ touched \subseteq touched'
  BY <1>6 DEF cbVars, BreakerTrips, OverThreshold
<1> QED
  BY <1>1, <1>3, <1>4, <1>5, <1>6, CountedStep, BreakerPart

-----------------------------------------------------------------------------
(* The rate limit *)

\* The window of a call is defined (the window length is never zero) and,
\* while nobody has set other limits, it is the one init stored.
RateTyped ==
    /\ rl_cfg \in RateLimitConfig /\ rl_cfg.window_secs # 0
    /\ prem \in SUBSET Users
    /\ rlu \in [Users \X Windows -> Nat] /\ rlg \in [Windows -> Nat]
    /\ touched \in SUBSET {"pause", "rate"}
    /\ now \in Windows
    /\ "rate" \notin touched => rl_cfg = DefaultRateLimit

\* One order more, or none, and no owner or time of an order changes.
SameOrders ==
    /\ o_cnt' = o_cnt
    /\ \A x \in 1..o_cnt : /\ orders'[x].owner = orders[x].owner
                           /\ orders'[x].timestamp = orders[x].timestamp

OrderOf(u) ==
    /\ o_cnt' = o_cnt + 1
    /\ \A x \in 1..o_cnt : orders'[x] = orders[x]
    /\ orders'[o_cnt + 1].owner = u /\ orders'[o_cnt + 1].timestamp = now

Admitted(u) ==
    /\ check_and_consume_trade_rate_limit(u)
    /\ UNCHANGED <<touched, now>>
    /\ OrderOf(u) \/ SameOrders

NotAdmitted ==
    /\ UNCHANGED <<rlu, rlg>> /\ SameOrders
    /\ prem' \in SUBSET Users /\ now' \in Windows
    /\ touched' \in SUBSET {"pause", "rate"} /\ touched \subseteq touched'
    /\ \/ rl_cfg' = DefaultRateLimit /\ UNCHANGED touched
       \/ /\ rl_cfg' \in RateLimitConfig /\ rl_cfg'.window_secs # 0
          /\ "rate" \in touched'
       \/ UNCHANGED rl_cfg

(***************************************************************************)
(* The stored limits are well typed and the window length is not zero:     *)
(* init stores such limits and set_rate_limit_config refuses others.       *)
(***************************************************************************)
LEMMA LimitsNotZero ==
    /\ DefaultRateLimit \in RateLimitConfig /\ DefaultRateLimit.window_secs # 0
    /\ \A c \in RateLimits : (\A f \in DOMAIN c : c[f] # 0)
                                => c \in RateLimitConfig /\ c.window_secs # 0
<1>1. \A c \in RateLimitConfig : "window_secs" \in DOMAIN c /\ c["window_secs"] = c.window_secs
  BY DEF RateLimitConfig
<1> QED
  BY <1>1, RateLimitsAssumption

(***************************************************************************)
(* A direct trade, a batch and an order pass the rate limit; nothing else  *)
(* touches the counters or places an order.                                *)
(***************************************************************************)
LEMMA RatePart ==
    ASSUME BP!BookCore, RateTyped, [TradingNext]_tradingVars
    PROVE  (\E u \in Users : Admitted(u)) \/ NotAdmitted
<1> USE DEF RateTyped
<1>1. UNCHANGED <<o_cnt, orders>> => SameOrders
  BY DEF SameOrders
<1>2. ASSUME NEW u \in Users, NEW k \in Pairs, NEW s \in Book!OrderSide, NEW p \in Prices,
             NEW n \in Amounts, trade(u, k, n, p, s)
      PROVE  Admitted(u)
  BY <1>1, <1>2 DEF trade, ensure_tradeable, Admitted
<1>3. ASSUME NEW u \in Users, NEW b \in Batches, batch_trade(u, b)
      PROVE  Admitted(u)
  BY <1>1, <1>3 DEF batch_trade, ensure_tradeable, Admitted
<1>4. ASSUME NEW u \in Users, NEW k \in Pairs, NEW s \in Book!OrderSide, NEW p \in Prices,
             NEW n \in Amounts, NEW tif \in Book!TimeInForce, create_limit_order(u, k, s, p, n, tif)
      PROVE  Admitted(u)
  <2> DEFINE o == Book!NewOrder(u, k, s, p, n, tif)
  <2>1. o.owner = u /\ o.timestamp = now
    BY DEF Book!NewOrder
  <2>2. o_cnt \in Nat
    BY DEF BP!BookCore, BP!Typed, BP!BookTypeOK
  <2>3. /\ o_cnt' = o_cnt + 1 /\ now' = now
        /\ orders' = [i \in 1..(o_cnt + 1) |-> IF i \in 1..o_cnt THEN orders[i] ELSE o]
    BY <1>4 DEF create_limit_order, Book!create_limit_order
  <2> HIDE DEF o
  <2>4. OrderOf(u)
    BY <2>1, <2>2, <2>3 DEF OrderOf
  <2>5. check_and_consume_trade_rate_limit(u) /\ UNCHANGED touched
    BY <1>4 DEF create_limit_order, ensure_tradeable
  <2> QED
    BY <2>3, <2>4, <2>5 DEF Admitted
<1>5. CASE DeployNext
  BY <1>1, <1>5 DEF DeployNext, deploy, bookVars, NotAdmitted
<1>6. CASE AdminNext
  <2>1. ASSUME NEW a \in Users, NEW c \in RateLimits, set_rate_limit_config(a, c)
        PROVE  NotAdmitted
    BY <1>1, <2>1, LimitsNotZero DEF set_rate_limit_config, bookVars, NotAdmitted
  <2>2. ASSUME NEW a \in Users, NEW u \in Users, NEW b \in BOOLEAN, set_premium_user(a, u, b)
        PROVE  NotAdmitted
    BY <1>1, <2>2 DEF set_premium_user, bookVars, NotAdmitted
  <2>3. ASSUME NEW a \in Users,
               \/ \E l \in PauseLevel : set_pause_level(a, l)
               \/ unpause(a)
               \/ \E f \in PausableFns : pause_function(a, f) \/ unpause_function(a, f)
        PROVE  NotAdmitted
    BY <1>1, <2>3 DEF set_pause_level, unpause, pause_function, unpause_function, bookVars,
                      rateVars, NotAdmitted
  <2> QED
    BY <1>6, <2>1, <2>2, <2>3 DEF AdminNext
<1>7. CASE AclCall \/ PrivateTrade \/ UNCHANGED tradingVars
  BY <1>1, <1>7 DEF AclCall, PrivateTrade, tradingVars, bookVars, rateVars, NotAdmitted
<1>8. CASE CancelNext \/ ContinueInvocation
  <2>1. UNCHANGED <<rateVars, touched, now>>
    BY <1>8 DEF CancelNext, cancel_order, ContinueInvocation, Book!cancel_order,
                Book!match_limit_order, Book!finish_order
  <2>2. \/ BP!match_limit_order \/ BP!finish_order
        \/ \E u \in Users, id \in 1..o_cnt : BP!cancel_order(u, id)
    BY <1>8, SameSteps DEF CancelNext, cancel_order, ContinueInvocation
  <2>3. SameOrders
    BY <2>2, BookAssumptions, BP!OwnersStay DEF SameOrders
  <2> QED
    BY <2>1, <2>3 DEF rateVars, NotAdmitted
<1>9. CASE LedgerTick
  <2>1. now' \in Windows
    BY <1>9, MaxTimeAssumption DEF LedgerTick, LedgerCloses, Windows
  <2> QED
    BY <1>1, <1>9, <2>1 DEF LedgerTick, bookVars, rateVars, NotAdmitted
<1> QED
  BY <1>2, <1>3, <1>4, <1>5, <1>6, <1>7, <1>8, <1>9 DEF TradingNext, TradeNext, BatchNext

(***************************************************************************)
(* The window of a time is one of those counted.                           *)
(***************************************************************************)
LEMMA WindowOf ==
    ASSUME NEW t \in Windows, NEW s \in Nat, s # 0
    PROVE  t \div s \in Windows
<1> DEFINE q == t \div s
<1>1. MaxTime \in Nat /\ t \in Nat /\ t <= MaxTime /\ s > 0
  BY MaxTimeAssumption DEF Windows
<1>2. q \in Int /\ s * q <= t /\ t < s * q + s
  BY <1>1
<1>3. q >= 0
  BY <1>1, <1>2
<1>4. s * q >= q
  BY <1>1, <1>2, <1>3
<1> HIDE DEF q
<1>5. q \in 0..MaxTime
  BY <1>1, <1>2, <1>3, <1>4
<1> QED
  BY <1>5 DEF q, Windows

(***************************************************************************)
(* An admitted call was below both limits of its window and counts one     *)
(* there, for its caller and for everybody.                                *)
(***************************************************************************)
LEMMA AdmittedIs ==
    ASSUME RateTyped, NEW u \in Users, Admitted(u)
    PROVE  \E w \in Windows :
             /\ w = now \div rl_cfg.window_secs
             /\ rlu[u, w] < UserLimit(u) /\ rlg[w] < rl_cfg.global_limit
             /\ rlu' \in [Users \X Windows -> Nat] /\ rlg' \in [Windows -> Nat]
             /\ \A v \in Users, x \in Windows :
                  rlu'[v, x] = IF v = u /\ x = w THEN rlu[v, x] + 1 ELSE rlu[v, x]
             /\ \A x \in Windows : rlg'[x] = IF x = w THEN rlg[x] + 1 ELSE rlg[x]
<1> DEFINE w == now \div rl_cfg.window_secs
<1>1. rl_cfg.window_secs \in Nat /\ rl_cfg.window_secs # 0 /\ now \in Windows
  BY DEF RateTyped, RateLimitConfig
<1>2. w \in Windows
  BY <1>1, WindowOf
<1>3. /\ rlu[u, w] < UserLimit(u) /\ rlg[w] < rl_cfg.global_limit
      /\ rlu' = [rlu EXCEPT ![<<u, w>>] = @ + 1]
      /\ rlg' = [rlg EXCEPT ![w] = @ + 1]
  BY DEF Admitted, check_and_consume_trade_rate_limit
<1> HIDE DEF w
<1>4. rlu \in [Users \X Windows -> Nat] /\ rlg \in [Windows -> Nat] /\ <<u, w>> \in Users \X Windows
  BY <1>2 DEF RateTyped
<1>5. rlu' \in [Users \X Windows -> Nat] /\ rlg' \in [Windows -> Nat]
  <2>1. rlu[<<u, w>>] + 1 \in Nat /\ rlg[w] + 1 \in Nat
    BY <1>2, <1>4
  <2>2. rlu' \in [Users \X Windows -> Nat]
    BY <1>3, <1>4, <2>1, Zenon
  <2>3. rlg' \in [Windows -> Nat]
    BY <1>2, <1>3, <1>4, <2>1, Zenon
  <2> QED
    BY <2>2, <2>3
<1>6. \A v \in Users, x \in Windows :
         rlu'[v, x] = IF v = u /\ x = w THEN rlu[v, x] + 1 ELSE rlu[v, x]
  BY <1>3, <1>4
<1>7. \A x \in Windows : rlg'[x] = IF x = w THEN rlg[x] + 1 ELSE rlg[x]
  BY <1>3, <1>4
<1> QED
  BY <1>2, <1>3, <1>5, <1>6, <1>7 DEF w

(***************************************************************************)
(* The limits and the counters stay well typed.                            *)
(***************************************************************************)
LEMMA RateTypeStep ==
    ASSUME BP!BookCore, RateTyped, [TradingNext]_tradingVars
    PROVE  RateTyped'
<1>1. ASSUME NEW u \in Users, Admitted(u)
      PROVE  RateTyped'
  <2>1. rlu' \in [Users \X Windows -> Nat] /\ rlg' \in [Windows -> Nat]
    BY <1>1, AdmittedIs
  <2>2. UNCHANGED <<rl_cfg, prem, touched, now>>
    BY <1>1 DEF Admitted, check_and_consume_trade_rate_limit
  <2> QED
    BY <2>1, <2>2 DEF RateTyped
<1>2. CASE NotAdmitted
  BY <1>2, LimitsNotZero DEF NotAdmitted, RateTyped
<1> QED
  BY <1>1, <1>2, RatePart

CountersAgree ==
    \A w \in Windows : rlg[w] = Total([u \in Users |-> rlu[u, w]], Users)

(***************************************************************************)
(* In every window the global count stays the sum of the users' counts.    *)
(***************************************************************************)
LEMMA CountersStep ==
    ASSUME BP!BookCore, RateTyped, CountersAgree, [TradingNext]_tradingVars
    PROVE  CountersAgree'
<1>1. ASSUME NEW u \in Users, Admitted(u)
      PROVE  CountersAgree'
  <2>1. PICK w \in Windows :
             /\ rlu' \in [Users \X Windows -> Nat]
             /\ \A v \in Users, x \in Windows :
                  rlu'[v, x] = IF v = u /\ x = w THEN rlu[v, x] + 1 ELSE rlu[v, x]
             /\ \A x \in Windows : rlg'[x] = IF x = w THEN rlg[x] + 1 ELSE rlg[x]
    BY <1>1, AdmittedIs
  <2>2. SUFFICES ASSUME NEW x \in Windows
                 PROVE  rlg'[x] = Total([v \in Users |-> rlu'[v, x]], Users)
    BY DEF CountersAgree
  <2> DEFINE f == [v \in Users |-> rlu[v, x]]
             e == [v \in Users |-> rlu'[v, x]]
  <2>3. rlg[x] = Total(f, Users) /\ IsFiniteSet(Users)
    BY UsersAssumption DEF CountersAgree
  <2>4. \A v \in Users : rlu[v, x] \in Nat /\ rlu'[v, x] \in Nat
    BY <2>1 DEF RateTyped
  <2>5. \A v \in Users : f[v] = rlu[v, x] /\ e[v] = rlu'[v, x] /\ f[v] \in Int /\ e[v] \in Int
    <3>1. \A v \in Users : f[v] = rlu[v, x] /\ e[v] = rlu'[v, x]
      OBVIOUS
    <3>2. \A n \in Nat : n \in Int
      OBVIOUS
    <3> HIDE DEF f, e
    <3> QED
      BY <2>4, <3>1, <3>2, Zenon
  <2>6. CASE x = w
    <3>1. \A v \in Users \ {u} : f[v] = e[v]
      BY <2>1, <2>5
    <3>2. e[u] = f[u] + 1 /\ rlg'[x] = rlg[x] + 1
      BY <2>1, <2>5, <2>6
    <3>3. f[u] \in Int
      BY <2>5
    <3> HIDE DEF f, e
    <3>4. Total(e, Users) = Total(f, Users) + (e[u] - f[u])
      <4>1. \A v \in Users : f[v] \in Int /\ e[v] \in Int
        BY <2>5
      <4>2. IsFiniteSet(Users)
        BY <2>3
      <4> QED
        BY <3>1, <4>1, <4>2, TotalChange
    <3>5. e[u] - f[u] = 1
      BY <3>2, <3>3
    <3>6. rlg'[x] = Total(e, Users)
      BY <2>3, <3>2, <3>4, <3>5
    <3> QED
      BY <3>6 DEF e
  <2>7. CASE x # w
    <3>1. rlg'[x] = rlg[x] /\ \A v \in Users : f[v] = e[v]
      BY <2>1, <2>5, <2>7
    <3> HIDE DEF f, e
    <3>2. Total(f, Users) = Total(e, Users)
      BY <2>3, <3>1, TotalExt
    <3>3. rlg'[x] = Total(e, Users)
      BY <2>3, <3>1, <3>2
    <3> QED
      BY <3>3 DEF e
  <2> QED
    BY <2>6, <2>7
<1>2. CASE NotAdmitted
  BY <1>2 DEF NotAdmitted, CountersAgree
<1> QED
  BY <1>1, <1>2, RatePart

(***************************************************************************)
(* The orders of a user in a window are finitely many, and one order more  *)
(* adds at most one.                                                       *)
(***************************************************************************)
LEMMA PlacedIs ==
    ASSUME BP!BookCore, NEW u, NEW w
    PROVE  /\ IsFiniteSet(PlacedIn(u, w)) /\ Cardinality(PlacedIn(u, w)) \in Nat
           /\ o_cnt + 1 \notin PlacedIn(u, w)
<1>1. o_cnt \in Nat
  BY DEF BP!BookCore, BP!Typed, BP!BookTypeOK
<1>2. IsFiniteSet(1..o_cnt)
  BY <1>1, FS_Interval
<1>3. PlacedIn(u, w) \subseteq 1..o_cnt
  BY DEF PlacedIn
<1>4. IsFiniteSet(PlacedIn(u, w))
  BY <1>2, <1>3, FS_Subset
<1>5. o_cnt + 1 \notin 1..o_cnt
  BY <1>1
<1> QED
  BY <1>3, <1>4, <1>5, FS_CardinalityType

\* One order more adds at most one to the calls of its owner's window.
LEMMA PlacedStep ==
    ASSUME BP!BookCore, rl_cfg' = rl_cfg, NEW v, NEW w
    PROVE  /\ SameOrders => PlacedIn(v, w)' = PlacedIn(v, w)
           /\ \A u : OrderOf(u) =>
                IF v = u /\ w = now \div rl_cfg.window_secs
                THEN Cardinality(PlacedIn(v, w)') = Cardinality(PlacedIn(v, w)) + 1
                ELSE PlacedIn(v, w)' = PlacedIn(v, w)
<1>1. SameOrders => PlacedIn(v, w)' = PlacedIn(v, w)
  BY DEF SameOrders, PlacedIn
<1>2. ASSUME NEW u, OrderOf(u)
      PROVE  IF v = u /\ w = now \div rl_cfg.window_secs
             THEN Cardinality(PlacedIn(v, w)') = Cardinality(PlacedIn(v, w)) + 1
             ELSE PlacedIn(v, w)' = PlacedIn(v, w)
  <2>0. o_cnt \in Nat
    BY DEF BP!BookCore, BP!Typed, BP!BookTypeOK
  <2>1. 1..(o_cnt + 1) = (1..o_cnt) \cup {o_cnt + 1} /\ o_cnt + 1 \notin 1..o_cnt
    BY <2>0
  <2>2. o_cnt' = o_cnt + 1 /\ orders'[o_cnt + 1].owner = u /\ orders'[o_cnt + 1].timestamp = now
        /\ \A x \in 1..o_cnt : orders'[x] = orders[x]
    BY <1>2 DEF OrderOf
  <2>3. CASE v = u /\ w = now \div rl_cfg.window_secs
    <3>1. PlacedIn(v, w)' = PlacedIn(v, w) \cup {o_cnt + 1}
      BY <2>1, <2>2, <2>3 DEF PlacedIn
    <3> QED
      BY <2>3, <3>1, PlacedIs, FS_AddElement
  <2>4. CASE ~(v = u /\ w = now \div rl_cfg.window_secs)
    <3>1. PlacedIn(v, w)' = PlacedIn(v, w)
      BY <2>1, <2>2, <2>4 DEF PlacedIn
    <3> QED
      BY <2>4, <3>1
  <2> QED
    BY <2>3, <2>4
<1> QED
  BY <1>1, <1>2

(***************************************************************************)
(* The limits hold through every step.                                     *)
(***************************************************************************)
LEMMA RateStep ==
    ASSUME BP!BookCore, RateTyped, CallsWithinRate, [TradingNext]_tradingVars
    PROVE  CallsWithinRate'
<1> SUFFICES ASSUME "rate" \notin touched', NEW v \in Users, NEW x \in Windows
             PROVE  /\ Cardinality(PlacedIn(v, x)') <= rlu'[v, x]
                    /\ \/ rlu'[v, x] <= rl_cfg'.user_limit
                       \/ rlu'[v, x] <= rl_cfg'.premium_user_limit
                    /\ rlg'[x] <= rl_cfg'.global_limit
  BY DEF CallsWithinRate
<1>1. rl_cfg' = rl_cfg /\ "rate" \notin touched
  <2>1. CASE NotAdmitted
    BY <2>1 DEF NotAdmitted, RateTyped
  <2>2. ASSUME NEW u \in Users, Admitted(u)
        PROVE  rl_cfg' = rl_cfg /\ "rate" \notin touched
    BY <2>2 DEF Admitted, check_and_consume_trade_rate_limit
  <2> QED
    BY <2>1, <2>2, RatePart
<1>2. /\ Cardinality(PlacedIn(v, x)) <= rlu[v, x] /\ Cardinality(PlacedIn(v, x)) \in Nat
      /\ rlu[v, x] <= rl_cfg.user_limit \/ rlu[v, x] <= rl_cfg.premium_user_limit
      /\ rlg[x] <= rl_cfg.global_limit
  BY <1>1, PlacedIs DEF CallsWithinRate
<1>3. /\ rlu[v, x] \in Nat /\ rlg[x] \in Nat /\ rl_cfg.user_limit \in Nat
      /\ rl_cfg.premium_user_limit \in Nat /\ rl_cfg.global_limit \in Nat
  BY DEF RateTyped, RateLimitConfig
<1>a. /\ \A a, b \in Nat : a < b => a + 1 <= b
      /\ \A a, b \in Nat : a <= b => a <= b + 1 /\ a + 1 <= b + 1
  OBVIOUS
<1>4. CASE NotAdmitted
  BY <1>1, <1>2, <1>4, PlacedStep DEF NotAdmitted
<1>5. ASSUME NEW u \in Users, Admitted(u)
      PROVE  /\ Cardinality(PlacedIn(v, x)') <= rlu'[v, x]
             /\ \/ rlu'[v, x] <= rl_cfg'.user_limit
                \/ rlu'[v, x] <= rl_cfg'.premium_user_limit
             /\ rlg'[x] <= rl_cfg'.global_limit
  <2>1. PICK w \in Windows :
             /\ w = now \div rl_cfg.window_secs
             /\ rlu[u, w] < UserLimit(u) /\ rlg[w] < rl_cfg.global_limit
             /\ \A y \in Users, z \in Windows :
                  rlu'[y, z] = IF y = u /\ z = w THEN rlu[y, z] + 1 ELSE rlu[y, z]
             /\ \A z \in Windows : rlg'[z] = IF z = w THEN rlg[z] + 1 ELSE rlg[z]
    BY <1>5, AdmittedIs
  <2>2. rlg'[x] <= rl_cfg.global_limit
    <3>1. CASE x = w
      BY <1>3, <1>a, <2>1, <3>1, Zenon
    <3>2. CASE x # w
      BY <1>2, <2>1, <3>2
    <3> QED
      BY <3>1, <3>2
  <2>3. OrderOf(u) \/ SameOrders
    BY <1>5 DEF Admitted
  <2>4. CASE v = u /\ x = w
    <3>1. rlu'[v, x] = rlu[v, x] + 1
      BY <2>1, <2>4
    <3>2. rlu[v, x] < rl_cfg.user_limit \/ rlu[v, x] < rl_cfg.premium_user_limit
      BY <2>1, <2>4 DEF UserLimit
    <3>3. Cardinality(PlacedIn(v, x)') \in {Cardinality(PlacedIn(v, x)),
                                            Cardinality(PlacedIn(v, x)) + 1}
      BY <1>1, <2>1, <2>3, <2>4, PlacedStep
    <3>4. Cardinality(PlacedIn(v, x)') <= rlu[v, x] + 1
      BY <1>2, <1>3, <1>a, <3>3, Zenon
    <3>5. rlu[v, x] + 1 <= rl_cfg.user_limit \/ rlu[v, x] + 1 <= rl_cfg.premium_user_limit
      BY <1>3, <1>a, <3>2, Zenon
    <3> QED
      BY <1>1, <2>2, <3>1, <3>4, <3>5
  <2>5. CASE ~(v = u /\ x = w)
    <3>1. rlu'[v, x] = rlu[v, x]
      BY <2>1, <2>5
    <3>2. PlacedIn(v, x)' = PlacedIn(v, x)
      BY <1>1, <2>1, <2>3, <2>5, PlacedStep
    <3> QED
      BY <1>1, <1>2, <2>2, <3>1, <3>2
  <2> QED
    BY <2>4, <2>5
<1> QED
  BY <1>4, <1>5, RatePart

-----------------------------------------------------------------------------
(* Private trades *)

(***************************************************************************)
(* The endpoints of the private trades are the only ones that write their  *)
(* records.                                                                *)
(***************************************************************************)
LEMMA PrivPart ==
    ASSUME [TradingNext]_tradingVars
    PROVE  PrivNext \/ UNCHANGED privVars
BY DEF TradingNext, PrivateTrade, DeployNext, deploy, AclCall, AdminNext, set_rate_limit_config,
       set_premium_user, set_pause_level, unpause, pause_function, unpause_function, TradeNext,
       trade, create_limit_order, BatchNext, batch_trade, CancelNext, cancel_order,
       ContinueInvocation, LedgerTick, tradingVars

Proofs == [proof_hash : Hashes \cup {NoHash}, nonce : Nat, expires_at : Nat]
Balances == [commitment : Hashes \cup {NoHash}, nonce : Nat]
PrivateTrades ==
    [trader : Users, balance_commitment : Hashes, solvency_proof_hash : Hashes, timestamp : Nat]
Audits == [trade_id : Nat, auditor : Users, trader : Users]

Mine(u) == {i \in DOMAIN prv_trd : prv_trd[i].trader = u}

Follows(u) ==
    /\ Cardinality(Mine(u)) <= prv_bal[u].nonce
    /\ (Mine(u) # {} /\ prv_bal[u].nonce = Cardinality(Mine(u)))
          => \E i \in Mine(u) :
               /\ \A j \in Mine(u) : j <= i
               /\ prv_bal[u].commitment = prv_trd[i].balance_commitment

(***************************************************************************)
(* Writing a balance commitment counts its nonce up.                       *)
(***************************************************************************)
LEMMA BalanceWritten ==
    ASSUME PrivTypeOK, NEW u \in Users, NEW c \in Hashes, NextBalance(u, c)
    PROVE  /\ prv_bal' \in [Users -> Balances]
           /\ prv_bal'[u].nonce = prv_bal[u].nonce + 1 /\ prv_bal'[u].commitment = c
           /\ prv_bal[u].nonce \in Nat
           /\ \A v \in Users : v # u => prv_bal'[v] = prv_bal[v]
<1> DEFINE n == prv_bal[u].nonce + 1
           r == [commitment |-> c, nonce |-> n]
<1>1. prv_bal \in [Users -> Balances]
  BY DEF PrivTypeOK, Balances
<1>2. prv_bal[u].nonce \in Nat /\ n \in Nat
  BY <1>1 DEF Balances
<1>3. prv_bal' = [prv_bal EXCEPT ![u] = r]
  BY DEF NextBalance
<1> HIDE DEF n
<1>4. r \in Balances /\ r.nonce = n /\ r.commitment = c
  BY <1>2 DEF Balances
<1> HIDE DEF r
<1>5. /\ prv_bal' \in [Users -> Balances] /\ prv_bal'[u] = r
      /\ \A v \in Users : v # u => prv_bal'[v] = prv_bal[v]
  BY <1>1, <1>3, <1>4
<1> QED
  BY <1>2, <1>4, <1>5 DEF n

(***************************************************************************)
(* The positions of a trader's private trades are finitely many.           *)
(***************************************************************************)
LEMMA MineIs ==
    ASSUME PrivTypeOK, NEW u
    PROVE  /\ IsFiniteSet(Mine(u)) /\ Cardinality(Mine(u)) \in Nat
           /\ Len(prv_trd) \in Nat /\ Mine(u) \subseteq 1..Len(prv_trd)
<1>1. prv_trd \in Seq(PrivateTrades)
  BY DEF PrivTypeOK, PrivateTrades
<1>2. Len(prv_trd) \in Nat /\ DOMAIN prv_trd = 1..Len(prv_trd)
  BY <1>1
<1>3. IsFiniteSet(1..Len(prv_trd))
  BY <1>2, FS_Interval
<1>4. Mine(u) \subseteq 1..Len(prv_trd)
  BY <1>2 DEF Mine
<1> QED
  BY <1>2, <1>3, <1>4, FS_Subset, FS_CardinalityType

(***************************************************************************)
(* The records of the private trades stay well typed, and a balance        *)
(* commitment keeps up with the trades that wrote it.                      *)
(***************************************************************************)
LEMMA UpdateStep ==
    ASSUME PrivTypeOK, \A v \in Users : Follows(v), NEW u \in Users, NEW c \in Hashes,
           NextBalance(u, c), UNCHANGED prv_trd
    PROVE  \A v \in Users : Follows(v)'
<1> SUFFICES ASSUME NEW v \in Users PROVE Follows(v)'
  OBVIOUS
<1>1. Mine(v)' = Mine(v)
  BY DEF Mine
<1>2. CASE v # u
  BY <1>1, <1>2, BalanceWritten DEF Follows
<1>3. CASE v = u
  <2>1. Cardinality(Mine(u)) <= prv_bal[u].nonce
    BY DEF Follows
  <2>2. Cardinality(Mine(u)) \in Nat /\ prv_bal[u].nonce \in Nat
        /\ prv_bal'[u].nonce = prv_bal[u].nonce + 1
    BY MineIs, BalanceWritten
  <2>3. Cardinality(Mine(u)) <= prv_bal'[u].nonce /\ prv_bal'[u].nonce # Cardinality(Mine(u))
    BY <2>1, <2>2
  <2> QED
    BY <1>1, <1>3, <2>3 DEF Follows
<1> QED
  BY <1>2, <1>3

(***************************************************************************)
(* A private trade is its trader's newest, and its commitment is the one   *)
(* stored (execute_private_trade).                                         *)
(***************************************************************************)
LEMMA ExecuteStep ==
    ASSUME PrivTypeOK, now \in Nat, \A v \in Users : Follows(v), NEW u \in Users, NEW p,
           NEW c \in Hashes, NEW h \in Hashes, execute_private_trade(u, p, c, h)
    PROVE  prv_trd' \in Seq(PrivateTrades) /\ \A v \in Users : Follows(v)'
<1> DEFINE r == [trader |-> u, balance_commitment |-> c, solvency_proof_hash |-> h, timestamp |-> now]
           l == Len(prv_trd)
<1>1. prv_trd \in Seq(PrivateTrades) /\ l \in Nat
  BY DEF PrivTypeOK, PrivateTrades
<1>2. prv_trd' = Append(prv_trd, r) /\ NextBalance(u, c)
  BY DEF execute_private_trade
<1>3. r \in PrivateTrades /\ r.trader = u /\ r.balance_commitment = c
  BY DEF PrivateTrades
<1> HIDE DEF r
<1>4. prv_trd' \in Seq(PrivateTrades) /\ Len(prv_trd') = l + 1
  BY <1>1, <1>2, <1>3
<1>5. prv_trd'[l + 1] = r /\ \A i \in 1..l : prv_trd'[i] = prv_trd[i]
  BY <1>1, <1>2
<1>6. /\ DOMAIN prv_trd = 1..l /\ DOMAIN prv_trd' = 1..(l + 1)
      /\ 1..(l + 1) = (1..l) \cup {l + 1} /\ l + 1 \notin 1..l
  BY <1>1, <1>4
<1> HIDE DEF l
<1>7. Mine(u)' = Mine(u) \cup {l + 1} /\ \A v \in Users : v # u => Mine(v)' = Mine(v)
  BY <1>3, <1>5, <1>6 DEF Mine
<1>8. ASSUME NEW v \in Users PROVE Follows(v)'
  <2>1. CASE v # u
    <3>1. Mine(v)' = Mine(v) /\ prv_bal'[v] = prv_bal[v] /\ Mine(v) \subseteq 1..l
      BY <1>2, <1>7, <2>1, BalanceWritten, MineIs DEF l
    <3> QED
      BY <1>5, <3>1 DEF Follows
  <2>2. CASE v = u
    <3>1. Cardinality(Mine(u)) <= prv_bal[u].nonce
      BY DEF Follows
    <3>2. /\ Cardinality(Mine(u)) \in Nat /\ IsFiniteSet(Mine(u)) /\ prv_bal[u].nonce \in Nat
          /\ prv_bal'[u].nonce = prv_bal[u].nonce + 1 /\ prv_bal'[u].commitment = c
          /\ Mine(u) \subseteq 1..l
      BY <1>2, MineIs, BalanceWritten DEF l
    <3>3. l + 1 \notin Mine(u)
      BY <1>6, <3>2
    <3>4. Cardinality(Mine(u) \cup {l + 1}) = Cardinality(Mine(u)) + 1
      BY <3>2, <3>3, FS_AddElement
    <3>5. Cardinality(Mine(u) \cup {l + 1}) <= prv_bal'[u].nonce
      BY <3>1, <3>2, <3>4
    <3>6. \A j \in Mine(u) \cup {l + 1} : j <= l + 1
      BY <1>1, <3>2
    <3>7. prv_bal'[u].commitment = prv_trd'[l + 1].balance_commitment
      BY <1>3, <1>5, <3>2
    <3> QED
      BY <1>7, <2>2, <3>5, <3>6, <3>7 DEF Follows
  <2> QED
    BY <2>1, <2>2
<1> QED
  BY <1>4, <1>8

(***************************************************************************)
(* The private trades through every step.                                  *)
(***************************************************************************)
LEMMA PrivStep ==
    ASSUME PrivTypeOK, BalanceFollowsTrades, now \in Nat, [TradingNext]_tradingVars
    PROVE  PrivTypeOK' /\ BalanceFollowsTrades'
<1>1. PrivTypeOK <=> /\ solv_prf \in [Users -> Proofs] /\ prv_bal \in [Users -> Balances]
                     /\ prv_trd \in Seq(PrivateTrades) /\ cmp_key \in [Users -> Nat]
                     /\ prv_aud \in Seq(Audits)
  BY DEF PrivTypeOK, Proofs, Balances, PrivateTrades, Audits
<1>2. PrivTypeOK' <=> /\ solv_prf' \in [Users -> Proofs] /\ prv_bal' \in [Users -> Balances]
                      /\ prv_trd' \in Seq(PrivateTrades) /\ cmp_key' \in [Users -> Nat]
                      /\ prv_aud' \in Seq(Audits)
  BY DEF PrivTypeOK, Proofs, Balances, PrivateTrades, Audits
<1>3. (\A v \in Users : Follows(v)) /\ (BalanceFollowsTrades' <=> \A v \in Users : Follows(v)')
  BY DEF BalanceFollowsTrades, Follows, Mine
<1>4. UNCHANGED <<prv_bal, prv_trd>> => BalanceFollowsTrades'
  BY DEF BalanceFollowsTrades
<1>5. ASSUME NEW u \in Users, NEW h \in Hashes, submit_solvency_proof(u, h)
      PROVE  PrivTypeOK' /\ BalanceFollowsTrades'
  <2> DEFINE n == solv_prf[u].nonce + 1
             e == now + ProofTtl
             r == [proof_hash |-> h, nonce |-> n, expires_at |-> e]
  <2>1. n \in Nat /\ e \in Nat
    BY <1>1, ProofTtlAssumption DEF Proofs
  <2>2. solv_prf' = [solv_prf EXCEPT ![u] = r] /\ UNCHANGED <<prv_bal, prv_trd, cmp_key, prv_aud>>
    BY <1>5 DEF submit_solvency_proof
  <2> HIDE DEF n, e
  <2>3. r \in Proofs
    BY <2>1 DEF Proofs
  <2> HIDE DEF r
  <2>4. solv_prf' \in [Users -> Proofs]
    BY <1>1, <2>2, <2>3
  <2> QED
    BY <1>1, <1>2, <1>4, <2>2, <2>4
<1>6. ASSUME NEW u \in Users, NEW c \in Hashes, update_private_balance(u, c)
      PROVE  PrivTypeOK' /\ BalanceFollowsTrades'
  <2>1. NextBalance(u, c) /\ UNCHANGED <<solv_prf, prv_trd, cmp_key, prv_aud>>
    BY <1>6 DEF update_private_balance
  <2>2. prv_bal' \in [Users -> Balances]
    BY <2>1, BalanceWritten
  <2> QED
    BY <1>1, <1>2, <1>3, <2>1, <2>2, UpdateStep
<1>7. ASSUME NEW u \in Users, NEW h \in Hashes, NEW p, NEW c \in Hashes,
             execute_private_trade(u, p, c, h)
      PROVE  PrivTypeOK' /\ BalanceFollowsTrades'
  <2>1. NextBalance(u, c) /\ UNCHANGED <<solv_prf, cmp_key, prv_aud>>
    BY <1>7 DEF execute_private_trade
  <2>2. prv_bal' \in [Users -> Balances]
    BY <2>1, BalanceWritten
  <2>3. prv_trd' \in Seq(PrivateTrades) /\ \A v \in Users : Follows(v)'
    BY <1>3, <1>7, ExecuteStep
  <2> QED
    BY <1>1, <1>2, <1>3, <2>1, <2>2, <2>3
<1>8. ASSUME NEW u \in Users, register_compliance_view_key(u)
      PROVE  PrivTypeOK' /\ BalanceFollowsTrades'
  <2>1. cmp_key' = [cmp_key EXCEPT ![u] = @ + 1] /\ UNCHANGED <<solv_prf, prv_bal, prv_trd, prv_aud>>
    BY <1>8 DEF register_compliance_view_key
  <2>2. cmp_key' \in [Users -> Nat]
    BY <1>1, <2>1
  <2> QED
    BY <1>1, <1>2, <1>4, <2>1, <2>2
<1>9. ASSUME NEW u \in Users, NEW id \in DOMAIN prv_trd, audit_private_trade(u, id)
      PROVE  PrivTypeOK' /\ BalanceFollowsTrades'
  <2> DEFINE r == [trade_id |-> id, auditor |-> u, trader |-> prv_trd[id].trader]
  <2>1. prv_aud' = Append(prv_aud, r) /\ UNCHANGED <<solv_prf, prv_bal, prv_trd, cmp_key>>
    BY <1>9 DEF audit_private_trade
  <2>2. id \in Nat /\ prv_trd[id] \in PrivateTrades
    BY <1>1
  <2>3. prv_trd[id].trader \in Users
    BY <2>2 DEF PrivateTrades
  <2>4. r \in Audits
    BY <2>2, <2>3 DEF Audits
  <2> HIDE DEF r
  <2>5. prv_aud' \in Seq(Audits)
    BY <1>1, <2>1, <2>4
  <2> QED
    BY <1>1, <1>2, <1>4, <2>1, <2>5
<1>10. CASE UNCHANGED privVars
  BY <1>1, <1>2, <1>4, <1>10 DEF privVars
<1> QED
  BY <1>5, <1>6, <1>7, <1>8, <1>9, <1>10, PrivPart DEF PrivNext

-----------------------------------------------------------------------------
(***************************************************************************)
(* The inductive invariant of the contract.  Its parts meet in few places: *)
(* the books need the log to be well typed; the orders of a user in a      *)
(* window need the books; and every part needs the time.                   *)
(***************************************************************************)
TradingInv ==
    /\ AclTypeOK /\ AdminRooted
    /\ BreakerInv
    /\ BP!BookCore /\ TotalsFollowLog
    /\ RateTyped /\ CountersAgree /\ CallsWithinRate
    /\ PrivTypeOK /\ BalanceFollowsTrades

(***************************************************************************)
(* The books of a contract that is not deployed yet are empty.             *)
(***************************************************************************)
LEMMA EmptyBooks ==
    ASSUME TradingInit
    PROVE  BP!BookCore /\ TotalsFollowLog
<1>1. BP!Init
  BY DEF TradingInit, Book!BookInit, Book!OrderSide, BP!Init, BP!BookInit, BP!OrderSide
<1>2. BP!BookCore
  BY <1>1, BookAssumptions, BP!BookStarts DEF BP!BookInv
<1>3. trades = <<>> /\ stats = [total_trades |-> 0, total_volume |-> 0]
  BY DEF TradingInit, Book!BookInit
<1>4. VolumeOf(<<>>) = 0
  <2> DEFINE f == [i \in 1..Len(<<>>) |-> Volume(<<>>[i])]
             D == 1..Len(<<>>)
  <2>1. <<>> \in Seq(Book!Trade)
    OBVIOUS
  <2>2. VolumeOf(<<>>) = Total(f, D)
    BY <2>1, VolumeIs
  <2>3. D = {}
    OBVIOUS
  <2> HIDE DEF f, D
  <2>4. IsFiniteSet(D) /\ \A x \in D : f[x] = 0
    BY <2>3, FS_EmptySet
  <2> QED
    BY <2>2, <2>4, TotalZero
<1>5. stats.total_trades = Len(trades) /\ stats.total_volume = VolumeOf(trades)
  BY <1>3, <1>4
<1> QED
  BY <1>2, <1>5 DEF TotalsFollowLog, VolumeOf

(***************************************************************************)
(* The invariant holds before the contract is deployed.                    *)
(***************************************************************************)
LEMMA TradingStarts ==
    ASSUME TradingInit
    PROVE  TradingInv
<1>1. AclTypeOK /\ AdminRooted
  <2>1. u_roles \in [Users -> Seq(Roles)]
    BY RoleVectors DEF TradingInit, AclInit
  <2> QED
    BY <2>1 DEF TradingInit, AclInit, AclTypeOK, AdminRooted
<1>2. BreakerInv
  <2>1. FreshState(0) \in CircuitBreakerState /\ FreshState(0).pause_level = "None"
    BY DEF FreshState, CircuitBreakerState, PauseLevel
  <2>2. ~initialized
    BY DEF TradingInit, AclInit
  <2> QED
    BY <2>1, <2>2 DEF TradingInit, CbInit, BreakerInv, CbTypeOK, BreakerTrips
<1>3. RateTyped
  BY LimitsNotZero, MaxTimeAssumption DEF TradingInit, RateTyped, Windows
<1>4. CountersAgree
  <2> SUFFICES ASSUME NEW w \in Windows
               PROVE  rlg[w] = Total([u \in Users |-> rlu[u, w]], Users)
    BY DEF CountersAgree
  <2> DEFINE f == [u \in Users |-> rlu[u, w]]
  <2>1. \A u \in Users : f[u] = 0
    BY DEF TradingInit
  <2>2. rlg[w] = 0
    BY DEF TradingInit
  <2> HIDE DEF f
  <2>3. Total(f, Users) = 0
    BY <2>1, UsersAssumption, TotalZero
  <2> QED
    BY <2>2, <2>3 DEF f
<1>5. CallsWithinRate
  <2>1. o_cnt = 0
    BY DEF TradingInit, Book!BookInit
  <2>2. \A u, w : PlacedIn(u, w) = {}
    BY <2>1 DEF PlacedIn
  <2>3. \A u \in Users, w \in Windows : rlu[u, w] = 0 /\ rlg[w] = 0
    BY DEF TradingInit
  <2>4. 0 <= rl_cfg.user_limit /\ 0 <= rl_cfg.global_limit /\ 0 <= 0
    BY <1>3 DEF RateTyped, RateLimitConfig
  <2>5. Cardinality({}) = 0
    BY FS_EmptySet
  <2>6. ASSUME NEW u \in Users, NEW w \in Windows
        PROVE  /\ Cardinality(PlacedIn(u, w)) <= rlu[u, w] /\ rlu[u, w] <= rl_cfg.user_limit
               /\ rlg[w] <= rl_cfg.global_limit
    BY <2>2, <2>3, <2>4, <2>5
  <2> QED
    BY <2>6 DEF CallsWithinRate
<1>6. PrivTypeOK /\ BalanceFollowsTrades
  <2>1. PrivTypeOK
    BY DEF TradingInit, PrivInit, PrivTypeOK
  <2>2. ASSUME NEW u \in Users PROVE Follows(u)
    <3>1. Mine(u) = {} /\ prv_bal[u].nonce = 0
      BY DEF TradingInit, PrivInit, Mine
    <3>2. Cardinality({}) = 0
      BY FS_EmptySet
    <3> QED
      BY <3>1, <3>2 DEF Follows
  <2> QED
    BY <2>1, <2>2 DEF BalanceFollowsTrades, Follows, Mine
<1> QED
  BY <1>1, <1>2, <1>3, <1>4, <1>5, <1>6, EmptyBooks DEF TradingInv

(***************************************************************************)
(* Every reachable state of the contract satisfies its invariant.          *)
(***************************************************************************)
THEOREM TradingInvariance == TradingSpec => []TradingInv
<1>1. TradingInit => TradingInv
  BY TradingStarts
<1>2. TradingInv /\ [TradingNext]_tradingVars => TradingInv'
  <2> SUFFICES ASSUME TradingInv, [TradingNext]_tradingVars PROVE TradingInv'
    OBVIOUS
  <2> USE DEF TradingInv
  <2>1. now \in Nat
    BY DEF BP!BookCore, BP!Typed
  <2>2. AclTypeOK' /\ AdminRooted'
    BY AclStep
  <2>3. BreakerInv'
    BY <2>1, BreakerStep
  <2>4. BP!BookCore' /\ TotalsFollowLog'
    BY BookStep, TotalsStep
  <2>5. RateTyped' /\ CountersAgree' /\ CallsWithinRate'
    BY RateTypeStep, CountersStep, RateStep
  <2>6. PrivTypeOK' /\ BalanceFollowsTrades'
    BY <2>1, PrivStep
  <2> QED
    BY <2>2, <2>3, <2>4, <2>5, <2>6
<1> QED
  BY <1>1, <1>2, PTL DEF TradingSpec

(***************************************************************************)
(* The storage of the whole contract is well typed, and the global count   *)
(* of a window is the sum of the users' counts                             *)
(* (check_and_consume_trade_rate_limit).                                   *)
(***************************************************************************)
THEOREM RateCountersAlwaysAgree == TradingSpec => []RateCountersAgree
<1>1. TradingInv => RateCountersAgree
  <2> SUFFICES ASSUME TradingInv PROVE RateCountersAgree
    OBVIOUS
  <2>1. Book!BookTypeOK
    BY SameTypes DEF TradingInv, BP!BookCore, BP!Typed
  <2>2. TradingTypeOK
    BY <2>1 DEF TradingInv, TradingTypeOK, BreakerInv, RateTyped
  <2>3. ASSUME NEW w \in Windows
        PROVE  rlg[w] = Book!SumFunction([u \in Users |-> rlu[u, w]])
    <3> DEFINE f == [u \in Users |-> rlu[u, w]]
    <3>1. DOMAIN f = Users /\ rlg[w] = Total(f, Users)
      BY DEF TradingInv, CountersAgree
    <3> HIDE DEF f
    <3>2. Book!SumFunction(f) = Total(f, DOMAIN f)
      BY SameSums
    <3> QED
      BY <3>1, <3>2 DEF f
  <2> QED
    BY <2>2, <2>3 DEF RateCountersAgree
<1> QED
  BY <1>1, TradingInvariance, PTL

(***************************************************************************)
(* Until an administrator sets other limits, nobody is admitted more often *)
(* than they allow, whatever else happens to the contract.                 *)
(***************************************************************************)
THEOREM CallsStayWithinRate == TradingSpec => []CallsWithinRate
<1>1. TradingInv => CallsWithinRate
  BY DEF TradingInv
<1> QED
  BY <1>1, TradingInvariance, PTL

(***************************************************************************)
(* Until an administrator sets the level, a threshold that is reached      *)
(* stops trading (track_activity).                                         *)
(***************************************************************************)
THEOREM BreakerAlwaysTrips == TradingSpec => []BreakerTrips
<1>1. TradingInv => BreakerTrips
  BY DEF TradingInv, BreakerInv
<1> QED
  BY <1>1, TradingInvariance, PTL

(***************************************************************************)
(* The totals are those of the log, through direct trades, batches of any  *)
(* length and matched orders alike (record_trade).                         *)
(***************************************************************************)
THEOREM TotalsAlwaysFollow == TradingSpec => []TotalsFollowLog
<1>1. TradingInv => TotalsFollowLog
  BY DEF TradingInv
<1> QED
  BY <1>1, TradingInvariance, PTL

(***************************************************************************)
(* A balance commitment is never behind the private trades of its trader   *)
(* (execute_private_trade, update_private_balance).                        *)
(***************************************************************************)
THEOREM BalanceAlwaysFollows == TradingSpec => []BalanceFollowsTrades
<1>1. TradingInv => BalanceFollowsTrades
  BY DEF TradingInv
<1> QED
  BY <1>1, TradingInvariance, PTL

(***************************************************************************)
(* What the order book promises alone it keeps behind the gate, with       *)
(* direct trades, batches and administrators in between: its books are     *)
(* never crossed and a fill-or-kill order is covered.                      *)
(***************************************************************************)
THEOREM ContractBooksSound == TradingSpec => [](Book!NeverCrossed /\ Book!FokCovered)
<1>1. TradingInv => Book!NeverCrossed /\ Book!FokCovered
  <2> SUFFICES ASSUME TradingInv PROVE Book!NeverCrossed /\ Book!FokCovered
    OBVIOUS
  <2>1. BP!BookCore
    BY DEF TradingInv
  <2>2. BP!NeverCrossed /\ BP!FokCovered
    BY <2>1, BookAssumptions, BP!UncrossedBooks, BP!CoveredFok
  <2> QED
    BY <2>2, SameFill DEF BP!NeverCrossed, BP!FokCovered, Book!NeverCrossed, Book!FokCovered
<1> QED
  BY <1>1, TradingInvariance, PTL

(***************************************************************************)
(* Price-time priority holds for the whole contract: a step that fills an  *)
(* order of the book fills the first one (pick_best_match_index).          *)
(***************************************************************************)
THEOREM ContractPriority == TradingSpec => [][\A m \in 1..o_cnt : BP!InTurn(m)]_tradingVars
<1>1. TradingInv /\ [TradingNext]_tradingVars => [\A m \in 1..o_cnt : BP!InTurn(m)]_tradingVars
  <2> SUFFICES ASSUME TradingInv, [TradingNext]_tradingVars, NEW m \in 1..o_cnt
               PROVE  BP!InTurn(m)
    OBVIOUS
  <2>1. BP!BookCore
    BY DEF TradingInv
  <2>2. CASE NoOrderCall
    BY <2>1, <2>2, BookAssumptions, BP!FilledInTurn DEF NoOrderCall
  <2>3. CASE OrderCall
    <3>1. \/ \E u \in Users, k \in Pairs, s \in BP!OrderSide, p \in Int, a \in Int,
                tif \in BP!TimeInForce : BP!create_limit_order(u, k, s, p, a, tif)
          \/ BP!match_limit_order \/ BP!finish_order
          \/ \E u \in Users, id \in 1..o_cnt : BP!cancel_order(u, id)
      <4>1. ASSUME NEW u \in Users, NEW k \in Pairs, NEW s \in Book!OrderSide, NEW p \in Prices,
                   NEW n \in Amounts, NEW tif \in Book!TimeInForce,
                   Book!create_limit_order(u, k, s, p, n, tif)
            PROVE  /\ p \in Int /\ n \in Int /\ s \in BP!OrderSide /\ tif \in BP!TimeInForce
                   /\ BP!create_limit_order(u, k, s, p, n, tif)
        BY <4>1, TradeInputsAssumption, SameTypes, SameSteps
      <4> QED
        BY <2>3, <4>1, SameSteps DEF OrderCall
    <3> QED
      BY <2>1, <3>1, BookAssumptions, BP!FilledInTurn
  <2> QED
    BY <2>1, <2>2, <2>3, BookPart
<1> QED
  BY <1>1, TradingInvariance, PTL DEF TradingSpec

(***************************************************************************)
(* Nothing the contract does leaves its ACL without a manager              *)
(* (has_permission).                                                       *)
(***************************************************************************)
THEOREM ContractStaysManageable == TradingSpec => []SomeoneManagesAcl
<1>1. TradingInv => SomeoneManagesAcl
  BY RootedManages DEF TradingInv
<1> QED
  BY <1>1, TradingInvariance, PTL
=============================================================================
