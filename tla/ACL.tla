-------------------------------- MODULE ACL --------------------------------
(***************************************************************************)
(* Role-based access control of the Soroban contracts                      *)
(* (Contracts/shared/src/acl.rs) as the trading contract deploys and       *)
(* exposes it (init and the ACL endpoints of trading/src/lib.rs).          *)
(*                                                                         *)
(* Storage is four maps: which roles exist, the ordered roles of a user,   *)
(* the permissions of a role and the parent of a role.  Nothing is ever    *)
(* removed; a parent can be replaced.  A call that panics or returns Err   *)
(* is rolled back by the Soroban host, so it is a step that is not taken.  *)
(***************************************************************************)
EXTENDS Integers, Sequences, FiniteSets

CONSTANTS
    Users,            \* addresses that may call the contract
    ExtraRoles,       \* role symbols besides the three standard ones
    GrantablePerms,   \* permission symbols the ACL endpoints are called with
    MaxDepth,         \* deepest ancestor check_role visits (10 in the code)
    NoRole            \* "no parent" in the parent map

ROLE_ADMIN    == "admin"
ROLE_APPROVER == "approver"
ROLE_EXECUTOR == "executor"

Roles == {ROLE_ADMIN, ROLE_APPROVER, ROLE_EXECUTOR} \cup ExtraRoles

StandardPerms == {"propose", "approve", "execute", "pause", "unpause",
                  "mgr_acl", "set_rate", "premium"}

Perms == StandardPerms \cup GrantablePerms

ASSUME RolesAssumption == NoRole \notin Roles
ASSUME DepthAssumption == MaxDepth \in Nat
ASSUME UsersAssumption == IsFiniteSet(Users)

VARIABLES
    initialized,   \* storage key "init" is present
    roles_ex,      \* roles known to exist
    u_roles,       \* the roles of a user, in the order they were assigned
    r_perms,       \* the permissions of a role
    r_parent       \* the parent of a role, or NoRole

aclVars == <<initialized, roles_ex, u_roles, r_perms, r_parent>>

\* The type invariant of the ACL storage.
AclTypeOK ==
    /\ initialized \in BOOLEAN
    /\ roles_ex \in SUBSET Roles
    /\ u_roles \in [Users -> Seq(Roles)]
    /\ r_perms \in [Roles -> SUBSET Perms]
    /\ r_parent \in [Roles -> Roles \cup {NoRole}]

-----------------------------------------------------------------------------
(* Reading permissions.  Here and below, a definition marked "Faulty" is a  *)
(* variant of the one that follows it, with a defect the properties catch. *)

\* One level of check_role: the role's own permissions, then what the walk
\* above it answers.
CheckLevel(r, p, above) ==
    IF p \in r_perms[r] THEN "granted"
    ELSE IF r_parent[r] = NoRole THEN "denied"
    ELSE above

\* The walk up the parents from depth 1 on; deeper than MaxDepth it panics.
Ancestors(p) ==
    LET walk[d \in 1..(MaxDepth + 1), r \in Roles] ==
            IF d > MaxDepth THEN "panic"
            ELSE CheckLevel(r, p, walk[d + 1, r_parent[r]])
    IN  walk

check_role(r, p) == CheckLevel(r, p, Ancestors(p)[1, r_parent[r]])

\* has_permission asks the user's roles in order and stops at the first
\* answer that is not "denied": a panic hides every later role.
has_permission(u, p) ==
    \E i \in DOMAIN u_roles[u] :
        /\ check_role(u_roles[u][i], p) = "granted"
        /\ \A j \in 1..(i - 1) : check_role(u_roles[u][j], p) = "denied"

-----------------------------------------------------------------------------
(* Writing the maps *)

HasRole(roles, r) == \E i \in DOMAIN roles : roles[i] = r

\* Faulty: the newest role comes first.
WithRoleInFront(roles, r) == IF HasRole(roles, r) THEN roles ELSE <<r>> \o roles

WithRole(roles, r) == IF HasRole(roles, r) THEN roles ELSE Append(roles, r)

AssignPermissions(r, ps) ==
    /\ roles_ex' = roles_ex \cup {r}
    /\ r_perms' = [r_perms EXCEPT ![r] = @ \cup ps]

\* The ordered roles of u after init has run: admin first, then approver
\* (once, however often u is listed), then executor.
InitialRoles(u, admin, approvers, executor) ==
    (IF u = admin THEN <<ROLE_ADMIN>> ELSE <<>>)
    \o (IF u \in approvers THEN <<ROLE_APPROVER>> ELSE <<>>)
    \o (IF u = executor THEN <<ROLE_EXECUTOR>> ELSE <<>>)

InitialPerms(r) ==
    CASE r = ROLE_ADMIN    -> {"propose", "mgr_acl", "pause", "unpause",
                               "set_rate", "premium"}
      [] r = ROLE_APPROVER -> {"approve"}
      [] r = ROLE_EXECUTOR -> {"execute"}
      [] OTHER             -> {}

\* init takes no authorization: whoever calls it first chooses the roles.
init(admin, approvers, executor) ==
    /\ ~initialized
    /\ initialized' = TRUE
    /\ roles_ex' = roles_ex \cup {ROLE_ADMIN, ROLE_APPROVER, ROLE_EXECUTOR}
    /\ u_roles' = [u \in Users |-> InitialRoles(u, admin, approvers, executor)]
    /\ r_perms' = [r \in Roles |-> r_perms[r] \cup InitialPerms(r)]
    /\ UNCHANGED r_parent

require_permission(u, p) == initialized /\ has_permission(u, p)

create_role(admin, r) ==
    /\ require_permission(admin, "mgr_acl")
    /\ roles_ex' = roles_ex \cup {r}
    /\ UNCHANGED <<initialized, u_roles, r_perms, r_parent>>

assign_role(admin, u, r) ==
    /\ require_permission(admin, "mgr_acl")
    /\ roles_ex' = roles_ex \cup {r}
    /\ u_roles' = [u_roles EXCEPT ![u] = WithRole(@, r)]
    /\ UNCHANGED <<initialized, r_perms, r_parent>>

assign_permission(admin, r, p) ==
    /\ require_permission(admin, "mgr_acl")
    /\ AssignPermissions(r, {p})
    /\ UNCHANGED <<initialized, u_roles, r_parent>>

assign_permissions_batch(admin, r, ps) ==
    /\ require_permission(admin, "mgr_acl")
    /\ AssignPermissions(r, ps)
    /\ UNCHANGED <<initialized, u_roles, r_parent>>

\* Only the direct self-loop is refused; a longer cycle is stored.
set_role_parent(admin, child, parent) ==
    /\ require_permission(admin, "mgr_acl")
    /\ child # parent
    /\ roles_ex' = roles_ex \cup {child, parent}
    /\ r_parent' = [r_parent EXCEPT ![child] = parent]
    /\ UNCHANGED <<initialized, u_roles, r_perms>>

-----------------------------------------------------------------------------
AclInit ==
    /\ initialized = FALSE
    /\ roles_ex = {}
    /\ u_roles = [u \in Users |-> <<>>]
    /\ r_perms = [r \in Roles |-> {}]
    /\ r_parent = [r \in Roles |-> NoRole]

\* The endpoints an administrator of the ACL calls.
AclEndpoints ==
    \E a \in Users :
         \/ \E r \in Roles : create_role(a, r)
         \/ \E u \in Users, r \in Roles : assign_role(a, u, r)
         \/ \E r \in Roles, p \in GrantablePerms : assign_permission(a, r, p)
         \/ \E r \in Roles, ps \in SUBSET GrantablePerms :
                assign_permissions_batch(a, r, ps)
         \/ \E c, p \in Roles : set_role_parent(a, c, p)

AclNext ==
    \/ \E a, e \in Users, as \in SUBSET Users : init(a, as, e)
    \/ AclEndpoints

AclSpec == AclInit /\ [][AclNext]_aclVars

-----------------------------------------------------------------------------
(***************************************************************************)
(* A user whose first role carries mgr_acl itself is answered by           *)
(* check_role at depth 0, before any parent is looked at.                  *)
(***************************************************************************)
AdminRooted ==
    initialized => \E u \in Users : /\ u_roles[u] # <<>>
                                    /\ "mgr_acl" \in r_perms[Head(u_roles[u])]

(***************************************************************************)
(* No sequence of role assignments and parent changes, cycles included,    *)
(* leaves an initialized contract in which nobody can manage the ACL       *)
(* (acl.rs has_permission panics on a cycle instead of answering).         *)
(***************************************************************************)
SomeoneManagesAcl == initialized => \E u \in Users : has_permission(u, "mgr_acl")
=============================================================================
