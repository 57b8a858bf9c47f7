-------------------------------- MODULE Rbac --------------------------------
(***************************************************************************)
(* The append-only authorization facts and the view that derives effective *)
(* permissions from them.  The service only reads these tables; facts are  *)
(* appended by an administrator with direct SQL, concurrently with every   *)
(* request.  A grant, a revocation, a suspension and a reinstatement are   *)
(* all insertions: nothing is ever taken back, so access is removed and    *)
(* restored only by new facts.                                             *)
(***************************************************************************)

EXTENDS Naturals

CONSTANTS
    Principals,           \* rows of bond_exchange.principals
    Roles,                \* rows of bond_exchange.roles
    Permissions,          \* permission codes
    RoleGrants,           \* principal_role_grants an administrator may append
    PermissionGrants,     \* role_permission_grants an administrator may append
    Suspensions,          \* principal_suspensions an administrator may append
    InitialRoleGrants,    \* the grants already recorded when the run starts
    InitialPermissionGrants,
    Revocable             \* the grants the administrator may revoke in a run

ASSUME RbacAssumption ==
    /\ RoleGrants \subseteq [principal : Principals, role : Roles, n : Nat]
    /\ PermissionGrants \subseteq [role : Roles, permission : Permissions, n : Nat]
    /\ Suspensions \subseteq [principal : Principals, n : Nat]
    /\ InitialRoleGrants \subseteq RoleGrants
    /\ InitialPermissionGrants \subseteq PermissionGrants
    /\ Revocable \subseteq RoleGrants \cup PermissionGrants

\* The six fact tables, each the set of its rows.
VARIABLE rbac

RbacTypeOK ==
    rbac \in [roleGrants : SUBSET RoleGrants,
              roleRevocations : SUBSET RoleGrants,
              permissionGrants : SUBSET PermissionGrants,
              permissionRevocations : SUBSET PermissionGrants,
              suspensions : SUBSET Suspensions,
              reinstatements : SUBSET Suspensions]

RbacInit ==
    rbac = [roleGrants |-> InitialRoleGrants,
            roleRevocations |-> {},
            permissionGrants |-> InitialPermissionGrants,
            permissionRevocations |-> {},
            suspensions |-> {},
            reinstatements |-> {}]

\* A suspension holds until a reinstatement refers to it.
Suspended(facts, principal) ==
    \E s \in facts.suspensions \ facts.reinstatements : s.principal = principal

\* The view effective_principal_permissions over a state of the fact tables.
EffectiveIn(facts, principal, permission) ==
    /\ \E g \in facts.roleGrants \ facts.roleRevocations,
          h \in facts.permissionGrants \ facts.permissionRevocations :
             /\ g.principal = principal
             /\ g.role = h.role
             /\ h.permission = permission
    /\ ~ Suspended(facts, principal)

Effective(principal, permission) == EffectiveIn(rbac, principal, permission)

-----------------------------------------------------------------------------
(* The administrator's insertions.  A revocation and a reinstatement refer  *)
(* to an existing row and are unique per row.                               *)

GrantRole(g) ==
    /\ g \notin rbac.roleGrants
    /\ rbac' = [rbac EXCEPT !.roleGrants = @ \cup {g}]

RevokeRole(g) ==
    /\ g \in Revocable
    /\ g \in rbac.roleGrants \ rbac.roleRevocations
    /\ rbac' = [rbac EXCEPT !.roleRevocations = @ \cup {g}]

GrantPermission(g) ==
    /\ g \notin rbac.permissionGrants
    /\ rbac' = [rbac EXCEPT !.permissionGrants = @ \cup {g}]

RevokePermission(g) ==
    /\ g \in Revocable
    /\ g \in rbac.permissionGrants \ rbac.permissionRevocations
    /\ rbac' = [rbac EXCEPT !.permissionRevocations = @ \cup {g}]

Suspend(s) ==
    /\ s \notin rbac.suspensions
    /\ rbac' = [rbac EXCEPT !.suspensions = @ \cup {s}]

Reinstate(s) ==
    /\ s \in rbac.suspensions \ rbac.reinstatements
    /\ rbac' = [rbac EXCEPT !.reinstatements = @ \cup {s}]

Administer ==
    \/ \E g \in RoleGrants : GrantRole(g) \/ RevokeRole(g)
    \/ \E g \in PermissionGrants : GrantPermission(g) \/ RevokePermission(g)
    \/ \E s \in Suspensions : Suspend(s) \/ Reinstate(s)

=============================================================================
