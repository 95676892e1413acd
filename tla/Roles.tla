------------------------------- MODULE Roles -------------------------------
(***************************************************************************)
(* Roles, statuses and the role guards: constants/index.ts and             *)
(* middleware/rbac.middleware.ts.  The module has no state.  The guards    *)
(* exist twice in the code, as lists of roles (requireRole, the ones the   *)
(* routers use) and as a threshold in a hierarchy (requireMinRole,         *)
(* hasMinRole); GuardsAgree says the two views coincide.                   *)
(***************************************************************************)
EXTENDS Integers, Sequences

\* The roles, in the order of ascending privilege.
ROLE_HIERARCHY == <<"VIEWER", "ANALYST", "ADMIN">>

Role == {"VIEWER", "ANALYST", "ADMIN"}

Status == {"ACTIVE", "INACTIVE", "SUSPENDED"}

\* indexOf on the hierarchy, from 0; -1 for a value that is not in it.
IndexOf(role) ==
  IF \E i \in 1..3 : ROLE_HIERARCHY[i] = role
  THEN (CHOOSE i \in 1..3 : ROLE_HIERARCHY[i] = role) - 1
  ELSE -1

\* The roles a requireRole guard lets through.
adminOnly      == {"ADMIN"}
analystOrAdmin == {"ANALYST", "ADMIN"}
anyRole        == {"VIEWER", "ANALYST", "ADMIN"}

hasMinRole(userRole, minRole) == IndexOf(userRole) >= IndexOf(minRole)

\* The roles a requireMinRole guard lets through.
requireMinRole(minRole) == {r \in Role : hasMinRole(r, minRole)}

(***************************************************************************)
(* The list guards and the hierarchy guards admit the same roles: each     *)
(* convenience guard of rbac.middleware.ts is the requireMinRole guard of  *)
(* the least role in its list.                                             *)
(***************************************************************************)
GuardsAgree ==
  /\ adminOnly      = requireMinRole("ADMIN")
  /\ analystOrAdmin = requireMinRole("ANALYST")
  /\ anyRole        = requireMinRole("VIEWER")
=============================================================================
