----------------------------- MODULE Permissions ----------------------------
(***************************************************************************)
(* Roles and permissions of domain/permission.rs: the table that grants    *)
(* permissions to roles, used by every check, and the table of minimum     *)
(* roles, used to word the refusal.                                        *)
(***************************************************************************)
EXTENDS Naturals

Roles == {"ReadOnly", "Operator", "Admin"}

\* The derived order of the enum.
Rank(r) == CASE r = "ReadOnly" -> 1 [] r = "Operator" -> 2 [] r = "Admin" -> 3

ViewPermissions ==
  {"ViewCredentialList", "ViewNotificationRules", "ViewRepositoryIndex",
   "ViewJiraTickets", "ViewAuditLog", "ViewSystemConfig"}

OperatePermissions ==
  {"AddCredential", "DeleteCredential", "CheckCredentialHealth",
   "ManageNotificationRules", "TriggerRepositoryIndex", "RequestTicketReview",
   "ConfigureLlmProvider", "InvokeLlm", "ExportAuditLog", "ChangeSystemConfig"}

Permissions == ViewPermissions \cup OperatePermissions \cup {"AssignRoles"}

PermissionsForRole(r) ==
  CASE r = "ReadOnly" -> ViewPermissions
    [] r = "Operator" -> ViewPermissions \cup OperatePermissions
    [] r = "Admin"    -> ViewPermissions \cup OperatePermissions \cup {"AssignRoles"}

RoleHasPermission(r, p) == p \in PermissionsForRole(r)

\* Mutant: exporting the audit log is worded like viewing it.
MinimumRoleExport(p) ==
  CASE p = "AssignRoles"                                -> "Admin"
    [] p \in OperatePermissions \ {"ExportAuditLog"}    -> "Operator"
    [] p \in ViewPermissions \cup {"ExportAuditLog"}    -> "ReadOnly"

MinimumRole(p) ==
  CASE p = "AssignRoles"           -> "Admin"
    [] p \in OperatePermissions    -> "Operator"
    [] p \in ViewPermissions       -> "ReadOnly"

\* The two tables tell the same story: a role holds a permission exactly when it
\* ranks at least as high as the minimum role named in the refusal, so a higher
\* role satisfies the requirements of every lower one.
TablesAgree ==
  \A r \in Roles, p \in Permissions :
    RoleHasPermission(r, p) <=> Rank(r) >= Rank(MinimumRole(p))
=============================================================================
