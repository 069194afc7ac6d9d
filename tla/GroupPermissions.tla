--------------------------- MODULE GroupPermissions ---------------------------
(***************************************************************************)
(* The default permission matrix of a Qubee group (GroupPermissions in     *)
(* src/groups/group_permissions.rs), reduced to the permissions that guard *)
(* an operation of GroupManager.  No group type other than Private is ever *)
(* created, so the broadcast and announcement matrices are not needed.     *)
(***************************************************************************)

Role == {"Owner", "Admin", "Moderator", "Member", "Observer"}

Permission == {"AddMembers", "RemoveMembers", "ManageRoles", "CreateInvites",
               "ManageSettings", "AssignAdmin", "DeleteGroup", "SendMessages"}

\* GroupPermissions::default
RolePermissions(role) ==
    CASE role = "Owner"     -> Permission
      [] role = "Admin"     -> Permission \ {"DeleteGroup", "AssignAdmin"}
      [] role = "Moderator" -> {"AddMembers", "RemoveMembers", "SendMessages"}
      [] role = "Member"    -> {"SendMessages"}
      [] OTHER              -> {}

\* role_has_permission
RoleHasPermission(role, permission) == permission \in RolePermissions(role)
===============================================================================
