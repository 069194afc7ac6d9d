------------------------------- MODULE GroupView -------------------------------
(***************************************************************************)
(* One device's record of one group (struct Group in                       *)
(* src/groups/group_manager.rs) and GroupManager's operations on it, as    *)
(* operators from a record to a record.  A member map is a total function  *)
(* on Device whose missing entries are NoRow.  Clock fields, names and     *)
(* identity keys are left out: no guard of the protocol compares them.     *)
(*                                                                         *)
(* A row's kem names the Kyber public key registered for the member: the   *)
(* number of the keypair its owner generated, 0 for an empty kyber_pub.    *)
(***************************************************************************)
EXTENDS Integers, FiniteSets, GroupPermissions

CONSTANTS Device,   \* the identities, one device each
          Cap       \* QUBEE_MAX_GROUP_MEMBERS, also the default max_members

ASSUME DeviceAssumption == IsFiniteSet(Device)
ASSUME CapAssumption == Cap \in Nat \ {0}

--------------------------------------------------------------------------------
\* Types

\* MemberStatus, with "Absent" for an identity the map has no entry for.
\* Invited, Muted and Banned are never assigned by the code.
Status == {"Absent", "Active", "Left", "Removed"}

NoRow == [status |-> "Absent", role |-> "None", kem |-> 0]

Row == {NoRow} \cup [status : Status \ {"Absent"}, role : Role, kem : Nat]

Group == [row : [Device -> Row], version : Nat]

\* The device has no record of the group; a real one has version >= 1.
NoGroup == [row |-> [m \in Device |-> NoRow], version |-> 0]

--------------------------------------------------------------------------------
\* Reading a record

\* Mutant: a member that was removed counts as unknown.
HasMemberIfActive(g, m) == g.row[m].status = "Active"

HasMember(g, m) == g.row[m].status # "Absent"

IsActive(g, m) == g.row[m].status = "Active"

IsOwner(g, m) == g.row[m].role = "Owner"

Owners(g) == {m \in Device : IsOwner(g, m)}

Members(g) == {m \in Device : HasMember(g, m)}

\* check_permission; no operation ever fills custom_permissions.
HasPermission(g, m, permission) ==
    IsActive(g, m) /\ RoleHasPermission(g.row[m].role, permission)

\* Mutant: len > cap instead of len >= cap.
BelowCapOffByOne(g) == Cardinality(Members(g)) <= Cap

\* "Group member limit reached", in add_member and in apply_member_added
BelowCap(g) == Cardinality(Members(g)) < Cap

--------------------------------------------------------------------------------
\* GroupManager's operations

\* One field of a row assigned, and one row of a record, which gets version v
SetStatus(r, status) == [status |-> status, role |-> r.role, kem |-> r.kem]

SetRole(r, role) == [status |-> r.status, role |-> role, kem |-> r.kem]

SetKem(r, kem) == [status |-> r.status, role |-> r.role, kem |-> kem]

PutRow(g, m, r, v) == [row |-> [g.row EXCEPT ![m] = r], version |-> v]

\* create_group
CreateGroup(creator, kem) ==
    PutRow(NoGroup, creator,
           [status |-> "Active", role |-> "Owner", kem |-> kem], 1)

\* add_member and the guards it returns an error on
CanAddMember(g, admin, m) ==
    /\ HasPermission(g, admin, "AddMembers")
    /\ ~HasMember(g, m)
    /\ BelowCap(g)

AddMember(g, m) ==
    PutRow(g, m, [status |-> "Active", role |-> "Member", kem |-> 0],
           g.version + 1)

\* set_member_kyber_pub
SetMemberKyberPub(g, m, kem) ==
    PutRow(g, m, SetKem(g.row[m], kem), g.version + 1)

\* Mutant: the record keeps its own version.
ApplyMemberAddedOldVersion(g, m, row, version) == PutRow(g, m, row, g.version)

\* apply_member_added, for a member not yet in the record: the version is the
\* sender's, whatever it was here.
ApplyMemberAdded(g, m, row, version) == PutRow(g, m, row, version)

\* remove_member.  An identity that is not in the map is not an error.
CanRemoveMember(g, admin, m) ==
    /\ HasPermission(g, admin, "RemoveMembers")
    /\ ~IsOwner(g, m)

\* Mutant: the status is written without looking the entry up.
RemoveMemberUnchecked(g, m) ==
    PutRow(g, m, SetStatus(g.row[m], "Removed"), g.version + 1)

RemoveMember(g, m) ==
    PutRow(g, m,
           IF HasMember(g, m) THEN SetStatus(g.row[m], "Removed") ELSE g.row[m],
           g.version + 1)

\* update_member_role.  An identity that is not in the map is not an error.
CanUpdateMemberRole(g, admin, m) ==
    /\ HasPermission(g, admin, "ManageRoles")
    /\ ~IsOwner(g, m)

UpdateMemberRole(g, m, role) ==
    PutRow(g, m, IF HasMember(g, m) THEN SetRole(g.row[m], role) ELSE g.row[m],
           g.version + 1)

\* The version a receiver holds after "if new_version > group.version"
Newer(mine, theirs) == IF theirs > mine THEN theirs ELSE mine

\* apply_role_change
CanApplyRoleChange(g, m) == HasMember(g, m) /\ ~IsOwner(g, m)

ApplyRoleChange(g, m, role, version) ==
    PutRow(g, m, SetRole(g.row[m], role), Newer(g.version, version))

\* The pre-conditions of transfer_ownership.  apply_ownership_transfer repeats
\* all but donor # newOwner, which every frame on the wire satisfies.
CanTransfer(g, donor, newOwner) ==
    /\ donor # newOwner
    /\ IsOwner(g, donor)
    /\ IsActive(g, newOwner)

\* Mutant: the donor is not demoted.
SwapOwnerKeepsDonor(g, donor, newOwner, version) ==
    PutRow(g, newOwner, SetRole(g.row[newOwner], "Owner"), version)

\* Both set the new owner's role first and the donor's second.
SwapOwner(g, donor, newOwner, version) ==
    [row |-> [g.row EXCEPT ![newOwner] = SetRole(@, "Owner"),
                           ![donor] = SetRole(@, "Admin")],
     version |-> version]

\* A GroupMemberSummary carries no status, and whoever reads one back makes
\* the member Active: the rows of a snapshot of the members in S.
Snapshot(g, S) ==
    [m \in Device |-> IF m \in S THEN SetStatus(g.row[m], "Active") ELSE NoRow]
================================================================================
