---------------------------- MODULE GroupView_proofs ----------------------------
(***************************************************************************)
(* Lemmas about GroupManager's operations on one record: what type they    *)
(* return, and that each keeps the record's single Active Owner.           *)
(***************************************************************************)
EXTENDS GroupView, TLAPS

\* The record names exactly one Owner and that Owner is Active.
SoleOwner(g) == \E o \in Device : Owners(g) = {o} /\ IsActive(g, o)

\* A record's parts have their types.
LEMMA GroupParts ==
    ASSUME NEW g \in Group
    PROVE  /\ g.row \in [Device -> Row] /\ g.version \in Nat
           /\ g = [row |-> g.row, version |-> g.version]
    BY DEF Group

\* A row that is not Absent has a role of the permission matrix and a status
\* other than Absent; an Absent one is NoRow.
LEMMA RowParts ==
    ASSUME NEW r \in Row
    PROVE  /\ r.kem \in Nat
           /\ r.status # "Absent" =>
                 r \in [status : Status \ {"Absent"}, role : Role, kem : Nat]
           /\ r.status = "Absent" => r = NoRow
    BY DEF Row, NoRow, Status

\* A missing entry is a row of no member.
LEMMA NoRowType == NoRow \in Row /\ NoRow.status = "Absent" /\ NoRow.role = "None"
    BY DEF Row, NoRow

\* A fresh member row of any role is a row.
LEMMA MemberRowType ==
    ASSUME NEW k \in Nat, NEW role \in Role, NEW st \in Status \ {"Absent"}
    PROVE  [status |-> st, role |-> role, kem |-> k] \in Row
    BY DEF Row

\* The roles the operations assign are roles.
LEMMA RoleNames == "Owner" \in Role /\ "Admin" \in Role /\ "Member" \in Role
    BY DEF Role

--------------------------------------------------------------------------------
\* The operations return records

\* The record of a device without the group has its type.
LEMMA NoGroupType == NoGroup \in Group
    BY NoRowType DEF NoGroup, Group

\* create_group yields a record.
LEMMA CreateGroupType ==
    ASSUME NEW c \in Device, NEW k \in Nat
    PROVE  CreateGroup(c, k) \in Group
<1>1. [status |-> "Active", role |-> "Owner", kem |-> k] \in Row
    BY MemberRowType, RoleNames DEF Status
<1>2. NoGroup.row \in [Device -> Row]
    BY NoGroupType, GroupParts
<1>3. QED
    BY <1>1, <1>2 DEF CreateGroup, PutRow, Group

\* add_member yields a record.
LEMMA AddMemberType ==
    ASSUME NEW g \in Group, NEW m \in Device
    PROVE  AddMember(g, m) \in Group
<1>1. [status |-> "Active", role |-> "Member", kem |-> 0] \in Row
    BY MemberRowType, RoleNames DEF Status
<1>2. QED
    BY <1>1, GroupParts DEF AddMember, PutRow, Group

\* set_member_kyber_pub yields a record.
LEMMA SetMemberKyberPubType ==
    ASSUME NEW g \in Group, NEW m \in Device, NEW k \in Nat, HasMember(g, m)
    PROVE  SetMemberKyberPub(g, m, k) \in Group
<1>1. SetKem(g.row[m], k) \in Row
    BY GroupParts, RowParts DEF HasMember, Row, SetKem
<1>2. QED
    BY <1>1, GroupParts DEF SetMemberKyberPub, PutRow, Group

\* apply_member_added yields a record.
LEMMA ApplyMemberAddedType ==
    ASSUME NEW g \in Group, NEW m \in Device, NEW r \in Row, NEW v \in Nat
    PROVE  ApplyMemberAdded(g, m, r, v) \in Group
    BY GroupParts DEF ApplyMemberAdded, PutRow, Group

\* remove_member yields a record, an unknown identity included.
LEMMA RemoveMemberType ==
    ASSUME NEW g \in Group, NEW m \in Device
    PROVE  RemoveMember(g, m) \in Group
<1>1. HasMember(g, m) => SetStatus(g.row[m], "Removed") \in Row
    BY GroupParts, RowParts DEF Row, Status, HasMember, SetStatus
<1>2. QED
    BY <1>1, GroupParts DEF RemoveMember, PutRow, Group

\* update_member_role yields a record, an unknown identity included.
LEMMA UpdateMemberRoleType ==
    ASSUME NEW g \in Group, NEW m \in Device, NEW role \in Role
    PROVE  UpdateMemberRole(g, m, role) \in Group
<1>1. HasMember(g, m) => SetRole(g.row[m], role) \in Row
    BY GroupParts, RowParts DEF Row, HasMember, SetRole
<1>2. QED
    BY <1>1, GroupParts DEF UpdateMemberRole, PutRow, Group

\* The version a receiver adopts is a version.
LEMMA NewerType ==
    ASSUME NEW v \in Nat, NEW w \in Nat
    PROVE  Newer(v, w) \in Nat
    BY DEF Newer

\* apply_role_change yields a record.
LEMMA ApplyRoleChangeType ==
    ASSUME NEW g \in Group, NEW m \in Device, NEW role \in Role, NEW v \in Nat,
           HasMember(g, m)
    PROVE  ApplyRoleChange(g, m, role, v) \in Group
<1>1. SetRole(g.row[m], role) \in Row
    BY GroupParts, RowParts DEF HasMember, Row, SetRole
<1>2. Newer(g.version, v) \in Nat
    BY GroupParts, NewerType
<1>3. QED
    BY <1>1, <1>2, GroupParts DEF ApplyRoleChange, PutRow, Group

\* An ownership transfer yields a record.
LEMMA SwapOwnerType ==
    ASSUME NEW g \in Group, NEW d \in Device, NEW n \in Device, NEW v \in Nat,
           CanTransfer(g, d, n)
    PROVE  SwapOwner(g, d, n, v) \in Group
<1>1. g.row \in [Device -> Row] /\ g.row[d].status # "Absent"
      /\ g.row[n].status # "Absent" /\ d # n
    BY GroupParts, RowParts DEF CanTransfer, IsOwner, IsActive, NoRow
<1>2. SetRole(g.row[n], "Owner") \in Row /\ SetRole(g.row[d], "Admin") \in Row
    BY <1>1, RowParts, RoleNames DEF Row, SetRole
<1>3. QED
    BY <1>1, <1>2, GroupParts DEF SwapOwner, Group

\* The rows of a roster snapshot are rows of members.
LEMMA SnapshotType ==
    ASSUME NEW g \in Group, NEW S \in SUBSET Members(g)
    PROVE  Snapshot(g, S) \in [Device -> Row]
<1>1. SUFFICES ASSUME NEW m \in Device, m \in S
               PROVE  SetStatus(g.row[m], "Active") \in Row
    BY NoRowType DEF Snapshot
<1>2. g.row[m] \in Row /\ g.row[m].status # "Absent"
    BY <1>1, GroupParts DEF Members, HasMember
<1>3. QED
    BY <1>2, RowParts DEF Row, Status, SetStatus

--------------------------------------------------------------------------------
\* Each operation, under the guard the code puts in front of it, keeps the
\* record's single Active Owner

\* create_group yields one Active Owner.
LEMMA CreateGroupOwner ==
    ASSUME NEW c \in Device, NEW k \in Nat
    PROVE  SoleOwner(CreateGroup(c, k))
    BY NoRowType DEF SoleOwner, CreateGroup, PutRow, NoGroup, Owners, IsOwner, IsActive

\* add_member does not add an Owner.
LEMMA AddMemberOwner ==
    ASSUME NEW g \in Group, NEW m \in Device, ~HasMember(g, m), SoleOwner(g)
    PROVE  SoleOwner(AddMember(g, m))
    BY GroupParts DEF SoleOwner, AddMember, PutRow, Owners, IsOwner, IsActive, HasMember

\* set_member_kyber_pub leaves the Owner alone.
LEMMA SetMemberKyberPubOwner ==
    ASSUME NEW g \in Group, NEW m \in Device, NEW k \in Nat, SoleOwner(g)
    PROVE  SoleOwner(SetMemberKyberPub(g, m, k))
    BY GroupParts, RowParts
       DEF SoleOwner, SetMemberKyberPub, PutRow, SetKem, Owners, IsOwner, IsActive

\* apply_member_added does not add an Owner.
LEMMA ApplyMemberAddedOwner ==
    ASSUME NEW g \in Group, NEW m \in Device, NEW r \in Row, NEW v \in Nat,
           r.role # "Owner", ~HasMember(g, m), SoleOwner(g)
    PROVE  SoleOwner(ApplyMemberAdded(g, m, r, v))
    BY GroupParts
       DEF SoleOwner, ApplyMemberAdded, PutRow, Owners, IsOwner, IsActive, HasMember

\* remove_member refuses the Owner, so it survives.
LEMMA RemoveMemberOwner ==
    ASSUME NEW g \in Group, NEW m \in Device, ~IsOwner(g, m), SoleOwner(g)
    PROVE  SoleOwner(RemoveMember(g, m))
    BY GroupParts, RowParts
       DEF SoleOwner, RemoveMember, PutRow, SetStatus, Owners, IsOwner, IsActive

\* update_member_role refuses the Owner and assigns no second one.
LEMMA UpdateMemberRoleOwner ==
    ASSUME NEW g \in Group, NEW m \in Device, NEW role \in Role,
           role # "Owner", ~IsOwner(g, m), SoleOwner(g)
    PROVE  SoleOwner(UpdateMemberRole(g, m, role))
    BY GroupParts, RowParts
       DEF SoleOwner, UpdateMemberRole, PutRow, SetRole, Owners, IsOwner, IsActive

\* apply_role_change refuses the Owner and assigns no second one.
LEMMA ApplyRoleChangeOwner ==
    ASSUME NEW g \in Group, NEW m \in Device, NEW role \in Role, NEW v \in Nat,
           role # "Owner", ~IsOwner(g, m), SoleOwner(g)
    PROVE  SoleOwner(ApplyRoleChange(g, m, role, v))
    BY GroupParts, RowParts
       DEF SoleOwner, ApplyRoleChange, PutRow, SetRole, Owners, IsOwner, IsActive

\* A transfer between two members leaves one Active Owner.
LEMMA SwapOwnerOwner ==
    ASSUME NEW g \in Group, NEW d \in Device, NEW n \in Device, NEW v \in Nat,
           CanTransfer(g, d, n), SoleOwner(g)
    PROVE  SoleOwner(SwapOwner(g, d, n, v))
<1>1. g.row \in [Device -> Row] /\ d # n /\ Owners(g) = {d} /\ IsActive(g, n)
    BY GroupParts DEF CanTransfer, SoleOwner, Owners, IsOwner
<1> DEFINE h == SwapOwner(g, d, n, v)
<1>2. h.row[n].role = "Owner" /\ h.row[d].role = "Admin"
      /\ h.row[n].status = g.row[n].status
      /\ \A x \in Device \ {d, n} : h.row[x] = g.row[x]
    BY <1>1 DEF SwapOwner, SetRole
<1>3. Owners(h) = {n} /\ IsActive(h, n)
    BY <1>1, <1>2 DEF Owners, IsOwner, IsActive
<1>4. QED
    BY <1>3 DEF SoleOwner

\* A snapshot of all members names the same Owner, Active.
LEMMA SnapshotOwner ==
    ASSUME NEW g \in Group, NEW v \in Nat, SoleOwner(g)
    PROVE  SoleOwner([row |-> Snapshot(g, Members(g)), version |-> v])
<1> DEFINE s == [row |-> Snapshot(g, Members(g)), version |-> v]
<1>1. PICK o \in Device : Owners(g) = {o} /\ IsActive(g, o)
    BY DEF SoleOwner
<1>2. \A x \in Members(g) : s.row[x].role = g.row[x].role
                            /\ s.row[x].status = "Active"
    BY GroupParts, RowParts DEF Snapshot, Members, SetStatus
<1>3. \A x \in Device \ Members(g) : s.row[x].role = "None"
    BY NoRowType DEF Snapshot
<1>4. o \in Members(g)
    BY <1>1 DEF Members, HasMember, IsActive
<1>5. Owners(s) = {o} /\ IsActive(s, o)
    BY <1>1, <1>2, <1>3, <1>4 DEF Owners, IsOwner, IsActive
<1>6. QED
    BY <1>5 DEF SoleOwner
================================================================================
