---------------------------- MODULE GroupSync_proofs ----------------------------
(***************************************************************************)
(* Theorems about the state-sync exchange, for every set of devices, every *)
(* bound and every choice of user operations, promotions to Owner          *)
(* included.                                                               *)
(***************************************************************************)
EXTENDS GroupSync, GroupProtocol_proofs

--------------------------------------------------------------------------------
\* apply_state_sync

\* What it writes for one member is a row.
LEMMA SyncRowType ==
    ASSUME NEW mine \in Row, NEW theirs \in Row
    PROVE  SyncRow(mine, theirs) \in Row
<1>1. CASE theirs = NoRow
    BY <1>1, RowParts DEF SyncRow, SetStatus, Row, Status
<1>2. CASE theirs # NoRow
  <2>1. theirs.role \in Role /\ theirs.kem \in Nat /\ mine.kem \in Nat
    BY <1>2, RowParts
  <2>2. SyncRow(mine, theirs) = [status |-> "Active", role |-> theirs.role,
                                 kem |-> IF theirs.kem = 0 THEN mine.kem ELSE theirs.kem]
    BY <1>2 DEF SyncRow
  <2>3. QED
    BY <2>1, <2>2, MemberRowType DEF Status
<1>3. QED
    BY <1>1, <1>2

\* A second application to the same row changes nothing.
LEMMA SyncRowTwice ==
    ASSUME NEW mine \in Row, NEW theirs \in Row
    PROVE  SyncRow(SyncRow(mine, theirs), theirs) = SyncRow(mine, theirs)
<1>1. CASE theirs = NoRow /\ mine.status = "Active"
    BY <1>1 DEF SyncRow, SetStatus
<1>2. CASE theirs = NoRow /\ mine.status # "Active"
    BY <1>2 DEF SyncRow
<1>3. CASE theirs # NoRow
    BY <1>3 DEF SyncRow
<1>4. QED
    BY <1>1, <1>2, <1>3

\* Its parts, and that it yields a record
LEMMA ApplyParts ==
    ASSUME NEW g \in Group, NEW row \in [Device -> Row], NEW v \in Nat
    PROVE  /\ ApplyStateSync(g, row, v) \in Group
           /\ ApplyStateSync(g, row, v).version = Newer(g.version, v)
           /\ \A x \in Device : ApplyStateSync(g, row, v).row[x] = SyncRow(g.row[x], row[x])
<1>1. \A x \in Device : g.row[x] \in Row /\ row[x] \in Row
    BY GroupParts
<1>2. \A x \in Device : SyncRow(g.row[x], row[x]) \in Row
    BY <1>1, SyncRowType
<1>3. Newer(g.version, v) \in Nat
    BY GroupParts, NewerType
<1>4. QED
    BY <1>2, <1>3 DEF ApplyStateSync, Group

\* Applying a snapshot twice is applying it once, whatever the record.
LEMMA ApplyTwice ==
    ASSUME NEW g \in Group, NEW row \in [Device -> Row], NEW v \in Nat
    PROVE  ApplyStateSync(ApplyStateSync(g, row, v), row, v) = ApplyStateSync(g, row, v)
<1> DEFINE h == ApplyStateSync(g, row, v)
<1>1. /\ h \in Group /\ h.version = Newer(g.version, v)
      /\ \A x \in Device : h.row[x] = SyncRow(g.row[x], row[x])
    BY ApplyParts
<1> HIDE DEF h
<1>2. /\ ApplyStateSync(h, row, v) \in Group
      /\ ApplyStateSync(h, row, v).version = Newer(h.version, v)
      /\ \A x \in Device : ApplyStateSync(h, row, v).row[x] = SyncRow(h.row[x], row[x])
    BY <1>1, ApplyParts
<1> DEFINE k == ApplyStateSync(h, row, v)
<1> HIDE DEF k
<1>3. k.version = h.version
  <2>1. g.version \in Nat
    BY GroupParts
  <2>2. QED
    BY <1>1, <1>2, <2>1 DEF Newer, k
<1>4. \A x \in Device : k.row[x] = h.row[x]
  <2>1. \A x \in Device : g.row[x] \in Row /\ row[x] \in Row
    BY GroupParts
  <2>2. QED
    BY <1>1, <1>2, <2>1, SyncRowTwice DEF k
<1>5. k.row = h.row
    BY <1>1, <1>2, <1>4, GroupParts DEF k
<1>6. k = h
    BY <1>1, <1>2, <1>3, <1>5, GroupParts DEF k
<1>7. QED
    BY <1>6 DEF h, k

--------------------------------------------------------------------------------
\* Type correctness

\* The fields of a frame of the exchange, by its type
LEMMA SyncParts ==
    ASSUME NEW m \in Request \cup Response
    PROVE  /\ m.type \in {"RequestStateSync", "StateSyncResponse"} /\ m.from \in Device
           /\ m.type = "StateSyncResponse" =>
                 /\ m \in Response /\ m.to \in Device /\ m.row \in [Device -> Row]
                 /\ m.version \in Nat /\ m.kem \in Nat /\ m.key \in Nat
    BY DEF Request, Response

\* The frame ProcessRequestStateSync publishes
Answered(d, x) ==
    [type |-> "StateSyncResponse", from |-> d, to |-> x,
     row |-> Snapshot(view[d], Active(view[d])), version |-> view[d].version,
     kem |-> WrapFor(d, x), key |-> IF WrapFor(d, x) = 0 THEN 0 ELSE key[d]]

LEMMA ProcessStep ==
    ASSUME NEW d \in Device, NEW m, ProcessRequestStateSync(d, m)
    PROVE  /\ sync' = sync \cup {Answered(d, m.from)} /\ UNCHANGED vars
           /\ IsActive(view[d], d) /\ m.from # d
    BY DEF ProcessRequestStateSync, Answered

LEMMA AnsweredType ==
    ASSUME TypeOK, NEW d \in Device, NEW x \in Device
    PROVE  /\ Answered(d, x) \in Response
           /\ Answered(d, x).type = "StateSyncResponse"
           /\ Answered(d, x).row = Snapshot(view[d], Active(view[d]))
           /\ Answered(d, x).from = d
           /\ Answered(d, x).kem # 0 => Answered(d, x).key # 0
<1>1. view[d] \in Group /\ key[d] \in Nat
    BY DEF TypeOK
<1>2. Snapshot(view[d], Active(view[d])) \in [Device -> Row] /\ view[d].version \in Nat
  <2>1. Active(view[d]) \in SUBSET Members(view[d])
    BY DEF Active, Members, IsActive, HasMember
  <2>2. QED
    BY <1>1, <2>1, SnapshotType, GroupParts
<1>3. WrapFor(d, x) \in Nat /\ (WrapFor(d, x) # 0 => key[d] # 0)
    BY <1>1, GroupParts, RowParts DEF WrapFor
<1>4. QED
    BY <1>1, <1>2, <1>3 DEF Answered, Response

\* The founders' record
LEMMA FoundedType ==
    /\ FoundedGroup \in Group /\ FoundedGroup.row[Creator].role = "Owner"
    /\ FoundedGroup.row[Creator].status = "Active"
<1>1. Founders \in SUBSET Device /\ Creator \in Founders /\ Creator \in Device
    BY FoundersAssumption, CreatorAssumption
<1>2. IsFiniteSet(Founders) /\ Cardinality(Founders) \in Nat /\ Cardinality(Founders) # 0
    BY <1>1, DeviceAssumption, FS_Subset, FS_CardinalityType, FS_EmptySet
<1>3. \A m \in Device : FoundedRow(m) \in Row
    BY NoRowType, MemberRowType, RoleNames DEF FoundedRow, Status
<1>4. 2 * Cardinality(Founders) - 1 \in Nat
    BY <1>2
<1>5. FoundedGroup \in Group
    BY <1>3, <1>4 DEF FoundedGroup, Group
<1>6. FoundedGroup.row[Creator] = FoundedRow(Creator)
    BY <1>1 DEF FoundedGroup
<1>7. QED
    BY <1>1, <1>5, <1>6 DEF FoundedRow

LEMMA SyncInitType == SyncInit => SyncTypeOK
<1>1. SUFFICES ASSUME SyncInit PROVE SyncTypeOK
    OBVIOUS
<1>2. view \in [Device -> Group]
    BY <1>1, FoundedType, NoGroupType DEF SyncInit
<1>3. QED
    BY <1>1, <1>2 DEF SyncInit, SyncTypeOK, TypeOK

\* leave_group, with one's own identity
LEMMA LeaveType ==
    ASSUME NEW g \in Group, NEW d \in Device, NEW r,
           r = IF HasMember(g, d) THEN SetStatus(g.row[d], "Left") ELSE g.row[d]
    PROVE  PutRow(g, d, r, g.version + 1) \in Group
<1>1. r \in Row
    BY GroupParts, RowParts DEF HasMember, SetStatus, Row, Status
<1>2. QED
    BY <1>1, GroupParts DEF PutRow, Group

\* The exchange and the changes that are not broadcast keep the types.
LEMMA SyncStepType ==
    ASSUME SyncTypeOK, NEW d \in Device, SyncStep(d)
    PROVE  SyncTypeOK'
<1> view[d] \in Group
    BY DEF SyncTypeOK, TypeOK
<1>1. CASE RequestStateSync(d)
  <2>1. [type |-> "RequestStateSync", from |-> d] \in Request
    BY DEF Request
  <2>2. QED
    BY <1>1, <2>1 DEF RequestStateSync, SyncTypeOK, TypeOK, vars
<1>2. ASSUME NEW m \in sync, ProcessRequestStateSync(d, m) PROVE SyncTypeOK'
  <2>1. m.from \in Device
    BY SyncParts DEF SyncTypeOK
  <2>2. /\ Answered(d, m.from) \in Response
        /\ Answered(d, m.from).kem # 0 => Answered(d, m.from).key # 0
    BY <2>1, AnsweredType DEF SyncTypeOK
  <2>3. sync' = sync \cup {Answered(d, m.from)} /\ UNCHANGED vars
    BY <1>2, ProcessStep
  <2>4. TypeOK'
    BY <2>3 DEF SyncTypeOK, TypeOK, vars
  <2>5. QED
    BY <2>2, <2>3, <2>4 DEF SyncTypeOK
<1>3. ASSUME NEW m \in sync, ReceiveStateSync(d, m) PROVE SyncTypeOK'
  <2> DEFINE g == ApplyStateSync(view[d], m.row, m.version)
             k == IF m.kem # 0 /\ m.kem = secret[d] THEN m.key ELSE key[d]
  <2>1. m.row \in [Device -> Row] /\ m.version \in Nat /\ m.key \in Nat
    BY <1>3, SyncParts DEF SyncTypeOK, ReceiveStateSync
  <2>2. g \in Group /\ k \in Nat
    BY <2>1, ApplyParts DEF SyncTypeOK, TypeOK
  <2>3. /\ view' = [view EXCEPT ![d] = g] /\ key' = [key EXCEPT ![d] = k]
        /\ UNCHANGED <<secret, joinVars, msgs, inbox, nextKey, sync>>
    BY <1>3 DEF ReceiveStateSync, SyncTypeOK, TypeOK
  <2> HIDE DEF g, k
  <2>4. QED
    BY <2>2, <2>3 DEF SyncTypeOK, TypeOK, joinVars
<1>4. CASE LeaveGroup(d)
  <2> DEFINE r == IF HasMember(view[d], d) THEN SetStatus(view[d].row[d], "Left") ELSE view[d].row[d]
             g == PutRow(view[d], d, r, view[d].version + 1)
  <2>1. g \in Group
    BY LeaveType
  <2>2. /\ view' = [view EXCEPT ![d] = g] /\ key' = [key EXCEPT ![d] = nextKey]
        /\ nextKey' = nextKey + 1
        /\ UNCHANGED <<secret, joinVars, msgs, inbox, sync>>
    BY <1>4 DEF LeaveGroup, SyncTypeOK, TypeOK
  <2> HIDE DEF g
  <2>3. QED
    BY <2>1, <2>2 DEF SyncTypeOK, TypeOK, joinVars
<1>5. CASE UpdateGroupSettings(d)
  <2> DEFINE g == [view[d] EXCEPT !.version = @ + 1]
  <2>1. g \in Group
    BY GroupParts DEF Group
  <2>2. /\ view' = [view EXCEPT ![d] = g]
        /\ UNCHANGED <<key, secret, joinVars, msgs, inbox, nextKey, sync>>
    BY <1>5 DEF UpdateGroupSettings, SyncTypeOK, TypeOK
  <2> HIDE DEF g
  <2>3. QED
    BY <2>1, <2>2 DEF SyncTypeOK, TypeOK, joinVars
<1>6. QED
    BY <1>1, <1>2, <1>3, <1>4, <1>5 DEF SyncStep

LEMMA SyncNextType == SyncTypeOK /\ [SyncNext]_syncVars => SyncTypeOK'
<1>1. SUFFICES ASSUME SyncTypeOK, [SyncNext]_syncVars PROVE SyncTypeOK'
    OBVIOUS
<1>2. CASE Next /\ UNCHANGED sync
  <2>1. TypeOK'
    BY <1>1, <1>2, LocalType, ReceiveType DEF Next, SyncTypeOK
  <2>2. QED
    BY <1>1, <1>2, <2>1 DEF SyncTypeOK
<1>3. CASE \E d \in Device : SyncStep(d)
    BY <1>1, <1>3, SyncStepType
<1>4. CASE UNCHANGED syncVars
    BY <1>1, <1>4 DEF syncVars, vars, SyncTypeOK, TypeOK
<1>5. QED
    BY <1>1, <1>2, <1>3, <1>4 DEF SyncNext

\* The exchange keeps every record, frame and key well typed: no snapshot,
\* however old, leaves a row without a role, and no wrapped key is empty.
THEOREM SyncTypeCorrect == SyncSpec => []SyncTypeOK
    BY SyncInitType, SyncNextType, PTL DEF SyncSpec

\* A response delivered twice is a response delivered once, whatever the
\* addressee's record has become by then.
THEOREM SyncIsIdempotent == SyncSpec => []SyncIdempotent
<1>1. SyncTypeOK => SyncIdempotent
  <2>1. SUFFICES ASSUME SyncTypeOK, NEW m \in sync, m.type = "StateSyncResponse"
                 PROVE  ApplyStateSync(ApplyStateSync(view[m.to], m.row, m.version), m.row, m.version)
                        = ApplyStateSync(view[m.to], m.row, m.version)
    BY DEF SyncIdempotent
  <2>2. m.to \in Device /\ m.row \in [Device -> Row] /\ m.version \in Nat
    BY <2>1, SyncParts DEF SyncTypeOK
  <2>3. view[m.to] \in Group
    BY <2>1, <2>2 DEF SyncTypeOK, TypeOK
  <2>4. QED
    BY <2>2, <2>3, ApplyTwice
<1>2. QED
    BY <1>1, SyncTypeCorrect, PTL

--------------------------------------------------------------------------------
\* No record without an Owner

\* Some member is Owner and Active in a roster.
Owned(row) == \E o \in Device : row[o].status = "Active" /\ row[o].role = "Owner"

\* Every record has an Active Owner, and so has every snapshot on the wire,
\* since a joiner takes it over and a member that was away merges it.
OwnedInv ==
    /\ \A d \in Device : view[d] = NoGroup \/ Owned(view[d].row)
    /\ \A m \in msgs : m.type = "JoinAccepted" => Owned(m.row)
    /\ \A m \in sync : m.type = "StateSyncResponse" => Owned(m.row)

\* Writing the row of a member that is not an Active Owner keeps those there are.
LEMMA OwnedPut ==
    ASSUME NEW g \in Group, NEW m \in Device, NEW r, NEW v, Owned(g.row),
           ~IsOwner(g, m) \/ ~IsActive(g, m)
    PROVE  Owned(PutRow(g, m, r, v).row)
    BY GroupParts DEF Owned, PutRow, IsOwner, IsActive

\* Every operation of GroupManager keeps an Active Owner, under the guard the
\* code puts in front of it: add_member and set_member_kyber_pub
LEMMA OwnedAdd ==
    ASSUME NEW g \in Group, NEW m \in Device, NEW k, ~HasMember(g, m), Owned(g.row)
    PROVE  Owned(SetMemberKyberPub(AddMember(g, m), m, k).row)
<1>1. AddMember(g, m) \in Group
    BY AddMemberType
<1>2. Owned(AddMember(g, m).row)
    BY OwnedPut DEF AddMember, HasMember, IsActive
<1>3. ~IsOwner(AddMember(g, m), m)
    BY GroupParts DEF AddMember, PutRow, IsOwner
<1>4. QED
    BY <1>1, <1>2, <1>3, OwnedPut DEF SetMemberKyberPub

\* apply_member_added
LEMMA OwnedAnnounced ==
    ASSUME NEW g \in Group, NEW m \in Device, NEW r, NEW v, ~HasMember(g, m), Owned(g.row)
    PROVE  Owned(ApplyMemberAdded(g, m, r, v).row)
    BY OwnedPut DEF ApplyMemberAdded, HasMember, IsActive

\* remove_member, update_member_role and apply_role_change
LEMMA OwnedChange ==
    ASSUME NEW g \in Group, NEW m \in Device, NEW r, NEW v, ~IsOwner(g, m), Owned(g.row)
    PROVE  /\ Owned(RemoveMember(g, m).row)
           /\ Owned(UpdateMemberRole(g, m, r).row)
           /\ Owned(ApplyRoleChange(g, m, r, v).row)
    BY OwnedPut DEF RemoveMember, UpdateMemberRole, ApplyRoleChange

\* transfer_ownership and apply_ownership_transfer
LEMMA OwnedSwap ==
    ASSUME NEW g \in Group, NEW m \in Device, NEW n \in Device, NEW v, CanTransfer(g, m, n)
    PROVE  Owned(SwapOwner(g, m, n, v).row)
<1>1. /\ SwapOwner(g, m, n, v).row[n].role = "Owner"
      /\ SwapOwner(g, m, n, v).row[n].status = "Active"
    BY GroupParts DEF CanTransfer, SwapOwner, SetRole, IsActive
<1>2. QED
    BY <1>1 DEF Owned

\* A snapshot of all members, or of the Active ones
LEMMA OwnedSnapshot ==
    ASSUME NEW g \in Group, NEW S \in SUBSET Device, Active(g) \subseteq S, Owned(g.row)
    PROVE  Owned(Snapshot(g, S))
<1>1. PICK o \in Device : g.row[o].status = "Active" /\ g.row[o].role = "Owner"
    BY DEF Owned
<1>2. o \in S
    BY <1>1 DEF Active, IsActive
<1>3. Snapshot(g, S)[o].status = "Active" /\ Snapshot(g, S)[o].role = "Owner"
    BY <1>1, <1>2 DEF Snapshot, SetStatus
<1>4. QED
    BY <1>3 DEF Owned

\* apply_state_sync: the Owner of the snapshot is an Active Owner afterwards.
LEMMA OwnedApply ==
    ASSUME NEW g \in Group, NEW row \in [Device -> Row], NEW v \in Nat, Owned(row)
    PROVE  Owned(ApplyStateSync(g, row, v).row)
<1>1. PICK o \in Device : row[o].status = "Active" /\ row[o].role = "Owner"
    BY DEF Owned
<1>2. row[o] # NoRow
    BY <1>1, NoRowType
<1>3. SyncRow(g.row[o], row[o]).status = "Active" /\ SyncRow(g.row[o], row[o]).role = "Owner"
    BY <1>1, <1>2 DEF SyncRow
<1>4. QED
    BY <1>3, ApplyParts DEF Owned

\* A step that writes one record and publishes no snapshot
LEMMA OwnedStep ==
    ASSUME TypeOK, OwnedInv, NEW d \in Device, NEW g, view' = [view EXCEPT ![d] = g], Owned(g.row),
           \A f \in msgs' \ msgs : f.type = "JoinAccepted" => Owned(f.row),
           \A f \in sync' \ sync : f.type = "StateSyncResponse" => Owned(f.row)
    PROVE  OwnedInv'
<1>1. \A e \in Device : view'[e] = IF e = d THEN g ELSE view[e]
    BY DEF TypeOK
<1>2. QED
    BY <1>1 DEF OwnedInv

\* A step that writes no record and publishes only snapshots that are owned
LEMMA OwnedFrame ==
    ASSUME OwnedInv, UNCHANGED view,
           \A f \in msgs' \ msgs : f.type = "JoinAccepted" => Owned(f.row),
           \A f \in sync' \ sync : f.type = "StateSyncResponse" => Owned(f.row)
    PROVE  OwnedInv'
    BY DEF OwnedInv

LEMMA LocalOwned ==
    ASSUME TypeOK, OwnedInv, UNCHANGED sync, NEW d \in Device, Local(d)
    PROVE  OwnedInv'
<1> view[d] \in Group
    BY DEF TypeOK
<1>1. CASE \/ CreateInvite(d) \/ ExpireInvite(d) \/ SendGroupMessage(d) \/ Restart(d)
           \/ \E i \in Device : ExpirePending(d, i) \/ AcceptInvite(d, i)
  <2>1. /\ UNCHANGED view
        /\ \A f \in msgs' \ msgs : f.type # "JoinAccepted"
    BY <1>1 DEF CreateInvite, ExpireInvite, SendGroupMessage, Restart,
                ExpirePending, AcceptInvite, Publish
  <2>2. QED
    BY <2>1, OwnedFrame
<1>2. ASSUME NEW x \in Device, RemoveMemberOp(d, x) PROVE OwnedInv'
  <2>1. /\ view' = [view EXCEPT ![d] = RemoveMember(view[d], x)]
        /\ \A f \in msgs' \ msgs : f.type # "JoinAccepted"
        /\ CanRemoveMember(view[d], d, x)
    BY <1>2 DEF RemoveMemberOp, Publish
  <2>2. Owned(view[d].row) /\ ~IsOwner(view[d], x)
    BY <2>1, NoGroupFacts DEF OwnedInv, CanRemoveMember
  <2>3. Owned(RemoveMember(view[d], x).row)
    BY <2>2, OwnedChange
  <2>4. QED
    BY <2>1, <2>3, OwnedStep
<1>3. ASSUME NEW x \in Device, NEW role, PromoteMember(d, x, role) PROVE OwnedInv'
  <2>1. /\ view' = [view EXCEPT ![d] = UpdateMemberRole(view[d], x, role)]
        /\ \A f \in msgs' \ msgs : f.type # "JoinAccepted"
        /\ CanUpdateMemberRole(view[d], d, x)
    BY <1>3 DEF PromoteMember, Publish
  <2>2. Owned(view[d].row) /\ ~IsOwner(view[d], x)
    BY <2>1, NoGroupFacts DEF OwnedInv, CanUpdateMemberRole
  <2>3. Owned(UpdateMemberRole(view[d], x, role).row)
    BY <2>2, OwnedChange
  <2>4. QED
    BY <2>1, <2>3, OwnedStep
<1>4. ASSUME NEW x \in Device, TransferOwnership(d, x) PROVE OwnedInv'
  <2> DEFINE g == SwapOwner(view[d], d, x, view[d].version + 1)
  <2>1. /\ view' = [view EXCEPT ![d] = g]
        /\ \A f \in msgs' \ msgs : f.type # "JoinAccepted"
        /\ CanTransfer(view[d], d, x)
    BY <1>4 DEF TransferOwnership, Publish
  <2>2. Owned(g.row)
    BY <2>1, OwnedSwap
  <2> HIDE DEF g
  <2>3. QED
    BY <2>1, <2>2, OwnedStep
<1>5. QED
    BY <1>1, <1>2, <1>3, <1>4 DEF Local, Members

LEMMA ReceiveOwned ==
    ASSUME TypeOK, OwnedInv, UNCHANGED sync, NEW d \in Device, NEW m \in msgs, Receive(d, m)
    PROVE  OwnedInv'
<1> m \in Message /\ view[d] \in Group
    BY DEF TypeOK
<1>1. CASE AcceptRequestJoin(d, m)
  <2> DEFINE a == AddMember(view[d], m.from)
             g == SetMemberKyberPub(a, m.from, m.kem)
             s == Snapshot(g, Members(g))
  <2>1. m.from \in Device /\ m.kem \in Nat /\ ~HasMember(view[d], m.from) /\ Owned(view[d].row)
    BY <1>1, FrameParts, NoGroupFacts DEF AcceptRequestJoin, CanAddMember, OwnedInv
  <2>2. Owned(g.row)
    BY <2>1, OwnedAdd
  <2>3. g \in Group
    <3>1. a \in Group /\ HasMember(a, m.from)
      BY <2>1, AddMemberType, GroupParts DEF AddMember, PutRow, HasMember
    <3> HIDE DEF a
    <3>2. QED
      BY <2>1, <3>1, SetMemberKyberPubType
  <2>4. /\ view' = [view EXCEPT ![d] = g]
        /\ \A f \in msgs' \ msgs : f.type = "JoinAccepted" => f.row = s
    BY <1>1 DEF AcceptRequestJoin, Publish
  <2> HIDE DEF g
  <2>5. Owned(s)
    <3>1. Members(g) \in SUBSET Device /\ Active(g) \subseteq Members(g)
      BY DEF Members, Active, HasMember, IsActive
    <3>2. QED
      BY <2>2, <2>3, <3>1, OwnedSnapshot
  <2> HIDE DEF s
  <2>6. QED
    BY <2>2, <2>4, <2>5, OwnedStep
<1>2. CASE ReceiveJoinAccepted(d, m)
  <2> DEFINE g == [row |-> m.row, version |-> m.version]
  <2>1. /\ view' = [view EXCEPT ![d] = g] /\ UNCHANGED msgs /\ m.type = "JoinAccepted"
    BY <1>2 DEF ReceiveJoinAccepted, TakesJoinAccepted
  <2>2. Owned(g.row)
    BY <2>1 DEF OwnedInv
  <2> HIDE DEF g
  <2>3. QED
    BY <2>1, <2>2, OwnedStep
<1>3. CASE ReceiveMemberAdded(d, m)
  <2> DEFINE r == [status |-> "Active", role |-> "Member", kem |-> m.kem]
             g == ApplyMemberAdded(view[d], m.member, r, m.version)
  <2>1. /\ m.member \in Device /\ ~HasMember(view[d], m.member)
        /\ HasMember(view[d], m.from) /\ m.from \in Device
    BY <1>3, FrameParts DEF ReceiveMemberAdded
  <2>2. view' = [view EXCEPT ![d] = g] /\ UNCHANGED msgs
    BY <1>3 DEF ReceiveMemberAdded, TypeOK
  <2>3. Owned(view[d].row)
    BY <2>1, NoGroupFacts DEF OwnedInv
  <2>4. Owned(g.row)
    <3> HIDE DEF r
    <3>1. QED
      BY <2>1, <2>3, OwnedAnnounced
  <2> HIDE DEF g
  <2>5. QED
    BY <2>2, <2>4, OwnedStep
<1>4. CASE InstallRotation(d, m) \/ MissRotation(d, m)
  <2>1. /\ view' = [view EXCEPT ![d] = AfterRotation(d, m)] /\ UNCHANGED msgs
        /\ m.type = "KeyRotation" /\ HasPermission(view[d], m.from, "RemoveMembers")
    BY <1>4 DEF InstallRotation, MissRotation, RotationAccepted
  <2>2. Owned(view[d].row)
    BY <2>1, FrameParts, NoGroupFacts DEF OwnedInv
  <2>3. Owned(AfterRotation(d, m).row)
    BY <2>1, <2>2, FrameParts, OwnedChange DEF AfterRotation, RotationRemoves, CanRemoveMember
  <2>4. QED
    BY <2>1, <2>3, OwnedStep
<1>5. CASE ReceiveRoleChange(d, m)
  <2> DEFINE g == ApplyRoleChange(view[d], m.member, m.role, m.version)
  <2>1. /\ m.member \in Device /\ ~IsOwner(view[d], m.member) /\ HasMember(view[d], m.member)
    BY <1>5, FrameParts DEF ReceiveRoleChange, CanApplyRoleChange
  <2>2. view' = [view EXCEPT ![d] = g] /\ UNCHANGED msgs
    BY <1>5 DEF ReceiveRoleChange, TypeOK
  <2>3. Owned(view[d].row)
    BY <2>1, NoGroupFacts DEF OwnedInv
  <2>4. Owned(g.row)
    BY <2>1, <2>3, OwnedChange
  <2> HIDE DEF g
  <2>5. QED
    BY <2>2, <2>4, OwnedStep
<1>6. CASE ReceiveOwnershipTransfer(d, m)
  <2> DEFINE g == SwapOwner(view[d], m.from, m.to, Newer(view[d].version, m.version))
  <2>1. m.from \in Device /\ m.to \in Device /\ CanTransfer(view[d], m.from, m.to)
    BY <1>6, FrameParts DEF ReceiveOwnershipTransfer
  <2>2. view' = [view EXCEPT ![d] = g] /\ UNCHANGED msgs
    BY <1>6 DEF ReceiveOwnershipTransfer, TypeOK
  <2>3. Owned(g.row)
    BY <2>1, OwnedSwap
  <2> HIDE DEF g
  <2>4. QED
    BY <2>2, <2>3, OwnedStep
<1>7. CASE \/ RejectRequestJoin(d, m) \/ FailJoinAccepted(d, m)
           \/ ReceiveJoinRejected(d, m) \/ LearnOwnRemoval(d, m)
           \/ ReceiveGroupMessage(d, m) \/ ReceiveMessageAck(d, m)
  <2>1. UNCHANGED view /\ \A f \in msgs' \ msgs : f.type # "JoinAccepted"
    BY <1>7 DEF RejectRequestJoin, FailJoinAccepted, ReceiveJoinRejected,
                LearnOwnRemoval, ReceiveGroupMessage, ReceiveMessageAck, Publish
  <2>2. QED
    BY <2>1, OwnedFrame
<1>8. QED
    BY <1>1, <1>2, <1>3, <1>4, <1>5, <1>6, <1>7 DEF Receive

LEMMA SyncStepOwned ==
    ASSUME SyncTypeOK, OwnedInv, NEW d \in Device, SyncStep(d)
    PROVE  OwnedInv'
<1> TypeOK /\ view[d] \in Group
    BY DEF SyncTypeOK, TypeOK
<1>1. CASE RequestStateSync(d)
  <2>1. UNCHANGED <<view, msgs>> /\ \A f \in sync' \ sync : f.type # "StateSyncResponse"
    BY <1>1 DEF RequestStateSync, vars
  <2>2. QED
    BY <2>1, OwnedFrame
<1>2. ASSUME NEW m \in sync, ProcessRequestStateSync(d, m) PROVE OwnedInv'
  <2>1. m.from \in Device
    BY SyncParts DEF SyncTypeOK
  <2>2. Answered(d, m.from).row = Snapshot(view[d], Active(view[d]))
    BY <2>1, AnsweredType
  <2>3. /\ sync' = sync \cup {Answered(d, m.from)} /\ UNCHANGED <<view, msgs>>
        /\ IsActive(view[d], d)
    BY <1>2, ProcessStep DEF vars
  <2>4. Owned(view[d].row)
    BY <2>3, NoGroupFacts DEF OwnedInv
  <2>5. Owned(Snapshot(view[d], Active(view[d])))
    <3>1. Active(view[d]) \in SUBSET Device
      BY DEF Active
    <3>2. QED
      BY <2>4, <3>1, OwnedSnapshot
  <2>6. \A f \in sync' \ sync : Owned(f.row)
    BY <2>2, <2>3, <2>5
  <2>7. QED
    BY <2>3, <2>6, OwnedFrame
<1>3. ASSUME NEW m \in sync, ReceiveStateSync(d, m) PROVE OwnedInv'
  <2> DEFINE g == ApplyStateSync(view[d], m.row, m.version)
  <2>1. /\ m.row \in [Device -> Row] /\ m.version \in Nat /\ Owned(m.row)
    BY <1>3, SyncParts DEF SyncTypeOK, ReceiveStateSync, OwnedInv
  <2>2. Owned(g.row)
    BY <2>1, OwnedApply
  <2>3. view' = [view EXCEPT ![d] = g] /\ UNCHANGED <<msgs, sync>>
    BY <1>3 DEF ReceiveStateSync, TypeOK
  <2> HIDE DEF g
  <2>4. QED
    BY <2>2, <2>3, OwnedStep
<1>4. CASE LeaveGroup(d)
  <2> DEFINE r == IF HasMember(view[d], d) THEN SetStatus(view[d].row[d], "Left") ELSE view[d].row[d]
             g == PutRow(view[d], d, r, view[d].version + 1)
  <2>1. Owned(view[d].row) /\ ~IsOwner(view[d], d)
    BY <1>4, NoGroupFacts DEF LeaveGroup, OwnedInv, HasGroup
  <2>2. Owned(g.row)
    <3> HIDE DEF r
    <3>1. QED
      BY <2>1, OwnedPut
  <2>3. view' = [view EXCEPT ![d] = g] /\ UNCHANGED <<msgs, sync>>
    BY <1>4 DEF LeaveGroup, TypeOK
  <2> HIDE DEF g
  <2>4. QED
    BY <2>2, <2>3, OwnedStep
<1>5. CASE UpdateGroupSettings(d)
  <2> DEFINE g == [view[d] EXCEPT !.version = @ + 1]
  <2>1. Owned(view[d].row)
    BY <1>5, NoGroupFacts DEF UpdateGroupSettings, OwnedInv, HasGroup
  <2>2. g.row = view[d].row
    BY DEF Group
  <2>3. view' = [view EXCEPT ![d] = g] /\ UNCHANGED <<msgs, sync>>
    BY <1>5 DEF UpdateGroupSettings, TypeOK
  <2> HIDE DEF g
  <2>4. QED
    BY <2>1, <2>2, <2>3, OwnedStep
<1>6. QED
    BY <1>1, <1>2, <1>3, <1>4, <1>5 DEF SyncStep

\* No record is ever without an Active Owner: not after a snapshot older than
\* a transfer, nor after one whose Owner the receiver had recorded as removed,
\* and whatever roles promote_member hands out.
THEOREM AlwaysOwned == SyncSpec => []NeverOwnerless
<1>1. SyncInit => OwnedInv
  <2>1. SUFFICES ASSUME SyncInit PROVE OwnedInv
    OBVIOUS
  <2>2. Owned(FoundedGroup.row)
    BY FoundedType, CreatorAssumption DEF Owned
  <2>3. QED
    BY <2>1, <2>2 DEF SyncInit, OwnedInv
<1>2. SyncTypeOK /\ OwnedInv /\ [SyncNext]_syncVars => OwnedInv'
  <2>1. SUFFICES ASSUME SyncTypeOK, OwnedInv, [SyncNext]_syncVars PROVE OwnedInv'
    OBVIOUS
  <2>2. CASE Next /\ UNCHANGED sync
    BY <2>1, <2>2, LocalOwned, ReceiveOwned DEF Next, SyncTypeOK
  <2>3. CASE \E d \in Device : SyncStep(d)
    BY <2>1, <2>3, SyncStepOwned
  <2>4. CASE UNCHANGED syncVars
    BY <2>1, <2>4 DEF syncVars, vars, OwnedInv
  <2>5. QED
    BY <2>1, <2>2, <2>3, <2>4 DEF SyncNext
<1>3. OwnedInv => NeverOwnerless
    BY NoGroupFacts DEF OwnedInv, NeverOwnerless, Owned, HasGroup, Active, IsActive, IsOwner
<1>4. QED
    BY SyncTypeCorrect, <1>1, <1>2, <1>3, PTL DEF SyncSpec

--------------------------------------------------------------------------------
\* A response restores the chat

\* A snapshot names the member that answered: it looked itself up first.
ResponderNamed ==
    \A m \in sync : m.type = "StateSyncResponse" => m.row[m.from] # NoRow

LEMMA ResponderStep == SyncTypeOK /\ ResponderNamed /\ [SyncNext]_syncVars => ResponderNamed'
<1>1. SUFFICES ASSUME SyncTypeOK, ResponderNamed, [SyncNext]_syncVars PROVE ResponderNamed'
    OBVIOUS
<1>2. CASE UNCHANGED sync
    BY <1>1, <1>2 DEF ResponderNamed
<1>3. ASSUME NEW d \in Device, RequestStateSync(d) PROVE ResponderNamed'
    BY <1>1, <1>3 DEF RequestStateSync, ResponderNamed
<1>4. ASSUME NEW d \in Device, NEW m \in sync, ProcessRequestStateSync(d, m) PROVE ResponderNamed'
  <2>1. m.from \in Device
    BY <1>1, SyncParts DEF SyncTypeOK
  <2> DEFINE f == Answered(d, m.from)
  <2>2. f.row = Snapshot(view[d], Active(view[d])) /\ f.from = d
    BY <1>1, <2>1, AnsweredType DEF SyncTypeOK
  <2>3. sync' = sync \cup {f} /\ IsActive(view[d], d)
    BY <1>4, ProcessStep
  <2> HIDE DEF f
  <2>4. f.row[d] # NoRow
    BY <2>2, <2>3, NoRowType DEF Snapshot, Active, SetStatus
  <2>5. QED
    BY <1>1, <2>2, <2>3, <2>4 DEF ResponderNamed
<1>5. CASE \E d \in Device : (\E m \in sync : ReceiveStateSync(d, m)) \/ LeaveGroup(d) \/ UpdateGroupSettings(d)
    BY <1>2, <1>5 DEF ReceiveStateSync, LeaveGroup, UpdateGroupSettings
<1>6. QED
    BY <1>1, <1>2, <1>3, <1>4, <1>5 DEF SyncNext, SyncStep, syncVars

\* A member that was away or restarted, and applies a response its sender has
\* not outgrown, reads what the responder sends next: the key, the generation
\* and the responder's place in the roster all fit afterwards.
THEOREM SyncRestores == SyncSpec => SyncRestoresChat
<1> DEFINE Fits(d, m) ==
              /\ ReceiveStateSync(d, m)
              /\ view[m.from].version = m.version /\ key[m.from] = m.key
              /\ view[d].version <= m.version
              /\ m.kem = secret[d] /\ m.kem # 0
           NextMessage(m) == [type |-> "GroupMessage", from |-> m.from,
                        gen |-> view[m.from].version, key |-> key[m.from]]
<1>1. SyncInit => ResponderNamed
    BY DEF SyncInit, ResponderNamed
<1>2. SyncTypeOK /\ ResponderNamed =>
          \A d \in Device : \A m \in sync : Fits(d, m) => Decrypts(d, NextMessage(m))'
  <2>1. SUFFICES ASSUME SyncTypeOK, ResponderNamed, NEW d \in Device, NEW m \in sync, Fits(d, m)
                 PROVE  Decrypts(d, NextMessage(m))'
    OBVIOUS
  <2> DEFINE g == ApplyStateSync(view[d], m.row, m.version)
  <2>2. /\ m.from \in Device /\ m.row \in [Device -> Row] /\ m.version \in Nat
        /\ m.row[m.from] # NoRow /\ view[d] \in Group
    BY <2>1, SyncParts DEF SyncTypeOK, TypeOK, ReceiveStateSync, ResponderNamed
  <2>3. /\ g.version = Newer(view[d].version, m.version)
        /\ g.row[m.from] = SyncRow(view[d].row[m.from], m.row[m.from])
    BY <2>2, ApplyParts
  <2>4. view' = [view EXCEPT ![d] = g] /\ key' = [key EXCEPT ![d] = m.key]
    BY <2>1 DEF ReceiveStateSync, SyncTypeOK, TypeOK
  <2> HIDE DEF g
  <2>5. /\ view'[d] = g /\ key'[d] = m.key
        /\ m.from # d => view'[m.from] = view[m.from] /\ key'[m.from] = key[m.from]
    BY <2>1, <2>2, <2>4 DEF SyncTypeOK, TypeOK
  <2>6. g.version = m.version
    BY <2>1, <2>2, <2>3, GroupParts DEF Newer
  <2>7. IsActive(g, m.from)
    BY <2>2, <2>3 DEF SyncRow, IsActive
  <2>8. key'[m.from] = m.key /\ view'[m.from].version = m.version
    BY <2>1, <2>5, <2>6
  <2>9. QED
    BY <2>5, <2>6, <2>7, <2>8 DEF Decrypts
<1>3. SyncTypeOK /\ ResponderNamed /\ [SyncNext]_syncVars =>
          [\A d \in Device : \A m \in sync : Fits(d, m) => Decrypts(d, NextMessage(m))']_syncVars
    BY <1>2
<1>4. QED
    BY SyncTypeCorrect, ResponderStep, <1>1, <1>3, PTL DEF SyncSpec, SyncRestoresChat
================================================================================
