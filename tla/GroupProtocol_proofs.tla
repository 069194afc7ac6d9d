-------------------------- MODULE GroupProtocol_proofs --------------------------
(***************************************************************************)
(* Theorems about GroupProtocol, for every set of devices, every bound and *)
(* every choice of user operations.                                        *)
(***************************************************************************)
EXTENDS GroupProtocol, GroupView_proofs, FiniteSetTheorems

--------------------------------------------------------------------------------
\* Type correctness

\* The fields of a frame, by its type
LEMMA FrameParts ==
    ASSUME NEW m \in Message
    PROVE  /\ m.type = "RequestJoin" =>
                 m.from \in Device /\ m.code \in Device /\ m.kem \in Nat
           /\ m.type = "JoinAccepted" =>
                 /\ m.from \in Device /\ m.to \in Device
                 /\ m.row \in [Device -> Row] /\ m.version \in Nat
                 /\ m.kem \in Nat /\ m.key \in Nat
           /\ m.type = "JoinRejected" => m.from \in Device
           /\ m.type = "MemberAdded" =>
                 /\ m.from \in Device /\ m.member \in Device
                 /\ m.kem \in Nat /\ m.version \in Nat
           /\ m.type = "KeyRotation" =>
                 /\ m.from \in Device /\ m.removed \in Device \cup {NoOne}
                 /\ m.gen \in Nat /\ m.wraps \in [Device -> Nat] /\ m.key \in Nat
           /\ m.type = "RoleChange" =>
                 /\ m.from \in Device /\ m.member \in Device
                 /\ m.role \in Role /\ m.version \in Nat
           /\ m.type = "OwnershipTransfer" =>
                 m.from \in Device /\ m.to \in Device /\ m.version \in Nat
           /\ m.type = "GroupMessage" => m \in Chat
    BY DEF Message, Chat

\* The wrapped copies of a rotation name keypairs.
LEMMA WrapsType ==
    ASSUME NEW g \in Group, NEW d \in Device
    PROVE  Wraps(g, d) \in [Device -> Nat]
    BY GroupParts, RowParts DEF Wraps

\* The initial states are well typed.
LEMMA InitType == Init => TypeOK
<1>1. SUFFICES ASSUME Init PROVE TypeOK
    OBVIOUS
<1>2. view \in [Device -> Group]
    BY <1>1, CreatorAssumption, CreateGroupType, NoGroupType DEF Init
<1>3. QED
    BY <1>1, <1>2 DEF Init, TypeOK

\* What a user or the clock does keeps the types.
LEMMA LocalType ==
    ASSUME TypeOK, NEW d \in Device, Local(d)
    PROVE  TypeOK'
<1>1. CASE CreateInvite(d)
    BY <1>1 DEF CreateInvite, TypeOK
<1>2. CASE ExpireInvite(d)
    BY <1>2 DEF ExpireInvite, TypeOK
<1>3. ASSUME NEW i \in Device, ExpirePending(d, i)
      PROVE  TypeOK'
    BY <1>3 DEF ExpirePending, TypeOK
<1>4. ASSUME NEW i \in Device, AcceptInvite(d, i)
      PROVE  TypeOK'
  <2>1. attempts[d] + 1 \in Nat
    BY DEF TypeOK
  <2>2. [type |-> "RequestJoin", from |-> d, code |-> i,
         kem |-> attempts[d] + 1] \in Message
    BY <2>1 DEF Message
  <2>3. QED
    BY <1>4, <2>1, <2>2 DEF AcceptInvite, Publish, TypeOK
<1>5. ASSUME NEW x \in Device, RemoveMemberOp(d, x)
      PROVE  TypeOK'
  <2> DEFINE g == RemoveMember(view[d], x)
             f == [type |-> "KeyRotation", from |-> d, removed |-> x,
                   gen |-> g.version, wraps |-> Wraps(g, d), key |-> nextKey]
  <2>1. g \in Group
    BY RemoveMemberType DEF TypeOK
  <2>2. f \in Message
    <3>1. g.version \in Nat /\ Wraps(g, d) \in [Device -> Nat] /\ nextKey \in Nat
      BY <2>1, GroupParts, WrapsType DEF TypeOK
    <3>2. QED
      BY <3>1 DEF Message
  <2> HIDE DEF g
  <2>3. /\ view' = [view EXCEPT ![d] = g] /\ msgs' = msgs \cup {f}
        /\ key' = [key EXCEPT ![d] = nextKey] /\ nextKey' = nextKey + 1
        /\ UNCHANGED <<secret, joinVars, inbox>>
    BY <1>5 DEF RemoveMemberOp, Publish, g
  <2>4. QED
    BY <2>1, <2>2, <2>3 DEF TypeOK, joinVars
<1>6. ASSUME NEW x \in Device, NEW role \in AssignableRoles, PromoteMember(d, x, role)
      PROVE  TypeOK'
  <2> DEFINE g == UpdateMemberRole(view[d], x, role)
             f == [type |-> "RoleChange", from |-> d, member |-> x,
                   role |-> role, version |-> g.version]
  <2>1. role \in Role /\ g \in Group
    BY RolesAssumption, UpdateMemberRoleType DEF TypeOK
  <2>2. f \in Message
    BY <2>1, GroupParts DEF Message
  <2> HIDE DEF g
  <2>3. /\ view' = [view EXCEPT ![d] = g] /\ msgs' = msgs \cup {f}
        /\ UNCHANGED <<key, secret, joinVars, inbox, nextKey>>
    BY <1>6 DEF PromoteMember, Publish, g
  <2>4. QED
    BY <2>1, <2>2, <2>3 DEF TypeOK, joinVars
<1>7. ASSUME NEW x \in Device, TransferOwnership(d, x)
      PROVE  TypeOK'
  <2> DEFINE v == view[d].version + 1
             g == SwapOwner(view[d], d, x, v)
             f == [type |-> "OwnershipTransfer", from |-> d, to |-> x, version |-> v]
  <2>1. v \in Nat
    BY GroupParts DEF TypeOK
  <2>2. g \in Group
    BY <1>7, <2>1, SwapOwnerType DEF TypeOK, TransferOwnership
  <2>3. f \in Message
    BY <2>1 DEF Message
  <2>4. /\ view' = [view EXCEPT ![d] = g] /\ msgs' = msgs \cup {f}
        /\ UNCHANGED <<key, secret, joinVars, inbox, nextKey>>
    BY <1>7 DEF TransferOwnership, Publish
  <2> HIDE DEF g, f
  <2>5. QED
    BY <2>2, <2>3, <2>4 DEF TypeOK, joinVars
<1>8. CASE SendGroupMessage(d)
  <2>1. [type |-> "GroupMessage", from |-> d, gen |-> view[d].version,
         key |-> key[d]] \in Message
    BY GroupParts DEF TypeOK, Message, Chat
  <2>2. QED
    BY <1>8, <2>1 DEF SendGroupMessage, Publish, TypeOK, joinVars
<1>9. CASE Restart(d)
    BY <1>9 DEF Restart, TypeOK
<1>10. QED
    BY <1>1, <1>2, <1>3, <1>4, <1>5, <1>6, <1>7, <1>8, <1>9 DEF Local, Members

\* Handling a frame keeps the types.
LEMMA ReceiveType ==
    ASSUME TypeOK, NEW d \in Device, NEW m \in msgs, Receive(d, m)
    PROVE  TypeOK'
<1> m \in Message
    BY DEF TypeOK
<1>1. CASE AcceptRequestJoin(d, m)
  <2> DEFINE g == SetMemberKyberPub(AddMember(view[d], m.from), m.from, m.kem)
             k == IF key[d] = 0 THEN nextKey ELSE key[d]
             f1 == [type |-> "JoinAccepted", from |-> d, to |-> m.from,
                    row |-> Snapshot(g, Members(g)), version |-> g.version,
                    kem |-> m.kem, key |-> k]
             f2 == [type |-> "MemberAdded", from |-> d, member |-> m.from,
                    kem |-> m.kem, version |-> g.version]
  <2>1. m.from \in Device /\ m.kem \in Nat
    BY <1>1, FrameParts DEF AcceptRequestJoin
  <2>2. g \in Group
    <3>1. AddMember(view[d], m.from) \in Group
      BY <2>1, AddMemberType DEF TypeOK
    <3>2. HasMember(AddMember(view[d], m.from), m.from)
      BY <2>1, GroupParts DEF TypeOK, AddMember, PutRow, HasMember
    <3>3. QED
      BY <2>1, <3>1, <3>2, SetMemberKyberPubType
  <2>3. k \in Nat
    BY DEF TypeOK
  <2>4. f1 \in Message /\ f2 \in Message
    <3>1. Snapshot(g, Members(g)) \in [Device -> Row] /\ g.version \in Nat
      BY <2>2, SnapshotType, GroupParts
    <3>2. QED
      BY <2>1, <2>3, <3>1 DEF Message
  <2>5. /\ view' = [view EXCEPT ![d] = g] /\ key' = [key EXCEPT ![d] = k]
        /\ nextKey' = IF key[d] = 0 THEN nextKey + 1 ELSE nextKey
        /\ msgs' = msgs \cup {f1, f2}
        /\ uses' = [uses EXCEPT ![d] = @ + 1]
        /\ UNCHANGED <<secret, attempts, pending, receipt, invite, inbox>>
    BY <1>1 DEF AcceptRequestJoin, Publish
  <2> HIDE DEF g, k, f1, f2
  <2>6. QED
    BY <2>2, <2>3, <2>4, <2>5 DEF TypeOK
<1>2. CASE RejectRequestJoin(d, m)
  <2>1. [type |-> "JoinRejected", from |-> d, to |-> m.from,
         kem |-> m.kem] \in Message
    BY <1>2, FrameParts DEF RejectRequestJoin, Message
  <2>2. QED
    BY <1>2, <2>1 DEF RejectRequestJoin, Publish, TypeOK, joinVars
<1>3. CASE ReceiveJoinAccepted(d, m)
  <2>1. m.from \in Device /\ m.kem \in Nat /\ m.key \in Nat
        /\ [row |-> m.row, version |-> m.version] \in Group
    BY <1>3, FrameParts DEF ReceiveJoinAccepted, TakesJoinAccepted, Group
  <2>2. QED
    BY <1>3, <2>1 DEF ReceiveJoinAccepted, TypeOK
<1>4. CASE FailJoinAccepted(d, m)
    BY <1>4, FrameParts DEF FailJoinAccepted, TakesJoinAccepted, TypeOK
<1>5. CASE ReceiveJoinRejected(d, m)
    BY <1>5, FrameParts DEF ReceiveJoinRejected, TypeOK
<1>6. CASE ReceiveMemberAdded(d, m)
  <2> DEFINE r == [status |-> "Active", role |-> "Member", kem |-> m.kem]
             g == ApplyMemberAdded(view[d], m.member, r, m.version)
  <2>1. r \in Row
    BY <1>6, FrameParts, MemberRowType, RoleNames DEF ReceiveMemberAdded, Status
  <2>2. g \in Group
    BY <1>6, <2>1, FrameParts, ApplyMemberAddedType DEF ReceiveMemberAdded, TypeOK
  <2>3. /\ view' = [view EXCEPT ![d] = g]
        /\ UNCHANGED <<key, secret, joinVars, msgs, inbox, nextKey>>
    BY <1>6 DEF ReceiveMemberAdded, TypeOK
  <2> HIDE DEF g
  <2>4. QED
    BY <2>2, <2>3 DEF TypeOK, joinVars
<1>7. m.type = "KeyRotation" => AfterRotation(d, m) \in Group /\ m.key \in Nat
    BY FrameParts, RemoveMemberType DEF AfterRotation, RotationRemoves, TypeOK
<1>8. CASE InstallRotation(d, m)
    BY <1>7, <1>8 DEF InstallRotation, RotationAccepted, TypeOK, joinVars
<1>9. CASE MissRotation(d, m)
    BY <1>7, <1>9 DEF MissRotation, RotationAccepted, TypeOK, joinVars
<1>10. CASE LearnOwnRemoval(d, m)
    BY <1>10 DEF LearnOwnRemoval, TypeOK, joinVars
<1>11. CASE ReceiveRoleChange(d, m)
  <2> DEFINE g == ApplyRoleChange(view[d], m.member, m.role, m.version)
  <2>1. g \in Group
    BY <1>11, FrameParts, ApplyRoleChangeType
       DEF ReceiveRoleChange, CanApplyRoleChange, TypeOK
  <2>2. /\ view' = [view EXCEPT ![d] = g]
        /\ UNCHANGED <<key, secret, joinVars, msgs, inbox, nextKey>>
    BY <1>11 DEF ReceiveRoleChange, TypeOK
  <2> HIDE DEF g
  <2>3. QED
    BY <2>1, <2>2 DEF TypeOK, joinVars
<1>12. CASE ReceiveOwnershipTransfer(d, m)
  <2> DEFINE v == Newer(view[d].version, m.version)
             g == SwapOwner(view[d], m.from, m.to, v)
  <2>1. m.from \in Device /\ m.to \in Device /\ v \in Nat
    BY <1>12, FrameParts, GroupParts, NewerType
       DEF ReceiveOwnershipTransfer, TypeOK
  <2>2. g \in Group
    BY <1>12, <2>1, SwapOwnerType DEF ReceiveOwnershipTransfer, TypeOK
  <2>3. /\ view' = [view EXCEPT ![d] = g]
        /\ UNCHANGED <<key, secret, joinVars, msgs, inbox, nextKey>>
    BY <1>12 DEF ReceiveOwnershipTransfer, TypeOK
  <2> HIDE DEF g
  <2>4. QED
    BY <2>2, <2>3 DEF TypeOK, joinVars
<1>13. CASE ReceiveGroupMessage(d, m)
  <2>1. [type |-> "MessageAck", from |-> d, of |-> m] \in Message
    BY <1>13, FrameParts DEF ReceiveGroupMessage, Message
  <2>2. QED
    BY <1>13, <2>1 DEF ReceiveGroupMessage, Publish, TypeOK, joinVars
<1>14. CASE ReceiveMessageAck(d, m)
    BY <1>14 DEF ReceiveMessageAck, TypeOK, joinVars
<1>15. QED
    BY <1>1, <1>2, <1>3, <1>4, <1>5, <1>6, <1>8, <1>9, <1>10, <1>11, <1>12,
       <1>13, <1>14 DEF Receive

\* Every reachable state of the protocol is well typed: in particular an
\* Absent row carries no role and no key, whatever frame arrived when.
THEOREM TypeCorrect == Spec => []TypeOK
<1>1. TypeOK /\ [Next]_vars => TypeOK'
  <2>1. SUFFICES ASSUME TypeOK, [Next]_vars PROVE TypeOK'
    OBVIOUS
  <2>2. CASE Next
    BY <2>1, <2>2, LocalType, ReceiveType DEF Next
  <2>3. CASE UNCHANGED vars
    BY <2>1, <2>3 DEF vars, TypeOK
  <2>4. QED
    BY <2>1, <2>2, <2>3
<1>2. QED
    BY InitType, <1>1, PTL DEF Spec

--------------------------------------------------------------------------------
\* One Owner per record

\* A device has no record or one with a single Active Owner.
OwnedViews == \A d \in Device : view[d] = NoGroup \/ SoleOwner(view[d])

\* Every snapshot on the wire has a single Active Owner, since a joiner makes
\* it its record unseen.
OwnedSnapshots ==
    \A m \in msgs : m.type = "JoinAccepted" =>
        SoleOwner([row |-> m.row, version |-> m.version])

\* No role change on the wire makes an Owner: a receiver does not check this.
NoOwnerByRoleChange == \A m \in msgs : m.type = "RoleChange" => m.role # "Owner"

\* The inductive strengthening of OneOwner
OwnerInv == OwnedViews /\ OwnedSnapshots /\ NoOwnerByRoleChange

\* A device without a record has no member, no owner and no permission in it.
LEMMA NoGroupFacts ==
    ASSUME NEW d \in Device, NEW p
    PROVE  /\ NoGroup.version = 0 /\ ~HasMember(NoGroup, d)
           /\ ~IsOwner(NoGroup, d) /\ ~IsActive(NoGroup, d)
           /\ ~HasPermission(NoGroup, d, p)
    BY NoRowType DEF NoGroup, HasMember, IsOwner, IsActive, HasPermission

\* What a user or the clock does keeps the owner invariant.
LEMMA LocalOwner ==
    ASSUME TypeOK, OwnerInv, "Owner" \notin AssignableRoles,
           NEW d \in Device, Local(d)
    PROVE  OwnerInv'
<1> USE DEF OwnerInv
<1>1. CASE \/ CreateInvite(d) \/ ExpireInvite(d) \/ Restart(d)
           \/ \E i \in Device : ExpirePending(d, i)
    BY <1>1 DEF CreateInvite, ExpireInvite, Restart, ExpirePending, OwnedViews,
                OwnedSnapshots, NoOwnerByRoleChange
<1>2. ASSUME NEW i \in Device, AcceptInvite(d, i)
      PROVE  OwnerInv'
    BY <1>2 DEF AcceptInvite, Publish, OwnedViews, OwnedSnapshots,
                NoOwnerByRoleChange
<1>3. ASSUME NEW x \in Device, RemoveMemberOp(d, x)
      PROVE  OwnerInv'
  <2>1. view[d] \in Group /\ SoleOwner(view[d]) /\ ~IsOwner(view[d], x)
    BY <1>3, NoGroupFacts
       DEF RemoveMemberOp, CanRemoveMember, OwnedViews, TypeOK
  <2>2. SoleOwner(RemoveMember(view[d], x))
    BY <2>1, RemoveMemberOwner
  <2>3. OwnedViews'
    BY <1>3, <2>2 DEF RemoveMemberOp, OwnedViews, TypeOK
  <2>4. OwnedSnapshots' /\ NoOwnerByRoleChange'
    BY <1>3 DEF RemoveMemberOp, Publish, OwnedSnapshots, NoOwnerByRoleChange
  <2>5. QED
    BY <2>3, <2>4
<1>4. ASSUME NEW x \in Device, NEW role \in AssignableRoles, PromoteMember(d, x, role)
      PROVE  OwnerInv'
  <2>1. /\ view[d] \in Group /\ SoleOwner(view[d]) /\ ~IsOwner(view[d], x)
        /\ role \in Role /\ role # "Owner"
    BY <1>4, NoGroupFacts, RolesAssumption
       DEF PromoteMember, CanUpdateMemberRole, OwnedViews, TypeOK
  <2>2. SoleOwner(UpdateMemberRole(view[d], x, role))
    BY <2>1, UpdateMemberRoleOwner
  <2>3. OwnedViews'
    BY <1>4, <2>2 DEF PromoteMember, OwnedViews, TypeOK
  <2>4. OwnedSnapshots' /\ NoOwnerByRoleChange'
    BY <1>4, <2>1
       DEF PromoteMember, Publish, OwnedSnapshots, NoOwnerByRoleChange
  <2>5. QED
    BY <2>3, <2>4
<1>5. ASSUME NEW x \in Device, TransferOwnership(d, x)
      PROVE  OwnerInv'
  <2> DEFINE g == SwapOwner(view[d], d, x, view[d].version + 1)
  <2>1. view[d] \in Group /\ SoleOwner(view[d]) /\ CanTransfer(view[d], d, x)
    BY <1>5, NoGroupFacts DEF TransferOwnership, CanTransfer, OwnedViews, TypeOK
  <2>2. SoleOwner(g)
    BY <2>1, GroupParts, SwapOwnerOwner
  <2>3. view' = [view EXCEPT ![d] = g]
    BY <1>5 DEF TransferOwnership
  <2>4. OwnedViews'
    <3> HIDE DEF g
    <3>1. QED
      BY <2>2, <2>3 DEF OwnedViews, TypeOK
  <2>5. OwnedSnapshots' /\ NoOwnerByRoleChange'
    BY <1>5 DEF TransferOwnership, Publish, OwnedSnapshots, NoOwnerByRoleChange
  <2>6. QED
    BY <2>4, <2>5
<1>6. CASE SendGroupMessage(d)
    BY <1>6 DEF SendGroupMessage, Publish, OwnedViews, OwnedSnapshots,
                NoOwnerByRoleChange
<1>7. QED
    BY <1>1, <1>2, <1>3, <1>4, <1>5, <1>6 DEF Local, Members

\* Handling a frame keeps the owner invariant.
LEMMA ReceiveOwner ==
    ASSUME TypeOK, OwnerInv, NEW d \in Device, NEW m \in msgs, Receive(d, m)
    PROVE  OwnerInv'
<1> USE DEF OwnerInv
<1> m \in Message /\ view[d] \in Group
    BY DEF TypeOK
<1>1. CASE AcceptRequestJoin(d, m)
  <2> DEFINE a == AddMember(view[d], m.from)
             g == SetMemberKyberPub(a, m.from, m.kem)
             s == Snapshot(g, Members(g))
  <2>1. m.from \in Device /\ m.kem \in Nat /\ SoleOwner(view[d])
        /\ ~HasMember(view[d], m.from)
    BY <1>1, FrameParts, NoGroupFacts
       DEF AcceptRequestJoin, CanAddMember, OwnedViews
  <2>2. a \in Group /\ HasMember(a, m.from) /\ SoleOwner(a)
    BY <2>1, AddMemberType, AddMemberOwner, GroupParts
       DEF AddMember, PutRow, HasMember
  <2>3. g \in Group /\ SoleOwner(g)
    <3> HIDE DEF a
    <3>1. QED
      BY <2>1, <2>2, SetMemberKyberPubType, SetMemberKyberPubOwner
  <2>4. SoleOwner([row |-> s, version |-> g.version])
    <3> HIDE DEF g
    <3>1. QED
      BY <2>3, SnapshotOwner, GroupParts
  <2>5. /\ view' = [view EXCEPT ![d] = g]
        /\ \A f \in msgs' \ msgs :
              f.type = "JoinAccepted" => f.row = s /\ f.version = g.version
        /\ \A f \in msgs' \ msgs : f.type # "RoleChange"
    BY <1>1 DEF AcceptRequestJoin, Publish
  <2> HIDE DEF g, s
  <2>6. OwnedViews'
    BY <2>3, <2>5 DEF OwnedViews, TypeOK
  <2>7. OwnedSnapshots'
    BY <2>4, <2>5 DEF OwnedSnapshots
  <2>8. NoOwnerByRoleChange'
    BY <2>5 DEF NoOwnerByRoleChange
  <2>9. QED
    BY <2>6, <2>7, <2>8
<1>2. CASE RejectRequestJoin(d, m)
    BY <1>2 DEF RejectRequestJoin, Publish, OwnedViews, OwnedSnapshots,
                NoOwnerByRoleChange
<1>3. CASE ReceiveJoinAccepted(d, m)
  <2> DEFINE g == [row |-> m.row, version |-> m.version]
  <2>1. SoleOwner(g)
    BY <1>3 DEF ReceiveJoinAccepted, TakesJoinAccepted, OwnedSnapshots
  <2>2. view' = [view EXCEPT ![d] = g] /\ UNCHANGED msgs
    BY <1>3 DEF ReceiveJoinAccepted
  <2> HIDE DEF g
  <2>3. QED
    BY <2>1, <2>2 DEF OwnedViews, OwnedSnapshots, NoOwnerByRoleChange, TypeOK
<1>4. CASE FailJoinAccepted(d, m) \/ ReceiveJoinRejected(d, m) \/ LearnOwnRemoval(d, m)
    BY <1>4 DEF FailJoinAccepted, ReceiveJoinRejected, LearnOwnRemoval, OwnedViews,
                OwnedSnapshots, NoOwnerByRoleChange
<1>5. CASE ReceiveMemberAdded(d, m)
  <2> DEFINE r == [status |-> "Active", role |-> "Member", kem |-> m.kem]
             g == ApplyMemberAdded(view[d], m.member, r, m.version)
  <2>1. /\ m.member \in Device /\ m.version \in Nat /\ r \in Row /\ r.role # "Owner"
        /\ ~HasMember(view[d], m.member) /\ SoleOwner(view[d])
    BY <1>5, FrameParts, MemberRowType, RoleNames, NoGroupFacts
       DEF ReceiveMemberAdded, Status, OwnedViews
  <2>2. SoleOwner(g)
    <3> HIDE DEF r
    <3>1. QED
      BY <2>1, ApplyMemberAddedOwner
  <2>3. view' = [view EXCEPT ![d] = g] /\ UNCHANGED msgs
    BY <1>5 DEF ReceiveMemberAdded, TypeOK
  <2> HIDE DEF g
  <2>4. QED
    BY <2>2, <2>3 DEF OwnedViews, OwnedSnapshots, NoOwnerByRoleChange, TypeOK
<1>6. CASE InstallRotation(d, m) \/ MissRotation(d, m)
  <2>1. m.type = "KeyRotation" /\ SoleOwner(view[d])
    BY <1>6, FrameParts, NoGroupFacts
       DEF InstallRotation, MissRotation, RotationAccepted, OwnedViews, HasGroup
  <2>2. SoleOwner(AfterRotation(d, m))
    BY <2>1, FrameParts, RemoveMemberOwner
       DEF AfterRotation, RotationRemoves, CanRemoveMember
  <2>3. view' = [view EXCEPT ![d] = AfterRotation(d, m)] /\ UNCHANGED msgs
    BY <1>6 DEF InstallRotation, MissRotation
  <2>4. QED
    BY <2>2, <2>3 DEF OwnedViews, OwnedSnapshots, NoOwnerByRoleChange, TypeOK
<1>7. CASE ReceiveRoleChange(d, m)
  <2> DEFINE g == ApplyRoleChange(view[d], m.member, m.role, m.version)
  <2>1. /\ m.member \in Device /\ m.role \in Role /\ m.version \in Nat
        /\ m.role # "Owner" /\ ~IsOwner(view[d], m.member) /\ SoleOwner(view[d])
    BY <1>7, FrameParts, NoGroupFacts
       DEF ReceiveRoleChange, CanApplyRoleChange, NoOwnerByRoleChange, OwnedViews
  <2>2. SoleOwner(g)
    BY <2>1, ApplyRoleChangeOwner
  <2>3. view' = [view EXCEPT ![d] = g] /\ UNCHANGED msgs
    BY <1>7 DEF ReceiveRoleChange, TypeOK
  <2> HIDE DEF g
  <2>4. QED
    BY <2>2, <2>3 DEF OwnedViews, OwnedSnapshots, NoOwnerByRoleChange, TypeOK
<1>8. CASE ReceiveOwnershipTransfer(d, m)
  <2> DEFINE v == Newer(view[d].version, m.version)
             g == SwapOwner(view[d], m.from, m.to, v)
  <2>1. /\ m.from \in Device /\ m.to \in Device /\ v \in Nat
        /\ CanTransfer(view[d], m.from, m.to) /\ SoleOwner(view[d])
    BY <1>8, FrameParts, GroupParts, NewerType, NoGroupFacts
       DEF ReceiveOwnershipTransfer, CanTransfer, OwnedViews
  <2>2. SoleOwner(g)
    BY <2>1, SwapOwnerOwner
  <2>3. view' = [view EXCEPT ![d] = g] /\ UNCHANGED msgs
    BY <1>8 DEF ReceiveOwnershipTransfer, TypeOK
  <2> HIDE DEF g
  <2>4. QED
    BY <2>2, <2>3 DEF OwnedViews, OwnedSnapshots, NoOwnerByRoleChange, TypeOK
<1>9. CASE ReceiveGroupMessage(d, m) \/ ReceiveMessageAck(d, m)
    BY <1>9 DEF ReceiveGroupMessage, ReceiveMessageAck, Publish, OwnedViews,
                OwnedSnapshots, NoOwnerByRoleChange
<1>10. QED
    BY <1>1, <1>2, <1>3, <1>4, <1>5, <1>6, <1>7, <1>8, <1>9 DEF Receive

\* As long as no caller asks promote_member for the role Owner (the app's role
\* picker does not offer it), every record names exactly one Owner, an Active
\* one, whatever frames are lost, repeated or reordered.
THEOREM SingleOwner ==
    ASSUME "Owner" \notin AssignableRoles
    PROVE  Spec => []OneOwner
<1>1. Init => OwnerInv
  <2>1. SUFFICES ASSUME Init PROVE OwnerInv
    OBVIOUS
  <2>2. OwnedViews
    BY <2>1, CreateGroupOwner DEF Init, OwnedViews
  <2>3. OwnedSnapshots /\ NoOwnerByRoleChange
    BY <2>1 DEF Init, OwnedSnapshots, NoOwnerByRoleChange
  <2>4. QED
    BY <2>2, <2>3 DEF OwnerInv
<1>2. TypeOK /\ OwnerInv /\ [Next]_vars => OwnerInv'
  <2>1. SUFFICES ASSUME TypeOK, OwnerInv, [Next]_vars PROVE OwnerInv'
    OBVIOUS
  <2>2. CASE Next
    BY <2>1, <2>2, LocalOwner, ReceiveOwner DEF Next
  <2>3. CASE UNCHANGED vars
    BY <2>1, <2>3 DEF vars, OwnerInv, OwnedViews, OwnedSnapshots, NoOwnerByRoleChange
  <2>4. QED
    BY <2>1, <2>2, <2>3
<1>3. OwnerInv => OneOwner
    BY NoGroupFacts DEF OwnerInv, OwnedViews, OneOwner, HasGroup, SoleOwner
<1>4. QED
    BY TypeCorrect, <1>1, <1>2, <1>3, PTL DEF Spec

--------------------------------------------------------------------------------
\* A rotated-in key does not reach the member it was rotated against

Rotations == {m \in msgs : m.type = "KeyRotation"}

Acceptances == {m \in msgs : m.type = "JoinAccepted"}

\* Keys are drawn fresh: no device and no frame holds a future one.
KeysDrawn ==
    /\ \A d \in Device : key[d] < nextKey
    /\ \A m \in Acceptances : m.key < nextKey
    /\ \A m \in Rotations : 0 < m.key /\ m.key < nextKey

\* Every rotation has a key of its own.
RotationsDistinct == \A m, n \in Rotations : m.key = n.key => m = n

\* The removed member is not among the recipients.
RemovedNotWrapped ==
    \A m \in Rotations : m.removed \in Device => m.wraps[m.removed] = 0

\* Who holds a rotation's key drew it, was a recipient, or was admitted with it.
HoldersExplained ==
    \A m \in Rotations : \A d \in Device :
        key[d] = m.key =>
            \/ d = m.from
            \/ m.wraps[d] # 0
            \/ \E j \in Acceptances : j.to = d /\ j.key = m.key

\* The inductive strengthening of RotatedOutCannotRead
KeyInv ==
    KeysDrawn /\ RotationsDistinct /\ RemovedNotWrapped /\ HoldersExplained

\* After remove_member the rotation has no delivery for the removed member.
LEMMA RemovedGetsNoWrap ==
    ASSUME NEW g \in Group, NEW d \in Device, NEW x \in Device
    PROVE  Wraps(RemoveMember(g, x), d)[x] = 0
<1>1. ~IsActive(RemoveMember(g, x), x)
    BY GroupParts DEF RemoveMember, PutRow, SetStatus, HasMember, IsActive
<1>2. QED
    BY <1>1 DEF Wraps, Recipients

\* A step that installs no key, publishes none and draws none keeps KeyInv.
LEMMA KeyInvFrame ==
    ASSUME TypeOK, KeyInv,
           NEW d \in Device, key' = key \/ key' = [key EXCEPT ![d] = 0],
           nextKey' = nextKey, Rotations' = Rotations, Acceptances' = Acceptances
    PROVE  KeyInv'
<1>1. \A e \in Device : key'[e] = key[e] \/ key'[e] = 0
    BY DEF TypeOK
<1>2. \A e \in Device : key'[e] < nextKey'
    BY <1>1 DEF TypeOK, KeyInv, KeysDrawn
<1>3. QED
    BY <1>1, <1>2
       DEF KeyInv, KeysDrawn, RotationsDistinct, RemovedNotWrapped, HoldersExplained

\* What a user or the clock does keeps KeyInv.
LEMMA LocalKey ==
    ASSUME TypeOK, KeyInv, NEW d \in Device, Local(d)
    PROVE  KeyInv'
<1>1. CASE \/ CreateInvite(d) \/ ExpireInvite(d) \/ Restart(d)
           \/ \E i \in Device : ExpirePending(d, i)
    BY <1>1, KeyInvFrame DEF CreateInvite, ExpireInvite, Restart, ExpirePending,
                             Rotations, Acceptances
<1>2. CASE \/ \E i \in Device : AcceptInvite(d, i)
           \/ \E x \in Members(view[d]), role \in AssignableRoles :
                 PromoteMember(d, x, role)
           \/ \E x \in Members(view[d]) : TransferOwnership(d, x)
           \/ SendGroupMessage(d)
  <2>1. /\ UNCHANGED <<key, nextKey>>
        /\ \E f : f.type \notin {"KeyRotation", "JoinAccepted"} /\ msgs' = msgs \cup {f}
    BY <1>2 DEF AcceptInvite, PromoteMember, TransferOwnership, SendGroupMessage, Publish
  <2>2. QED
    BY <2>1, KeyInvFrame DEF Rotations, Acceptances
<1>3. ASSUME NEW x \in Device, RemoveMemberOp(d, x)
      PROVE  KeyInv'
  <2> DEFINE g == RemoveMember(view[d], x)
             f == [type |-> "KeyRotation", from |-> d, removed |-> x,
                   gen |-> g.version, wraps |-> Wraps(g, d), key |-> nextKey]
  <2>1. f.type = "KeyRotation" /\ f.from = d /\ f.key = nextKey
        /\ f.removed = x /\ f.wraps[x] = 0
    BY RemovedGetsNoWrap DEF TypeOK
  <2>2. /\ msgs' = msgs \cup {f} /\ key' = [key EXCEPT ![d] = nextKey]
        /\ nextKey' = nextKey + 1
    BY <1>3 DEF RemoveMemberOp, Publish
  <2> HIDE DEF f
  <2>3. Rotations' = Rotations \cup {f} /\ Acceptances' = Acceptances
    BY <2>1, <2>2 DEF Rotations, Acceptances
  <2>4. /\ nextKey \in Nat \ {0} /\ \A e \in Device : key[e] \in Nat
        /\ \A m \in Rotations \cup Acceptances : m.key \in Nat
        /\ \A e \in Device : key'[e] = IF e = d THEN nextKey ELSE key[e]
    BY <2>2, FrameParts DEF TypeOK, Rotations, Acceptances
  <2>5. KeysDrawn'
    BY <2>1, <2>2, <2>3, <2>4 DEF KeyInv, KeysDrawn
  <2>6. RotationsDistinct'
    BY <2>1, <2>3, <2>4 DEF KeyInv, KeysDrawn, RotationsDistinct
  <2>7. RemovedNotWrapped'
    BY <2>1, <2>3 DEF KeyInv, RemovedNotWrapped
  <2>8. HoldersExplained'
    BY <2>1, <2>3, <2>4 DEF KeyInv, KeysDrawn, HoldersExplained
  <2>9. QED
    BY <2>5, <2>6, <2>7, <2>8 DEF KeyInv
<1>4. QED
    BY <1>1, <1>2, <1>3 DEF Local, Members

\* Handling a frame keeps KeyInv.
LEMMA ReceiveKey ==
    ASSUME TypeOK, KeyInv, NEW d \in Device, NEW m \in msgs, Receive(d, m)
    PROVE  KeyInv'
<1> m \in Message
    BY DEF TypeOK
<1>0. /\ nextKey \in Nat \ {0} /\ \A e \in Device : key[e] \in Nat
      /\ \A n \in Rotations \cup Acceptances : n.key \in Nat
    BY FrameParts DEF TypeOK, Rotations, Acceptances
<1>1. CASE AcceptRequestJoin(d, m)
  <2> DEFINE g == SetMemberKyberPub(AddMember(view[d], m.from), m.from, m.kem)
             k == IF key[d] = 0 THEN nextKey ELSE key[d]
             f1 == [type |-> "JoinAccepted", from |-> d, to |-> m.from,
                    row |-> Snapshot(g, Members(g)), version |-> g.version,
                    kem |-> m.kem, key |-> k]
             f2 == [type |-> "MemberAdded", from |-> d, member |-> m.from,
                    kem |-> m.kem, version |-> g.version]
  <2>1. /\ key' = [key EXCEPT ![d] = k]
        /\ nextKey' = IF key[d] = 0 THEN nextKey + 1 ELSE nextKey
    BY <1>1 DEF AcceptRequestJoin
  <2>2. /\ msgs' = msgs \cup {f1, f2}
        /\ f1.type = "JoinAccepted" /\ f1.key = k
        /\ f2.type = "MemberAdded"
    BY <1>1 DEF AcceptRequestJoin, Publish
  <2> HIDE DEF f1, f2
  <2>3. Rotations' = Rotations /\ Acceptances' = Acceptances \cup {f1}
    BY <2>2 DEF Rotations, Acceptances
  <2>4. \A e \in Device : key'[e] = IF e = d THEN k ELSE key[e]
    BY <2>1 DEF TypeOK
  <2>5. KeysDrawn'
    BY <1>0, <2>1, <2>2, <2>3, <2>4 DEF KeyInv, KeysDrawn
  <2>6. RotationsDistinct' /\ RemovedNotWrapped'
    BY <2>3 DEF KeyInv, RotationsDistinct, RemovedNotWrapped
  <2>7. HoldersExplained'
    BY <1>0, <2>3, <2>4 DEF KeyInv, KeysDrawn, HoldersExplained
  <2>8. QED
    BY <2>5, <2>6, <2>7 DEF KeyInv
<1>2. CASE \/ FailJoinAccepted(d, m) \/ ReceiveJoinRejected(d, m)
           \/ ReceiveMemberAdded(d, m) \/ LearnOwnRemoval(d, m)
           \/ ReceiveRoleChange(d, m) \/ ReceiveOwnershipTransfer(d, m)
           \/ ReceiveMessageAck(d, m)
    BY <1>2, KeyInvFrame
       DEF FailJoinAccepted, ReceiveJoinRejected, ReceiveMemberAdded, LearnOwnRemoval,
           ReceiveRoleChange, ReceiveOwnershipTransfer, ReceiveMessageAck,
           Rotations, Acceptances
<1>3. CASE RejectRequestJoin(d, m) \/ ReceiveGroupMessage(d, m)
  <2>1. /\ UNCHANGED <<key, nextKey>>
        /\ \E f : f.type \notin {"KeyRotation", "JoinAccepted"} /\ msgs' = msgs \cup {f}
    BY <1>3 DEF RejectRequestJoin, ReceiveGroupMessage, Publish
  <2>2. QED
    BY <2>1, KeyInvFrame DEF Rotations, Acceptances
<1>4. CASE ReceiveJoinAccepted(d, m) \/ InstallRotation(d, m)
  <2>1. /\ key' = [key EXCEPT ![d] = m.key] /\ UNCHANGED <<msgs, nextKey>>
        /\ \/ m \in Acceptances /\ m.to = d
           \/ m \in Rotations /\ m.wraps[d] # 0
    BY <1>4 DEF ReceiveJoinAccepted, TakesJoinAccepted, InstallRotation,
                RotationAccepted, CanUnwrap, Rotations, Acceptances
  <2>2. /\ Rotations' = Rotations /\ Acceptances' = Acceptances
        /\ \A e \in Device : key'[e] = IF e = d THEN m.key ELSE key[e]
    BY <2>1 DEF Rotations, Acceptances, TypeOK
  <2>3. KeysDrawn'
    BY <2>1, <2>2 DEF KeyInv, KeysDrawn
  <2>4. RotationsDistinct' /\ RemovedNotWrapped'
    BY <2>2 DEF KeyInv, RotationsDistinct, RemovedNotWrapped
  <2>5. HoldersExplained'
    BY <2>1, <2>2 DEF KeyInv, RotationsDistinct, HoldersExplained
  <2>6. QED
    BY <2>3, <2>4, <2>5 DEF KeyInv
<1>5. CASE MissRotation(d, m)
  <2>1. /\ key' = [key EXCEPT ![d] = nextKey] /\ nextKey' = nextKey + 1
        /\ UNCHANGED msgs
    BY <1>5 DEF MissRotation
  <2>2. /\ Rotations' = Rotations /\ Acceptances' = Acceptances
        /\ \A e \in Device : key'[e] = IF e = d THEN nextKey ELSE key[e]
    BY <2>1 DEF Rotations, Acceptances, TypeOK
  <2>3. KeysDrawn'
    BY <1>0, <2>1, <2>2 DEF KeyInv, KeysDrawn
  <2>4. RotationsDistinct' /\ RemovedNotWrapped'
    BY <2>2 DEF KeyInv, RotationsDistinct, RemovedNotWrapped
  <2>5. HoldersExplained'
    BY <1>0, <2>2 DEF KeyInv, KeysDrawn, HoldersExplained
  <2>6. QED
    BY <2>3, <2>4, <2>5 DEF KeyInv
<1>6. QED
    BY <1>1, <1>2, <1>3, <1>4, <1>5 DEF Receive

\* The key that a removal rotates in reaches the member it removed only if an
\* inviter holding that key admits the member again: no reordering or
\* repetition of rotations, restarts or late joins leads to it.
THEOREM RotatedOut == Spec => []RotatedOutCannotRead
<1>1. Init => KeyInv
  <2>1. SUFFICES ASSUME Init PROVE KeyInv
    OBVIOUS
  <2>2. Rotations = {} /\ Acceptances = {} /\ \A d \in Device : key[d] < nextKey
    BY <2>1 DEF Init, Rotations, Acceptances
  <2>3. QED
    BY <2>2 DEF KeyInv, KeysDrawn, RotationsDistinct, RemovedNotWrapped, HoldersExplained
<1>2. TypeOK /\ KeyInv /\ [Next]_vars => KeyInv'
  <2>1. SUFFICES ASSUME TypeOK, KeyInv, [Next]_vars PROVE KeyInv'
    OBVIOUS
  <2>2. CASE Next
    BY <2>1, <2>2, LocalKey, ReceiveKey DEF Next
  <2>3. CASE UNCHANGED vars
    BY <2>1, <2>3 DEF vars, KeyInv, KeysDrawn, RotationsDistinct, RemovedNotWrapped,
                      HoldersExplained, Rotations, Acceptances
  <2>4. QED
    BY <2>1, <2>2, <2>3
<1>3. KeyInv => RotatedOutCannotRead
    BY DEF KeyInv, RemovedNotWrapped, HoldersExplained, RotatedOutCannotRead,
           Rotations, Acceptances
<1>4. QED
    BY TypeCorrect, <1>1, <1>2, <1>3, PTL DEF Spec

--------------------------------------------------------------------------------
\* A recorded removal is final

\* No member that is Removed in g is anything else in h.
KeepsRemoved(g, h) ==
    \A x \in Device : g.row[x].status = "Removed" => h.row[x].status = "Removed"

\* GroupManager's operations write a Removed row only to change its role or
\* its key: add_member and apply_member_added do not touch a row they find.
LEMMA AddMemberKeepsRemoved ==
    ASSUME NEW g \in Group, NEW m \in Device, NEW k, ~HasMember(g, m)
    PROVE  KeepsRemoved(g, SetMemberKyberPub(AddMember(g, m), m, k))
    BY GroupParts DEF KeepsRemoved, PutRow, HasMember, SetMemberKyberPub, AddMember

\* apply_member_added
LEMMA ApplyMemberAddedKeepsRemoved ==
    ASSUME NEW g \in Group, NEW m \in Device, NEW r, NEW v, ~HasMember(g, m)
    PROVE  KeepsRemoved(g, ApplyMemberAdded(g, m, r, v))
    BY GroupParts DEF KeepsRemoved, PutRow, HasMember, ApplyMemberAdded

\* remove_member
LEMMA RemoveMemberKeepsRemoved ==
    ASSUME NEW g \in Group, NEW m \in Device
    PROVE  KeepsRemoved(g, RemoveMember(g, m))
    BY GroupParts DEF KeepsRemoved, PutRow, RemoveMember, SetStatus

\* update_member_role and apply_role_change
LEMMA RoleKeepsRemoved ==
    ASSUME NEW g \in Group, NEW m \in Device, NEW r, NEW v
    PROVE  /\ KeepsRemoved(g, UpdateMemberRole(g, m, r))
           /\ KeepsRemoved(g, ApplyRoleChange(g, m, r, v))
    BY GroupParts DEF KeepsRemoved, PutRow, UpdateMemberRole, ApplyRoleChange, SetRole

\* transfer_ownership and apply_ownership_transfer
LEMMA SwapOwnerKeepsRemoved ==
    ASSUME NEW g \in Group, NEW m \in Device, NEW n \in Device, NEW v
    PROVE  KeepsRemoved(g, SwapOwner(g, m, n, v))
    BY GroupParts DEF KeepsRemoved, SwapOwner, SetRole

\* A record that changes keeps its removals or was replaced by a snapshot.
ViewStep ==
    \A d \in Device :
        \/ KeepsRemoved(view[d], view'[d])
        \/ receipt[d] # NoOne /\ receipt'[d] = NoOne

\* A step that only writes d's record, by an operation that keeps removals
LEMMA ViewStepOf ==
    ASSUME TypeOK, NEW d \in Device, NEW g, view' = [view EXCEPT ![d] = g],
           KeepsRemoved(view[d], g)
    PROVE  ViewStep
    BY DEF TypeOK, ViewStep, KeepsRemoved

\* What a user or the clock does keeps recorded removals.
LEMMA LocalViewStep ==
    ASSUME TypeOK, NEW d \in Device, Local(d)
    PROVE  ViewStep
<1> view[d] \in Group
    BY DEF TypeOK
<1>1. CASE UNCHANGED view
    BY <1>1 DEF ViewStep, KeepsRemoved
<1>2. ASSUME NEW x \in Device, RemoveMemberOp(d, x)
      PROVE  ViewStep
    BY <1>2, ViewStepOf, RemoveMemberKeepsRemoved DEF RemoveMemberOp
<1>3. ASSUME NEW x \in Device, NEW role, PromoteMember(d, x, role)
      PROVE  ViewStep
    BY <1>3, ViewStepOf, RoleKeepsRemoved DEF PromoteMember
<1>4. ASSUME NEW x \in Device, TransferOwnership(d, x)
      PROVE  ViewStep
    BY <1>4, ViewStepOf, SwapOwnerKeepsRemoved DEF TransferOwnership
<1>5. CASE \/ CreateInvite(d) \/ ExpireInvite(d) \/ SendGroupMessage(d) \/ Restart(d)
           \/ \E i \in Device : ExpirePending(d, i) \/ AcceptInvite(d, i)
    BY <1>1, <1>5 DEF CreateInvite, ExpireInvite, SendGroupMessage, Restart,
                      ExpirePending, AcceptInvite
<1>6. QED
    BY <1>2, <1>3, <1>4, <1>5 DEF Local, Members

\* Handling a frame keeps recorded removals or replaces the record.
LEMMA ReceiveViewStep ==
    ASSUME TypeOK, NEW d \in Device, NEW m \in msgs, Receive(d, m)
    PROVE  ViewStep
<1> m \in Message /\ view[d] \in Group
    BY DEF TypeOK
<1>1. CASE UNCHANGED view
    BY <1>1 DEF ViewStep, KeepsRemoved
<1>2. CASE AcceptRequestJoin(d, m)
  <2>1. m.from \in Device /\ m.kem \in Nat /\ ~HasMember(view[d], m.from)
    BY <1>2, FrameParts DEF AcceptRequestJoin, CanAddMember
  <2>2. KeepsRemoved(view[d], SetMemberKyberPub(AddMember(view[d], m.from), m.from, m.kem))
    BY <2>1, AddMemberKeepsRemoved
  <2>3. view' = [view EXCEPT ![d] = SetMemberKyberPub(AddMember(view[d], m.from), m.from, m.kem)]
    BY <1>2 DEF AcceptRequestJoin
  <2>4. QED
    BY <2>2, <2>3, ViewStepOf
<1>3. CASE ReceiveJoinAccepted(d, m)
    BY <1>3 DEF ReceiveJoinAccepted, TakesJoinAccepted, ViewStep, KeepsRemoved, TypeOK
<1>4. CASE ReceiveMemberAdded(d, m)
  <2>1. m.member \in Device /\ ~HasMember(view[d], m.member)
    BY <1>4, FrameParts DEF ReceiveMemberAdded
  <2> DEFINE r == [status |-> "Active", role |-> "Member", kem |-> m.kem]
             g == ApplyMemberAdded(view[d], m.member, r, m.version)
  <2>2. KeepsRemoved(view[d], g)
    BY <2>1, ApplyMemberAddedKeepsRemoved
  <2>3. view' = [view EXCEPT ![d] = g]
    BY <1>4 DEF ReceiveMemberAdded, TypeOK
  <2> HIDE DEF g
  <2>4. QED
    BY <2>2, <2>3, ViewStepOf
<1>5. CASE InstallRotation(d, m) \/ MissRotation(d, m)
  <2>1. KeepsRemoved(view[d], AfterRotation(d, m))
    BY <1>5, FrameParts, RemoveMemberKeepsRemoved
       DEF InstallRotation, MissRotation, RotationAccepted, AfterRotation,
           RotationRemoves, KeepsRemoved
  <2>2. QED
    BY <1>5, <2>1, ViewStepOf DEF InstallRotation, MissRotation
<1>6. CASE ReceiveRoleChange(d, m)
  <2> DEFINE g == ApplyRoleChange(view[d], m.member, m.role, m.version)
  <2>1. KeepsRemoved(view[d], g)
    BY <1>6, FrameParts, RoleKeepsRemoved DEF ReceiveRoleChange
  <2>2. view' = [view EXCEPT ![d] = g]
    BY <1>6 DEF ReceiveRoleChange, TypeOK
  <2> HIDE DEF g
  <2>3. QED
    BY <2>1, <2>2, ViewStepOf
<1>7. CASE ReceiveOwnershipTransfer(d, m)
  <2> DEFINE g == SwapOwner(view[d], m.from, m.to, Newer(view[d].version, m.version))
  <2>1. KeepsRemoved(view[d], g)
    BY <1>7, FrameParts, SwapOwnerKeepsRemoved DEF ReceiveOwnershipTransfer
  <2>2. view' = [view EXCEPT ![d] = g]
    BY <1>7 DEF ReceiveOwnershipTransfer, TypeOK
  <2> HIDE DEF g
  <2>3. QED
    BY <2>1, <2>2, ViewStepOf
<1>8. CASE \/ RejectRequestJoin(d, m) \/ FailJoinAccepted(d, m)
           \/ ReceiveJoinRejected(d, m) \/ LearnOwnRemoval(d, m)
           \/ ReceiveGroupMessage(d, m) \/ ReceiveMessageAck(d, m)
    BY <1>1, <1>8 DEF RejectRequestJoin, FailJoinAccepted, ReceiveJoinRejected,
                      LearnOwnRemoval, ReceiveGroupMessage, ReceiveMessageAck
<1>9. QED
    BY <1>2, <1>3, <1>4, <1>5, <1>6, <1>7, <1>8 DEF Receive

\* No frame, fresh or stale, brings a member that a device recorded as Removed
\* back into that record: only the device's own new join does.
THEOREM RemovalIsFinal == Spec => RemovedStaysRemoved
<1>1. TypeOK /\ [Next]_vars =>
        [\A d, x \in Device :
            /\ view[d].row[x].status = "Removed"
            /\ view'[d].row[x].status # "Removed"
            => receipt[d] # NoOne /\ receipt'[d] = NoOne]_vars
  <2>1. SUFFICES ASSUME TypeOK, Next PROVE ViewStep
    BY DEF ViewStep, KeepsRemoved
  <2>2. QED
    BY <2>1, LocalViewStep, ReceiveViewStep DEF Next
<1>2. QED
    BY TypeCorrect, <1>1, PTL DEF Spec, RemovedStaysRemoved

--------------------------------------------------------------------------------
\* Receipts

\* An ack on the wire is of a message its sender dispatched.
AcksTrue ==
    \A m \in msgs : m.type = "MessageAck" => m.from \in Device /\ m.of \in inbox[m.from]

\* An acknowledgement shown to a sender stands for a message that was decrypted
\* and dispatched by the acker, through restarts, replays and removals.
THEOREM ReceiptsTrue == Spec => []NoFalseReceipts
<1> DEFINE Inv == AcksTrue /\ NoFalseReceipts
<1>1. Init => Inv
    BY DEF Init, AcksTrue, NoFalseReceipts
<1>2. TypeOK /\ Inv /\ [Next]_vars => Inv'
  <2>1. SUFFICES ASSUME TypeOK, Inv, [Next]_vars PROVE Inv'
    OBVIOUS
  <2>2. ASSUME UNCHANGED inbox, \A m \in msgs' \ msgs : m.type # "MessageAck"
        PROVE  Inv'
    BY <2>1, <2>2 DEF AcksTrue, NoFalseReceipts
  <2>3. ASSUME NEW d \in Device, Local(d)
        PROVE  Inv'
    BY <2>2, <2>3
       DEF Local, CreateInvite, ExpireInvite, ExpirePending, AcceptInvite,
           RemoveMemberOp, PromoteMember, TransferOwnership, SendGroupMessage,
           Restart, Publish
  <2>4. ASSUME NEW d \in Device, NEW m \in msgs, Receive(d, m)
        PROVE  Inv'
    <3>1. CASE ReceiveGroupMessage(d, m)
      <4> DEFINE a == [type |-> "MessageAck", from |-> d, of |-> m]
      <4>1. /\ m.type = "GroupMessage" /\ inbox' = [inbox EXCEPT ![d] = @ \cup {m}]
            /\ msgs' = msgs \cup {a}
        BY <3>1 DEF ReceiveGroupMessage, Publish
      <4>2. /\ \A e \in Device : inbox[e] \subseteq inbox'[e]
            /\ m \in inbox'[d]
            /\ \A e \in Device : \A n \in inbox'[e] :
                  n.type = "MessageAck" => n \in inbox[e]
        BY <2>1, <4>1 DEF TypeOK
      <4>3. AcksTrue'
        BY <2>1, <4>1, <4>2 DEF AcksTrue
      <4>4. NoFalseReceipts'
        <5>1. SUFFICES ASSUME NEW e \in Device, NEW n \in inbox'[e],
                              n.type = "MessageAck"
                       PROVE  n.of \in inbox'[n.from]
          BY DEF NoFalseReceipts
        <5>2. n \in inbox[e] /\ n.of \in inbox[n.from]
          BY <2>1, <4>2, <5>1 DEF NoFalseReceipts
        <5>3. n.from \in Device
          BY <2>1, <5>1, <5>2 DEF TypeOK, Message, Chat
        <5>4. QED
          BY <4>2, <5>2, <5>3
      <4>5. QED
        BY <4>3, <4>4
    <3>2. CASE ReceiveMessageAck(d, m)
      <4>1. /\ m.type = "MessageAck" /\ inbox' = [inbox EXCEPT ![d] = @ \cup {m}]
            /\ UNCHANGED msgs
        BY <3>2 DEF ReceiveMessageAck
      <4>2. /\ \A e \in Device : inbox[e] \subseteq inbox'[e]
            /\ \A e \in Device : \A n \in inbox'[e] : n \in inbox[e] \/ n = m
        BY <2>1, <4>1 DEF TypeOK
      <4>3. AcksTrue'
        BY <2>1, <4>1, <4>2 DEF AcksTrue
      <4>4. NoFalseReceipts'
        <5>1. SUFFICES ASSUME NEW e \in Device, NEW n \in inbox'[e],
                              n.type = "MessageAck"
                       PROVE  n.of \in inbox'[n.from]
          BY DEF NoFalseReceipts
        <5>2. CASE n = m
          BY <4>1, <4>3, <2>4, <5>2 DEF AcksTrue
        <5>3. CASE n \in inbox[e]
          <6>1. n.from \in Device /\ n.of \in inbox[n.from]
            BY <2>1, <5>1, <5>3 DEF TypeOK, Message, Chat, NoFalseReceipts
          <6>2. QED
            BY <4>2, <6>1
        <5>4. QED
          BY <4>2, <5>2, <5>3
      <4>5. QED
        BY <4>3, <4>4
    <3>3. CASE AcceptRequestJoin(d, m)
      BY <2>2, <3>3 DEF AcceptRequestJoin, Publish
    <3>4. CASE \/ RejectRequestJoin(d, m) \/ ReceiveJoinAccepted(d, m)
               \/ FailJoinAccepted(d, m) \/ ReceiveJoinRejected(d, m)
               \/ ReceiveMemberAdded(d, m) \/ InstallRotation(d, m)
               \/ MissRotation(d, m) \/ LearnOwnRemoval(d, m)
               \/ ReceiveRoleChange(d, m) \/ ReceiveOwnershipTransfer(d, m)
      BY <2>2, <3>4
         DEF RejectRequestJoin, ReceiveJoinAccepted, FailJoinAccepted,
             ReceiveJoinRejected, ReceiveMemberAdded, InstallRotation, MissRotation,
             LearnOwnRemoval, ReceiveRoleChange, ReceiveOwnershipTransfer, Publish
    <3>5. QED
      BY <2>4, <3>1, <3>2, <3>3, <3>4 DEF Receive
  <2>5. CASE UNCHANGED vars
    BY <2>2, <2>5 DEF vars
  <2>6. QED
    BY <2>1, <2>3, <2>4, <2>5 DEF Next
<1>3. QED
    BY TypeCorrect, <1>1, <1>2, PTL DEF Spec

--------------------------------------------------------------------------------
\* Who gets into a roster

\* The members a roster names, under any status
Named(row) == {x \in Device : row[x].status # "Absent"}

\* x was sent a JoinAccepted.
Admitted(x) == \E m \in msgs : m.type = "JoinAccepted" /\ m.to = x

\* A step that changes who is named in a roster takes over a snapshot, or adds
\* one member below the cap: one an inviter announced or one it admits now.
RosterChange(e) ==
    \/ Named(view'[e].row) = Named(view[e].row)
    \/ \E m \in msgs : m.type = "JoinAccepted" /\ view'[e].row = m.row
    \/ \E x \in Device :
          /\ Named(view'[e].row) = Named(view[e].row) \cup {x}
          /\ Cardinality(Named(view[e].row)) < Cap
          /\ (\E m \in msgs : m.type = "MemberAdded" /\ m.member = x) \/ Admitted(x)'

\* What a step does to the rosters, and what it publishes about them
RosterStep ==
    /\ msgs \subseteq msgs'
    /\ \A e \in Device : RosterChange(e)
    /\ \A f \in msgs' \ msgs : f.type = "JoinAccepted" =>
          \E e \in Device : Named(f.row) = Named(view'[e].row)
    /\ \A f \in msgs' \ msgs : f.type = "MemberAdded" => Admitted(f.member)'

\* Writing a row names its member, unless the row is Absent.
LEMMA NamedPut ==
    ASSUME NEW g \in Group, NEW m \in Device, NEW r, NEW v
    PROVE  /\ r.status = g.row[m].status => Named(PutRow(g, m, r, v).row) = Named(g.row)
           /\ r.status # "Absent" => Named(PutRow(g, m, r, v).row) = Named(g.row) \cup {m}
    BY GroupParts DEF Named, PutRow

\* remove_member and the changes of roles name the same members as before.
LEMMA NamedSame ==
    ASSUME NEW g \in Group, NEW m \in Device, NEW r, NEW v
    PROVE  /\ Named(RemoveMember(g, m).row) = Named(g.row)
           /\ Named(UpdateMemberRole(g, m, r).row) = Named(g.row)
           /\ Named(ApplyRoleChange(g, m, r, v).row) = Named(g.row)
<1>1. Named(RemoveMember(g, m).row) = Named(g.row)
    BY GroupParts DEF Named, RemoveMember, PutRow, HasMember, SetStatus
<1>2. /\ Named(UpdateMemberRole(g, m, r).row) = Named(g.row)
      /\ Named(ApplyRoleChange(g, m, r, v).row) = Named(g.row)
    BY GroupParts DEF Named, UpdateMemberRole, ApplyRoleChange, PutRow, SetRole
<1>3. QED
    BY <1>1, <1>2

\* So do transfer_ownership and apply_ownership_transfer.
LEMMA NamedSwap ==
    ASSUME NEW g \in Group, NEW m \in Device, NEW n \in Device, NEW v
    PROVE  Named(SwapOwner(g, m, n, v).row) = Named(g.row)
    BY GroupParts DEF Named, SwapOwner, SetRole

\* A step that publishes no admission and writes one record, naming whom it named
LEMMA QuietRoster ==
    ASSUME TypeOK, msgs \subseteq msgs',
           \A f \in msgs' \ msgs : f.type \notin {"JoinAccepted", "MemberAdded"},
           NEW d \in Device, NEW g, view' = [view EXCEPT ![d] = g],
           Named(g.row) = Named(view[d].row)
    PROVE  RosterStep
    BY DEF TypeOK, RosterStep, RosterChange

\* What a user or the clock does admits nobody.
LEMMA LocalRoster ==
    ASSUME TypeOK, NEW d \in Device, Local(d)
    PROVE  RosterStep
<1> view[d] \in Group
    BY DEF TypeOK
<1>1. ASSUME UNCHANGED view, msgs \subseteq msgs',
             \A f \in msgs' \ msgs : f.type \notin {"JoinAccepted", "MemberAdded"}
      PROVE  RosterStep
    BY <1>1 DEF RosterStep, RosterChange
<1>2. CASE \/ CreateInvite(d) \/ ExpireInvite(d) \/ SendGroupMessage(d) \/ Restart(d)
           \/ \E i \in Device : ExpirePending(d, i) \/ AcceptInvite(d, i)
    BY <1>1, <1>2 DEF CreateInvite, ExpireInvite, SendGroupMessage, Restart,
                      ExpirePending, AcceptInvite, Publish
<1>3. ASSUME NEW x \in Device, RemoveMemberOp(d, x) PROVE RosterStep
  <2>1. /\ view' = [view EXCEPT ![d] = RemoveMember(view[d], x)] /\ msgs \subseteq msgs'
        /\ \A f \in msgs' \ msgs : f.type \notin {"JoinAccepted", "MemberAdded"}
    BY <1>3 DEF RemoveMemberOp, Publish
  <2>2. Named(RemoveMember(view[d], x).row) = Named(view[d].row)
    BY NamedSame
  <2>3. QED
    BY <2>1, <2>2, QuietRoster
<1>4. ASSUME NEW x \in Device, NEW role, PromoteMember(d, x, role) PROVE RosterStep
  <2>1. /\ view' = [view EXCEPT ![d] = UpdateMemberRole(view[d], x, role)] /\ msgs \subseteq msgs'
        /\ \A f \in msgs' \ msgs : f.type \notin {"JoinAccepted", "MemberAdded"}
    BY <1>4 DEF PromoteMember, Publish
  <2>2. Named(UpdateMemberRole(view[d], x, role).row) = Named(view[d].row)
    BY NamedSame
  <2>3. QED
    BY <2>1, <2>2, QuietRoster
<1>5. ASSUME NEW x \in Device, TransferOwnership(d, x) PROVE RosterStep
  <2> DEFINE g == SwapOwner(view[d], d, x, view[d].version + 1)
  <2>1. /\ view' = [view EXCEPT ![d] = g] /\ msgs \subseteq msgs'
        /\ \A f \in msgs' \ msgs : f.type \notin {"JoinAccepted", "MemberAdded"}
    BY <1>5 DEF TransferOwnership, Publish
  <2>2. Named(g.row) = Named(view[d].row)
    BY NamedSwap
  <2> HIDE DEF g
  <2>3. QED
    BY <2>1, <2>2, QuietRoster
<1>6. QED
    BY <1>2, <1>3, <1>4, <1>5 DEF Local, Members

\* A frame names nobody anew but the joiner, an announced member or a snapshot.
LEMMA ReceiveRoster ==
    ASSUME TypeOK, NEW d \in Device, NEW m \in msgs, Receive(d, m)
    PROVE  RosterStep
<1> m \in Message /\ view[d] \in Group
    BY DEF TypeOK
<1>1. CASE AcceptRequestJoin(d, m)
  <2> DEFINE a == AddMember(view[d], m.from)
             g == SetMemberKyberPub(a, m.from, m.kem)
             s == Snapshot(g, Members(g))
             x == m.from
  <2>1. x \in Device /\ m.kem \in Nat /\ Cardinality(Named(view[d].row)) < Cap
    BY <1>1, FrameParts
       DEF AcceptRequestJoin, CanAddMember, BelowCap, Members, HasMember, Named
  <2>2. a \in Group /\ HasMember(a, x) /\ Named(a.row) = Named(view[d].row) \cup {x}
    BY <2>1, AddMemberType, NamedPut, GroupParts DEF AddMember, PutRow, HasMember
  <2>3. g \in Group /\ Named(g.row) = Named(a.row)
    <3> HIDE DEF a
    <3>1. g \in Group
      BY <2>1, <2>2, SetMemberKyberPubType
    <3>2. Named(g.row) = Named(a.row)
      BY <2>1, <2>2, NamedPut DEF SetMemberKyberPub, SetKem
    <3>3. QED
      BY <3>1, <3>2
  <2>4. Named(s) = Named(g.row)
    <3> HIDE DEF g
    <3>1. QED
      BY NoRowType DEF Named, Snapshot, Members, HasMember, SetStatus
  <2>5. /\ view' = [view EXCEPT ![d] = g]
        /\ msgs \subseteq msgs'
        /\ \A f \in msgs' \ msgs : /\ f.type = "JoinAccepted" => f.row = s
                                   /\ f.type = "MemberAdded" => f.member = x
    BY <1>1 DEF AcceptRequestJoin, Publish
  <2> HIDE DEF a, g, s, x
  <2>6. view'[d] = g /\ \A e \in Device : e # d => view'[e] = view[e]
    BY <2>5 DEF TypeOK
  <2>7. Admitted(x)'
    <3> DEFINE f == [type |-> "JoinAccepted", from |-> d, to |-> m.from,
                     row |-> s, version |-> g.version, kem |-> m.kem,
                     key |-> IF key[d] = 0 THEN nextKey ELSE key[d]]
    <3>1. f \in msgs'
      BY <1>1 DEF AcceptRequestJoin, Publish, a, g, s
    <3>2. f.type = "JoinAccepted" /\ f.to = x
      BY DEF x
    <3> HIDE DEF f
    <3>3. QED
      BY <3>1, <3>2 DEF Admitted
  <2>8. QED
    BY <2>1, <2>2, <2>3, <2>4, <2>5, <2>6, <2>7 DEF RosterStep, RosterChange
<1>2. CASE ReceiveJoinAccepted(d, m)
  <2>1. /\ view' = [view EXCEPT ![d] = [row |-> m.row, version |-> m.version]]
        /\ UNCHANGED msgs /\ m.type = "JoinAccepted"
    BY <1>2 DEF ReceiveJoinAccepted, TakesJoinAccepted
  <2>2. view'[d].row = m.row /\ \A e \in Device : e # d => view'[e] = view[e]
    BY <2>1 DEF TypeOK
  <2>3. QED
    BY <2>1, <2>2 DEF RosterStep, RosterChange
<1>3. CASE ReceiveMemberAdded(d, m)
  <2> DEFINE r == [status |-> "Active", role |-> "Member", kem |-> m.kem]
             g == ApplyMemberAdded(view[d], m.member, r, m.version)
             x == m.member
  <2>1. /\ x \in Device /\ m.type = "MemberAdded" /\ Cardinality(Named(view[d].row)) < Cap
        /\ view' = [view EXCEPT ![d] = g] /\ UNCHANGED msgs
    BY <1>3, FrameParts DEF ReceiveMemberAdded, BelowCap, Members, HasMember, Named, TypeOK
  <2>2. Named(g.row) = Named(view[d].row) \cup {x}
    <3>1. x \in Device /\ r.status # "Absent"
      BY <2>1
    <3>2. g = PutRow(view[d], x, r, m.version)
      BY DEF ApplyMemberAdded
    <3> HIDE DEF r, g, x
    <3>3. QED
      BY <3>1, <3>2, GroupParts DEF Named, PutRow
  <2> HIDE DEF g
  <2>3. view'[d] = g /\ \A e \in Device : e # d => view'[e] = view[e]
    BY <2>1 DEF TypeOK
  <2>4. RosterChange(d)
    BY <2>1, <2>2, <2>3 DEF RosterChange
  <2>5. QED
    BY <2>1, <2>3, <2>4 DEF RosterStep, RosterChange
<1>4. CASE InstallRotation(d, m) \/ MissRotation(d, m)
  <2>1. /\ view' = [view EXCEPT ![d] = AfterRotation(d, m)] /\ UNCHANGED msgs
        /\ m.type = "KeyRotation"
    BY <1>4 DEF InstallRotation, MissRotation, RotationAccepted
  <2>2. Named(AfterRotation(d, m).row) = Named(view[d].row)
    BY <2>1, FrameParts, NamedSame DEF AfterRotation, RotationRemoves
  <2>3. QED
    BY <2>1, <2>2, QuietRoster
<1>5. CASE ReceiveRoleChange(d, m)
  <2> DEFINE g == ApplyRoleChange(view[d], m.member, m.role, m.version)
  <2>1. view' = [view EXCEPT ![d] = g] /\ UNCHANGED msgs
    BY <1>5 DEF ReceiveRoleChange, TypeOK
  <2>2. Named(g.row) = Named(view[d].row)
    BY <1>5, FrameParts, NamedSame DEF ReceiveRoleChange
  <2> HIDE DEF g
  <2>3. QED
    BY <2>1, <2>2, QuietRoster
<1>6. CASE ReceiveOwnershipTransfer(d, m)
  <2> DEFINE g == SwapOwner(view[d], m.from, m.to, Newer(view[d].version, m.version))
  <2>1. view' = [view EXCEPT ![d] = g] /\ UNCHANGED msgs
    BY <1>6 DEF ReceiveOwnershipTransfer, TypeOK
  <2>2. Named(g.row) = Named(view[d].row)
    <3>1. m.from \in Device /\ m.to \in Device
      BY <1>6, FrameParts DEF ReceiveOwnershipTransfer
    <3>2. QED
      BY <3>1, NamedSwap
  <2> HIDE DEF g
  <2>3. QED
    BY <2>1, <2>2, QuietRoster
<1>7. CASE \/ RejectRequestJoin(d, m) \/ FailJoinAccepted(d, m)
           \/ ReceiveJoinRejected(d, m) \/ LearnOwnRemoval(d, m)
           \/ ReceiveGroupMessage(d, m) \/ ReceiveMessageAck(d, m)
  <2>1. /\ UNCHANGED view /\ msgs \subseteq msgs'
        /\ \A f \in msgs' \ msgs : f.type \notin {"JoinAccepted", "MemberAdded"}
    BY <1>7 DEF RejectRequestJoin, FailJoinAccepted, ReceiveJoinRejected,
                LearnOwnRemoval, ReceiveGroupMessage, ReceiveMessageAck, Publish
  <2>2. QED
    BY <2>1 DEF RosterStep, RosterChange
<1>8. QED
    BY <1>1, <1>2, <1>3, <1>4, <1>5, <1>6, <1>7 DEF Receive

LEMMA StepRoster == TypeOK /\ [Next]_vars => RosterStep
<1>1. SUFFICES ASSUME TypeOK, [Next]_vars PROVE RosterStep
    OBVIOUS
<1>2. CASE Next
    BY <1>1, <1>2, LocalRoster, ReceiveRoster DEF Next
<1>3. CASE UNCHANGED vars
    BY <1>3 DEF vars, RosterStep, RosterChange
<1>4. QED
    BY <1>1, <1>2, <1>3

\* Snapshots on the wire and announcements name members that were admitted.
SnapshotsAdmitted ==
    \A m \in msgs : m.type = "JoinAccepted" =>
        \A x \in Named(m.row) : x # Creator => Admitted(x)

AnnouncedAdmitted == \A m \in msgs : m.type = "MemberAdded" => Admitted(m.member)

\* The inductive strengthening of RosterWasAdmitted
AdmissionInv == RosterWasAdmitted /\ SnapshotsAdmitted /\ AnnouncedAdmitted

\* No snapshot, announcement, rotation or role change, however late or often it
\* is handled, puts anybody into a roster that no inviter admitted.
THEOREM OnlyAdmitted == Spec => []RosterWasAdmitted
<1>1. Init => AdmissionInv
  <2>1. SUFFICES ASSUME Init PROVE AdmissionInv
    OBVIOUS
  <2>2. \A d, x \in Device : HasMember(view[d], x) => x = Creator
    BY <2>1, CreatorAssumption, NoRowType DEF Init, CreateGroup, PutRow, NoGroup, HasMember
  <2>3. QED
    BY <2>1, <2>2 DEF Init, AdmissionInv, RosterWasAdmitted, SnapshotsAdmitted, AnnouncedAdmitted
<1>2. TypeOK /\ AdmissionInv /\ [Next]_vars => AdmissionInv'
  <2>1. SUFFICES ASSUME AdmissionInv, RosterStep PROVE AdmissionInv'
    BY StepRoster
  <2>2. \A x : Admitted(x) => Admitted(x)'
    BY <2>1 DEF RosterStep, Admitted
  <2>3. \A d \in Device : \A x \in Named(view[d].row) : x # Creator => Admitted(x)
    BY <2>1 DEF AdmissionInv, RosterWasAdmitted, Named, HasMember, Admitted
  <2>4. \A d \in Device : \A x \in Named(view'[d].row) : x # Creator => Admitted(x)'
    <3>1. SUFFICES ASSUME NEW d \in Device, NEW x \in Named(view'[d].row), x # Creator
                   PROVE  Admitted(x)'
      OBVIOUS
    <3>2. CASE x \in Named(view[d].row)
      BY <2>2, <2>3, <3>1, <3>2
    <3>3. CASE \E m \in msgs : m.type = "JoinAccepted" /\ view'[d].row = m.row
      BY <2>1, <2>2, <3>1, <3>3 DEF AdmissionInv, SnapshotsAdmitted
    <3>4. CASE (\E m \in msgs : m.type = "MemberAdded" /\ m.member = x) \/ Admitted(x)'
      BY <2>1, <2>2, <3>4 DEF AdmissionInv, AnnouncedAdmitted
    <3>5. QED
      BY <2>1, <3>1, <3>2, <3>3, <3>4 DEF RosterStep, RosterChange
  <2>5. RosterWasAdmitted'
    BY <2>4 DEF RosterWasAdmitted, Named, HasMember, Admitted
  <2>6. SnapshotsAdmitted'
    <3>1. SUFFICES ASSUME NEW m \in msgs', m.type = "JoinAccepted",
                          NEW x \in Named(m.row), x # Creator
                   PROVE  Admitted(x)'
      BY DEF SnapshotsAdmitted
    <3>2. CASE m \in msgs
      BY <2>1, <2>2, <3>1, <3>2 DEF AdmissionInv, SnapshotsAdmitted
    <3>3. CASE m \notin msgs
      BY <2>1, <2>4, <3>1, <3>3 DEF RosterStep
    <3>4. QED
      BY <3>2, <3>3
  <2>7. AnnouncedAdmitted'
    BY <2>1, <2>2 DEF AdmissionInv, AnnouncedAdmitted, RosterStep
  <2>8. QED
    BY <2>5, <2>6, <2>7 DEF AdmissionInv
<1>3. AdmissionInv => RosterWasAdmitted
    BY DEF AdmissionInv
<1>4. QED
    BY TypeCorrect, <1>1, <1>2, <1>3, PTL DEF Spec

\* Every snapshot on the wire is within the cap too: a joiner does not count.
SnapshotsCapped ==
    \A m \in msgs : m.type = "JoinAccepted" => Cardinality(Named(m.row)) <= Cap

\* Every record stays within the member cap, although add_member and
\* apply_member_added count the local record only and a joiner does not count.
THEOREM CapIsRespected == Spec => []CapRespected
<1> DEFINE Inv == CapRespected /\ SnapshotsCapped
<1>1. \A row : IsFiniteSet(Named(row)) /\ Cardinality(Named(row)) \in Nat
  <2>1. SUFFICES ASSUME NEW row
                 PROVE  IsFiniteSet(Named(row)) /\ Cardinality(Named(row)) \in Nat
    OBVIOUS
  <2>2. Named(row) \in SUBSET Device
    BY DEF Named
  <2>3. IsFiniteSet(Named(row))
    BY <2>2, DeviceAssumption, FS_Subset
  <2>4. QED
    BY <2>3, FS_CardinalityType
<1>2. CapRespected <=> \A d \in Device : Cardinality(Named(view[d].row)) <= Cap
    BY DEF CapRespected, Members, HasMember, Named
<1>3. Init => Inv
  <2>1. SUFFICES ASSUME Init PROVE Inv
    OBVIOUS
  <2>2. ASSUME NEW d \in Device PROVE Cardinality(Named(view[d].row)) <= Cap
    <3>1. Named(view[d].row) \in SUBSET {Creator}
      BY <2>1, CreatorAssumption, NoRowType DEF Init, CreateGroup, PutRow, NoGroup, Named
    <3>2. IsFiniteSet({Creator}) /\ Cardinality({Creator}) = 1
      BY FS_Singleton
    <3>3. Cardinality(Named(view[d].row)) <= 1
      BY <3>1, <3>2, FS_Subset
    <3>4. QED
      BY <1>1, <3>3, CapAssumption
  <2>3. SnapshotsCapped
    BY <2>1 DEF Init, SnapshotsCapped
  <2>4. QED
    BY <1>2, <2>2, <2>3
<1>4. TypeOK /\ Inv /\ [Next]_vars => Inv'
  <2>1. SUFFICES ASSUME Inv, RosterStep PROVE Inv'
    BY StepRoster
  <2>2. ASSUME NEW d \in Device PROVE Cardinality(Named(view'[d].row)) <= Cap
    <3>1. CASE Named(view'[d].row) = Named(view[d].row)
      BY <1>2, <2>1, <3>1
    <3>2. CASE \E m \in msgs : m.type = "JoinAccepted" /\ view'[d].row = m.row
      BY <2>1, <3>2 DEF SnapshotsCapped
    <3>3. ASSUME NEW x \in Device, Named(view'[d].row) = Named(view[d].row) \cup {x},
                 Cardinality(Named(view[d].row)) < Cap
          PROVE  Cardinality(Named(view'[d].row)) <= Cap
      <4>1. Cardinality(Named(view[d].row) \cup {x}) <= Cardinality(Named(view[d].row)) + 1
        BY <1>1, FS_AddElement
      <4>2. QED
        BY <1>1, <3>3, <4>1, CapAssumption
    <3>4. QED
      BY <2>1, <3>1, <3>2, <3>3 DEF RosterStep, RosterChange
  <2>3. CapRespected'
    BY <2>2 DEF CapRespected, Members, HasMember, Named
  <2>4. SnapshotsCapped'
    BY <2>1, <2>2 DEF SnapshotsCapped, RosterStep
  <2>5. QED
    BY <2>3, <2>4
<1>5. QED
    BY TypeCorrect, <1>3, <1>4, PTL DEF Spec

--------------------------------------------------------------------------------
\* An invitation admits at most max_uses joiners

AcceptedBy(i) == {m \in msgs : m.type = "JoinAccepted" /\ m.from = i}

\* current_uses counts at least the frames published and stops at max_uses.
UsesCount ==
    \A i \in Device : /\ IsFiniteSet(AcceptedBy(i))
                      /\ Cardinality(AcceptedBy(i)) <= uses[i]
                      /\ uses[i] <= MaxUses

\* A step that neither admits nor counts
LEMMA UsesFrame ==
    ASSUME UsesCount, UNCHANGED uses, Acceptances' = Acceptances
    PROVE  UsesCount'
<1>1. \A i \in Device : AcceptedBy(i)' = AcceptedBy(i)
    BY DEF Acceptances, AcceptedBy
<1>2. QED
    BY <1>1 DEF UsesCount

LEMMA StepUses == TypeOK /\ UsesCount /\ [Next]_vars => UsesCount'
<1>1. SUFFICES ASSUME TypeOK, UsesCount, [Next]_vars PROVE UsesCount'
    OBVIOUS
<1>2. CASE UNCHANGED vars
    BY <1>1, <1>2, UsesFrame DEF vars, Acceptances
<1>3. ASSUME NEW d \in Device, Local(d) PROVE UsesCount'
  <2>1. UNCHANGED uses /\ Acceptances' = Acceptances
    <3>1. CASE \/ CreateInvite(d) \/ ExpireInvite(d) \/ Restart(d)
               \/ \E i \in Device : ExpirePending(d, i)
      BY <3>1 DEF CreateInvite, ExpireInvite, Restart, ExpirePending, Acceptances
    <3>2. CASE \/ \E i \in Device : AcceptInvite(d, i)
               \/ \E x \in Members(view[d]) : RemoveMemberOp(d, x)
               \/ \E x \in Members(view[d]), role \in AssignableRoles : PromoteMember(d, x, role)
               \/ \E x \in Members(view[d]) : TransferOwnership(d, x)
               \/ SendGroupMessage(d)
      <4>1. UNCHANGED uses /\ \E f : f.type # "JoinAccepted" /\ msgs' = msgs \cup {f}
        BY <3>2 DEF AcceptInvite, RemoveMemberOp, PromoteMember, TransferOwnership,
                    SendGroupMessage, Publish, joinVars
      <4>2. QED
        BY <4>1 DEF Acceptances
    <3>3. QED
      BY <1>3, <3>1, <3>2 DEF Local
  <2>2. QED
    BY <1>1, <2>1, UsesFrame
<1>4. ASSUME NEW d \in Device, NEW m \in msgs, Receive(d, m) PROVE UsesCount'
  <2>1. CASE AcceptRequestJoin(d, m)
    <3> DEFINE g == SetMemberKyberPub(AddMember(view[d], m.from), m.from, m.kem)
               k == IF key[d] = 0 THEN nextKey ELSE key[d]
               f1 == [type |-> "JoinAccepted", from |-> d, to |-> m.from,
                      row |-> Snapshot(g, Members(g)), version |-> g.version,
                      kem |-> m.kem, key |-> k]
               f2 == [type |-> "MemberAdded", from |-> d, member |-> m.from,
                      kem |-> m.kem, version |-> g.version]
    <3>1. /\ msgs' = msgs \cup {f1, f2} /\ f1.type = "JoinAccepted" /\ f1.from = d
          /\ f2.type = "MemberAdded"
          /\ uses' = [uses EXCEPT ![d] = @ + 1] /\ uses[d] < MaxUses
      BY <2>1 DEF AcceptRequestJoin, InvitationUsable, Publish
    <3> HIDE DEF f1, f2
    <3>2. /\ AcceptedBy(d)' = AcceptedBy(d) \cup {f1}
          /\ \A i \in Device : i # d => AcceptedBy(i)' = AcceptedBy(i)
      BY <3>1 DEF AcceptedBy
    <3>3. /\ uses[d] \in Nat /\ uses'[d] = uses[d] + 1 /\ MaxUses \in Nat
          /\ \A i \in Device : i # d => uses'[i] = uses[i]
      BY <1>1, <3>1, BoundAssumption DEF TypeOK
    <3>4. /\ IsFiniteSet(AcceptedBy(d)) /\ Cardinality(AcceptedBy(d)) \in Nat
          /\ Cardinality(AcceptedBy(d)) <= uses[d]
      BY <1>1, FS_CardinalityType DEF UsesCount
    <3>5. /\ IsFiniteSet(AcceptedBy(d) \cup {f1})
          /\ Cardinality(AcceptedBy(d) \cup {f1}) <= Cardinality(AcceptedBy(d)) + 1
          /\ Cardinality(AcceptedBy(d) \cup {f1}) \in Nat
      <4>1. /\ IsFiniteSet(AcceptedBy(d) \cup {f1})
            /\ \/ Cardinality(AcceptedBy(d) \cup {f1}) = Cardinality(AcceptedBy(d))
               \/ Cardinality(AcceptedBy(d) \cup {f1}) = Cardinality(AcceptedBy(d)) + 1
        BY <3>4, FS_AddElement, Zenon
      <4>2. QED
        BY <3>4, <4>1
    <3>6. /\ IsFiniteSet(AcceptedBy(d)') /\ Cardinality(AcceptedBy(d)') <= uses'[d]
          /\ uses'[d] <= MaxUses
      BY <3>1, <3>2, <3>3, <3>4, <3>5
    <3>7. \A i \in Device : i # d =>
              /\ IsFiniteSet(AcceptedBy(i)') /\ Cardinality(AcceptedBy(i)') <= uses'[i]
              /\ uses'[i] <= MaxUses
      BY <1>1, <3>2, <3>3 DEF UsesCount
    <3>8. QED
      BY <3>6, <3>7 DEF UsesCount
  <2>2. CASE \/ ReceiveJoinAccepted(d, m) \/ FailJoinAccepted(d, m) \/ ReceiveJoinRejected(d, m)
             \/ ReceiveMemberAdded(d, m) \/ InstallRotation(d, m) \/ MissRotation(d, m)
             \/ LearnOwnRemoval(d, m) \/ ReceiveRoleChange(d, m)
             \/ ReceiveOwnershipTransfer(d, m) \/ ReceiveMessageAck(d, m)
    <3>1. UNCHANGED <<uses, msgs>>
      BY <2>2 DEF ReceiveJoinAccepted, FailJoinAccepted, ReceiveJoinRejected, ReceiveMemberAdded,
                  InstallRotation, MissRotation, LearnOwnRemoval, ReceiveRoleChange,
                  ReceiveOwnershipTransfer, ReceiveMessageAck, joinVars
    <3>2. QED
      BY <1>1, <3>1, UsesFrame DEF Acceptances
  <2>3. CASE RejectRequestJoin(d, m) \/ ReceiveGroupMessage(d, m)
    <3>1. UNCHANGED uses /\ \E f : f.type # "JoinAccepted" /\ msgs' = msgs \cup {f}
      BY <2>3 DEF RejectRequestJoin, ReceiveGroupMessage, Publish, joinVars
    <3>2. QED
      BY <1>1, <3>1, UsesFrame DEF Acceptances
  <2>4. QED
    BY <1>4, <2>1, <2>2, <2>3 DEF Receive
<1>5. QED
    BY <1>1, <1>2, <1>3, <1>4 DEF Next

\* However often a RequestJoin is repeated, delayed or sent after a restart of
\* the inviter, its invitation admits at most max_uses joiners.
THEOREM InviteLimitHolds == Spec => []InviteLimit
<1>1. Init => UsesCount
  <2>1. SUFFICES ASSUME Init, NEW i \in Device
                 PROVE  /\ IsFiniteSet(AcceptedBy(i)) /\ Cardinality(AcceptedBy(i)) <= uses[i]
                        /\ uses[i] <= MaxUses
    BY DEF UsesCount
  <2>2. AcceptedBy(i) = {} /\ uses[i] = 0
    BY <2>1 DEF Init, AcceptedBy
  <2>3. QED
    BY <2>2, FS_EmptySet, BoundAssumption
<1>2. TypeOK /\ UsesCount => InviteLimit
  <2>1. SUFFICES ASSUME TypeOK, UsesCount, NEW i \in Device
                 PROVE  Cardinality(AcceptedBy(i)) <= MaxUses
    BY DEF InviteLimit, AcceptedBy
  <2>2. Cardinality(AcceptedBy(i)) \in Nat /\ uses[i] \in Nat /\ MaxUses \in Nat
    BY <2>1, FS_CardinalityType, BoundAssumption DEF UsesCount, TypeOK
  <2>3. QED
    BY <2>1, <2>2 DEF UsesCount
<1>3. QED
    BY TypeCorrect, StepUses, <1>1, <1>2, PTL DEF Spec
================================================================================
