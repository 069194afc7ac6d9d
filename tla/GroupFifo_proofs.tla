---------------------------- MODULE GroupFifo_proofs ----------------------------
(***************************************************************************)
(* Theorems about GroupFifo, for every set of devices and every bound: the *)
(* perfect network is one of those GroupProtocol allows, and the members   *)
(* of a group with one administrator agree once every frame was handled.   *)
(*                                                                         *)
(* The frames in msgs by which the Creator changes the group are a log:    *)
(* each carries the version it leads to.  A member's record is what the    *)
(* log says at the member's version, and what the log has beyond it is     *)
(* still in the member's channel, in order.                                *)
(***************************************************************************)
EXTENDS GroupFifo, GroupProtocol_proofs

--------------------------------------------------------------------------------
\* The log

\* One device administers the group: nobody is given a role that may invite or
\* remove, ownership stays, and no process dies, as group keys are in memory.
OneAdministrator ==
    /\ AssignableRoles \subseteq {"Member", "Observer"}
    /\ {"transfer", "restart"} \cap Ops = {}

Plain == {"None", "Member", "Observer"}

\* A roster in which only the Creator may change anything
SoleAdmin(row) ==
    /\ row[Creator].role = "Owner" /\ row[Creator].status = "Active"
    /\ \A x \in Device \ {Creator} : row[x].role \in Plain

IsChange(m) == m.type \in {"MemberAdded", "KeyRotation", "RoleChange"}

Changes == {m \in msgs : IsChange(m)}

\* The version a change leads to, and the one it starts from: add_member and
\* set_member_kyber_pub each count.
Stamp(m) == IF m.type = "KeyRotation" THEN m.gen ELSE m.version

Base(m) == IF m.type = "MemberAdded" THEN Stamp(m) - 2 ELSE Stamp(m) - 1

AddedFor(j) == [type |-> "MemberAdded", from |-> j.from, member |-> j.to,
                kem |-> j.kem, version |-> j.version]

\* A log of what one field was set to: r is its value at version v.
WrittenAt(W, v, r) ==
    \E w \in W : /\ w.stamp <= v /\ w.val = r
                 /\ \A u \in W : u.stamp <= v => u.stamp <= w.stamp

Sets(m, x) == m.type \in {"MemberAdded", "RoleChange"} /\ m.member = x

RoleSet(m) == IF m.type = "MemberAdded" THEN "Member" ELSE m.role

Write(v, r) == [stamp |-> v, val |-> r]

RoleLog(x) ==
    {Write(0, IF x = Creator THEN "Owner" ELSE "None")}
    \cup {Write(Stamp(m), RoleSet(m)) : m \in {n \in Changes : Sets(n, x)}}

KeyLog == {Write(0, 1)} \cup {Write(m.gen, m.key) : m \in Rotations}

--------------------------------------------------------------------------------
\* Invariants of the protocol with one administrator, whatever the network does

\* What a frame says when the Creator alone administers and the devices made
\* so many keypairs
FromAdmin(m, made) ==
    /\ m.type = "RequestJoin" =>
          m.code = Creator /\ m.from # Creator /\ m.kem # 0 /\ made[m.from] # 0
    /\ m.type = "JoinAccepted" =>
          /\ m.from = Creator /\ m.to # Creator /\ m.kem # 0 /\ m.version # 0
          /\ SoleAdmin(m.row) /\ made[m.to] # 0
    /\ IsChange(m) => m.from = Creator
    /\ m.type = "MemberAdded" => m.member # Creator /\ m.version # 0
    /\ m.type = "KeyRotation" => m.removed \in Device \ {Creator}
    /\ m.type = "RoleChange" => m.member # Creator /\ m.role \in Plain \ {"None"}
    /\ m.type # "OwnershipTransfer"

\* Only the Creator has something to invite or to change with.
Home == HasGroup(Creator) /\ receipt[Creator] = NoOne /\ key[Creator] # 0

PlainViews == \A d \in Device : view[d] = NoGroup \/ (HasGroup(d) /\ SoleAdmin(view[d].row))

OneInviter == \A d \in Device \ {Creator} : invite[d] = "none"

JoinersAccepted ==
    \A d \in Device \ {Creator} : HasGroup(d) => \E j \in Acceptances : j.to = d

Frames == \A m \in msgs : FromAdmin(m, attempts)

AdminInv == Home /\ PlainViews /\ OneInviter /\ JoinersAccepted /\ Frames

\* The changes are a chain from version 1 to the Creator's.
Chained ==
    /\ \A m, n \in Changes : m = n \/ Stamp(m) <= Base(n) \/ Stamp(n) <= Base(m)
    /\ \A m \in Changes :
          /\ Base(m) >= 1 /\ Stamp(m) <= view[Creator].version
          /\ Base(m) = 1 \/ \E n \in Changes : Stamp(n) = Base(m)
    /\ view[Creator].version = 1 \/ \E n \in Changes : Stamp(n) = view[Creator].version

\* A member is announced once, before anything else is said of it, and it is
\* in the Creator's record with the keypair of its request.
Announced ==
    /\ \A j \in Acceptances :
          /\ AddedFor(j) \in msgs
          /\ HasMember(view[Creator], j.to) /\ view[Creator].row[j.to].kem = j.kem
          /\ \A k \in Acceptances : j.to = k.to => j = k
    /\ \A m \in Changes : m.type = "MemberAdded" =>
          /\ HasMember(view[Creator], m.member)
          /\ \A n \in Changes : Sets(n, m.member) => Stamp(n) >= Stamp(m)
    /\ \A m \in Changes : m.type = "RoleChange" =>
          \E n \in Changes : /\ n.type = "MemberAdded" /\ n.member = m.member
                             /\ Stamp(n) < Stamp(m)

\* The Creator's record and every snapshot are what the log says.
RolesLogged ==
    \A x \in Device :
        /\ WrittenAt(RoleLog(x), view[Creator].version, view[Creator].row[x].role)
        /\ \A j \in Acceptances : WrittenAt(RoleLog(x), j.version, j.row[x].role)

KeysLogged ==
    /\ WrittenAt(KeyLog, view[Creator].version, key[Creator])
    /\ \A j \in Acceptances : WrittenAt(KeyLog, j.version, j.key)

\* A rotation after a joiner's admission has a copy for its keypair, unless it
\* has been removed since.
WrapsFit ==
    \A m \in Rotations, j \in Acceptances :
        IsActive(view[Creator], j.to) /\ j.version < m.gen =>
            m.removed # j.to /\ m.wraps[j.to] = j.kem

LogInv == Chained /\ Announced /\ RolesLogged /\ KeysLogged /\ WrapsFit

--------------------------------------------------------------------------------
\* Invariants of the channels

Pos(d) == 1..Len(chan[d])

\* A channel has frames that were published, and the changes in order.
ChanType == chan \in [Device -> Seq(msgs)]

InOrder(d) ==
    \A i, k \in Pos(d) :
        /\ i < k /\ IsChange(chan[d][i]) /\ IsChange(chan[d][k])
        => Stamp(chan[d][i]) < Stamp(chan[d][k])

\* Behind the acceptance of a joiner come exactly the changes since.
Awaits(j, i) ==
    LET d == j.to IN
    /\ ~HasGroup(d)
    /\ \A k \in Pos(d) : chan[d][k] = j => k = i
    /\ \A m \in Changes : Stamp(m) >= j.version => \E k \in Pos(d) : k > i /\ chan[d][k] = m
    /\ \A k \in Pos(d) : k > i /\ IsChange(chan[d][k]) => Stamp(chan[d][k]) >= j.version

Awaited(d) ==
    \A j \in Acceptances : \A i \in Pos(d) : j.to = d /\ chan[d][i] = j => Awaits(j, i)

\* A joined member that was not removed is where the log says, and the rest of
\* the log is on its way to it.
Follows(d) ==
    LET v == view[d].version IN
    /\ \E j \in Acceptances : j.to = d /\ secret[d] = j.kem /\ j.version <= v
    /\ \E n \in Changes : Stamp(n) = v
    /\ \A m \in Changes : Stamp(m) > v => \E i \in Pos(d) : chan[d][i] = m
    /\ \A i \in Pos(d) : IsChange(chan[d][i]) =>
          \/ Stamp(chan[d][i]) > v
          \/ chan[d][i].type = "MemberAdded" /\ chan[d][i].member = d
    /\ \A x \in Device : WrittenAt(RoleLog(x), v, view[d].row[x].role)
    /\ WrittenAt(KeyLog, v, key[d])

Followed(d) == d \in Joined \ {Creator} => Follows(d)

MemberInv(d) == InOrder(d) /\ Awaited(d) /\ Followed(d)

ChanInv == \A d \in Device : MemberInv(d)

--------------------------------------------------------------------------------
\* What a step does when there is one administrator

Enrolled(x, kem) == SetMemberKyberPub(AddMember(view[Creator], x), x, kem)

JoinFrame(x, kem) ==
    [type |-> "JoinAccepted", from |-> Creator, to |-> x,
     row |-> Snapshot(Enrolled(x, kem), Members(Enrolled(x, kem))),
     version |-> Enrolled(x, kem).version, kem |-> kem, key |-> key[Creator]]

\* The Creator admits, removes or promotes a member,
Admits(x, kem) ==
    /\ x \in Device \ {Creator} /\ kem \in Nat \ {0} /\ attempts[x] # 0
    /\ ~HasMember(view[Creator], x)
    /\ view' = [view EXCEPT ![Creator] = Enrolled(x, kem)]
    /\ msgs' = msgs \cup {JoinFrame(x, kem), AddedFor(JoinFrame(x, kem))}
    /\ UNCHANGED <<key, secret>>

RotationFrame(x) ==
    [type |-> "KeyRotation", from |-> Creator, removed |-> x,
     gen |-> view[Creator].version + 1,
     wraps |-> Wraps(RemoveMember(view[Creator], x), Creator), key |-> nextKey]

Rotates(x) ==
    /\ x \in Device \ {Creator} /\ HasMember(view[Creator], x)
    /\ view' = [view EXCEPT ![Creator] = RemoveMember(@, x)]
    /\ key' = [key EXCEPT ![Creator] = nextKey]
    /\ msgs' = msgs \cup {RotationFrame(x)}
    /\ UNCHANGED secret

RoleFrame(x, role) ==
    [type |-> "RoleChange", from |-> Creator, member |-> x, role |-> role,
     version |-> view[Creator].version + 1]

Promotes(x, role) ==
    /\ x \in Device \ {Creator} /\ HasMember(view[Creator], x)
    /\ role \in Plain \ {"None"}
    /\ view' = [view EXCEPT ![Creator] = UpdateMemberRole(@, x, role)]
    /\ msgs' = msgs \cup {RoleFrame(x, role)}
    /\ UNCHANGED <<key, secret>>

\* or another device handles what the Creator published,
Adopts(d, m) ==
    /\ d # Creator /\ UNCHANGED msgs
    /\ \/ ReceiveJoinAccepted(d, m) \/ ReceiveMemberAdded(d, m) \/ ReceiveRoleChange(d, m)
       \/ InstallRotation(d, m) \/ MissRotation(d, m) \/ LearnOwnRemoval(d, m)

\* or nobody's record, key or secret changes, and nothing is added to the log.
Silent ==
    /\ UNCHANGED <<view, key, secret>>
    /\ msgs \subseteq msgs' /\ Changes' = Changes /\ Acceptances' = Acceptances

Administers ==
    \/ \E x \in Device, kem \in Nat : Admits(x, kem)
    \/ \E x \in Device : Rotates(x)
    \/ \E x \in Device, role \in Plain : Promotes(x, role)

--------------------------------------------------------------------------------
\* Only the Creator administers

\* GroupManager's operations on somebody else keep a roster with one administrator.
LEMMA PutPlain ==
    ASSUME NEW g \in Group, SoleAdmin(g.row), NEW x \in Device \ {Creator},
           NEW r, r.role \in Plain, NEW v
    PROVE  SoleAdmin(PutRow(g, x, r, v).row)
    BY GroupParts, CreatorAssumption DEF SoleAdmin, PutRow

\* The Creator's record is enrolled into and read back as a snapshot.
LEMMA EnrolPlain ==
    ASSUME NEW g \in Group, SoleAdmin(g.row), NEW x \in Device \ {Creator}, NEW k \in Nat
    PROVE  LET h == SetMemberKyberPub(AddMember(g, x), x, k) IN
           /\ h \in Group /\ SoleAdmin(h.row) /\ h.version = g.version + 2
           /\ SoleAdmin(Snapshot(h, Members(h)))
<1> DEFINE a == AddMember(g, x)
           h == SetMemberKyberPub(a, x, k)
<1>1. /\ a \in Group /\ SoleAdmin(a.row) /\ a.version = g.version + 1
      /\ a.row[x].role = "Member" /\ HasMember(a, x)
  <2>1. a.row[x].role = "Member" /\ a.version = g.version + 1 /\ HasMember(a, x)
    BY GroupParts DEF AddMember, PutRow, HasMember
  <2> QED
    BY <2>1, AddMemberType, PutPlain DEF AddMember, Plain
<1> HIDE DEF a
<1>2. h \in Group
    BY <1>1, SetMemberKyberPubType
<1>3. SoleAdmin(h.row)
    BY <1>1, PutPlain DEF SetMemberKyberPub, SetKem, Plain
<1>4. h.version = g.version + 2
    BY <1>1, GroupParts DEF SetMemberKyberPub, PutRow
<1> HIDE DEF h
<1>5. SoleAdmin(Snapshot(h, Members(h)))
    BY <1>2, <1>3, GroupParts, CreatorAssumption
       DEF SoleAdmin, Snapshot, Members, HasMember, SetStatus, NoRow, Plain
<1> QED
    BY <1>2, <1>3, <1>4, <1>5 DEF h, a

\* Only an Owner or an Admin may invite, remove and promote.
LEMMA PlainMayNothing ==
    ASSUME NEW d \in Device \ {Creator}, PlainViews, NEW p \in {"CreateInvites", "RemoveMembers", "AddMembers", "ManageRoles"}
    PROVE  ~HasPermission(view[d], d, p) /\ ~IsOwner(view[d], d)
<1>1. view[d].row[d].role \in Plain
    BY DEF PlainViews, SoleAdmin, NoGroup, NoRow, Plain
<1> QED
    BY <1>1 DEF HasPermission, RoleHasPermission, RolePermissions, IsOwner, Plain

\* Frames that were right stay right, as keypairs are only added.
LEMMA FramesGrow ==
    ASSUME TypeOK, Frames, \A d \in Device : attempts[d] # 0 => attempts'[d] # 0,
           \A f \in msgs' : f \in msgs \/ FromAdmin(f, attempts')
    PROVE  Frames'
<1> SUFFICES ASSUME NEW f \in msgs, FromAdmin(f, attempts) PROVE FromAdmin(f, attempts')
    BY DEF Frames
<1>1. f \in Message
    BY DEF TypeOK
<1> QED
    BY <1>1, FrameParts DEF FromAdmin

\* A step that leaves records and keys alone and publishes no change
LEMMA SilentAdmin ==
    ASSUME TypeOK, AdminInv, UNCHANGED <<view, key, secret>>, msgs \subseteq msgs',
           \A d \in Device : attempts[d] # 0 => attempts'[d] # 0,
           \A f \in msgs' : 
              \/ f \in msgs
              \/ FromAdmin(f, attempts') /\ ~IsChange(f) /\ f.type # "JoinAccepted",
           OneInviter', receipt'[Creator] = NoOne
    PROVE  AdminInv' /\ Silent
<1>1. Changes' = Changes /\ Acceptances' = Acceptances
    BY DEF Changes, Acceptances
<1>2. Frames'
    BY FramesGrow DEF AdminInv
<1>3. Home' /\ PlainViews' /\ JoinersAccepted'
    BY <1>1 DEF AdminInv, Home, PlainViews, JoinersAccepted, HasGroup
<1> QED
    BY <1>1, <1>2, <1>3 DEF AdminInv, Silent

\* A step of one device that gives its record a new content
LEMMA ViewAdmin ==
    ASSUME TypeOK, AdminInv, NEW d \in Device,
           \A e \in Device \ {d} : view'[e] = view[e], HasGroup(d)', SoleAdmin(view'[d].row),
           key'[Creator] # 0, receipt'[Creator] = NoOne, UNCHANGED invite,
           \A e \in Device : attempts[e] # 0 => attempts'[e] # 0, msgs \subseteq msgs',
           \A f \in msgs' : f \in msgs \/ FromAdmin(f, attempts'),
           d # Creator => \E j \in Acceptances : j.to = d
    PROVE  AdminInv'
<1>1. Frames'
    BY FramesGrow DEF AdminInv
<1>2. Home' /\ PlainViews' /\ OneInviter'
    BY CreatorAssumption DEF AdminInv, Home, PlainViews, OneInviter, HasGroup
<1>3. JoinersAccepted'
    BY DEF AdminInv, JoinersAccepted, HasGroup, Acceptances
<1> QED
    BY <1>1, <1>2, <1>3 DEF AdminInv

\* What users and the clock do
LEMMA LocalAdmin ==
    ASSUME OneAdministrator, TypeOK, AdminInv, NEW d \in Device, Local(d)
    PROVE  /\ AdminInv'
           /\ Silent \/ (d = Creator /\ Administers)
<1> USE CreatorAssumption
<1>1. CASE CreateInvite(d)
  <2>1. d = Creator
    BY <1>1, PlainMayNothing DEF CreateInvite, AdminInv
  <2>2. OneInviter' /\ receipt'[Creator] = NoOne
    BY <1>1, <2>1 DEF CreateInvite, AdminInv, OneInviter, Home, TypeOK
  <2> QED
    BY <1>1, <2>2, SilentAdmin DEF CreateInvite
<1>2. CASE ExpireInvite(d)
  <2>1. OneInviter' /\ receipt'[Creator] = NoOne
    BY <1>2 DEF ExpireInvite, AdminInv, OneInviter, Home, TypeOK
  <2> QED
    BY <1>2, <2>1, SilentAdmin DEF ExpireInvite
<1>3. ASSUME NEW i \in Device, ExpirePending(d, i) PROVE AdminInv' /\ Silent
  <2>1. OneInviter' /\ receipt'[Creator] = NoOne
    BY <1>3 DEF ExpirePending, AdminInv, OneInviter, Home
  <2> QED
    BY <1>3, <2>1, SilentAdmin DEF ExpirePending
<1>4. ASSUME NEW i \in Device, AcceptInvite(d, i) PROVE AdminInv' /\ Silent
  <2> DEFINE f == [type |-> "RequestJoin", from |-> d, code |-> i, kem |-> attempts[d] + 1]
  <2>1. i = Creator /\ d # Creator
    BY <1>4 DEF AcceptInvite, AdminInv, OneInviter
  <2>2. /\ attempts' = [attempts EXCEPT ![d] = attempts[d] + 1] /\ msgs' = msgs \cup {f}
        /\ receipt' = [receipt EXCEPT ![d] = i] /\ UNCHANGED <<view, key, secret, invite>>
    BY <1>4 DEF AcceptInvite, Publish
  <2>3. attempts[d] \in Nat /\ \A e \in Device : attempts[e] # 0 => attempts'[e] # 0
    BY <2>2 DEF TypeOK
  <2>4. FromAdmin(f, attempts') /\ ~IsChange(f) /\ f.type # "JoinAccepted"
    BY <2>1, <2>2, <2>3 DEF FromAdmin, IsChange, TypeOK
  <2>5. OneInviter' /\ receipt'[Creator] = NoOne
    BY <2>1, <2>2 DEF AdminInv, OneInviter, Home, TypeOK
  <2> HIDE DEF f
  <2> QED
    BY <2>2, <2>3, <2>4, <2>5, SilentAdmin
<1>5. ASSUME NEW x \in Members(view[d]), RemoveMemberOp(d, x)
      PROVE  AdminInv' /\ d = Creator /\ Administers
  <2>1. d = Creator
    BY <1>5, PlainMayNothing DEF RemoveMemberOp, CanRemoveMember, AdminInv
  <2>2. SoleAdmin(view[Creator].row) /\ view[Creator] \in Group /\ view[Creator].version \in Nat
    BY GroupParts DEF AdminInv, PlainViews, Home, HasGroup, NoGroup, TypeOK
  <2>3. x \in Device \ {Creator} /\ HasMember(view[Creator], x)
    BY <1>5, <2>1, <2>2 DEF RemoveMemberOp, CanRemoveMember, IsOwner, SoleAdmin, Members
  <2>4. RemoveMember(view[Creator], x).version = view[Creator].version + 1
    BY DEF RemoveMember, PutRow
  <2>5. Rotates(x) /\ UNCHANGED <<joinVars, inbox>>
    BY <1>5, <2>1, <2>3, <2>4 DEF RemoveMemberOp, Publish, Rotates, RotationFrame
  <2>6. SoleAdmin(RemoveMember(view[Creator], x).row)
    BY <2>2, <2>3, PutPlain DEF RemoveMember, SetStatus, SoleAdmin
  <2>7. FromAdmin(RotationFrame(x), attempts')
    BY <2>3 DEF FromAdmin, RotationFrame, IsChange
  <2>8. /\ HasGroup(Creator)' /\ SoleAdmin(view'[Creator].row) /\ key'[Creator] # 0
        /\ \A e \in Device \ {Creator} : view'[e] = view[e]
    BY <2>2, <2>4, <2>5, <2>6 DEF Rotates, HasGroup, TypeOK
  <2>9. AdminInv'
    BY <2>5, <2>7, <2>8, ViewAdmin DEF Rotates, joinVars, AdminInv, Home
  <2> QED
    BY <2>1, <2>3, <2>5, <2>9 DEF Administers
<1>6. ASSUME NEW x \in Members(view[d]), NEW role \in AssignableRoles, PromoteMember(d, x, role)
      PROVE  AdminInv' /\ d = Creator /\ Administers
  <2>1. d = Creator
    BY <1>6, PlainMayNothing DEF PromoteMember, AdminInv
  <2>2. SoleAdmin(view[Creator].row) /\ view[Creator] \in Group /\ view[Creator].version \in Nat
    BY GroupParts DEF AdminInv, PlainViews, Home, HasGroup, NoGroup, TypeOK
  <2>3. x \in Device \ {Creator} /\ HasMember(view[Creator], x)
    BY <1>6, <2>1, <2>2 DEF PromoteMember, CanUpdateMemberRole, IsOwner, SoleAdmin, Members
  <2>4. UpdateMemberRole(view[Creator], x, role).version = view[Creator].version + 1
    BY DEF UpdateMemberRole, PutRow
  <2>5. role \in Plain \ {"None"}
    BY DEF OneAdministrator, Plain
  <2>6. Promotes(x, role) /\ UNCHANGED <<joinVars, inbox>>
    BY <1>6, <2>1, <2>3, <2>4, <2>5 DEF PromoteMember, Publish, Promotes, RoleFrame
  <2>7. SoleAdmin(UpdateMemberRole(view[Creator], x, role).row)
    BY <2>2, <2>3, <2>5, PutPlain DEF UpdateMemberRole, SetRole, SoleAdmin
  <2>8. FromAdmin(RoleFrame(x, role), attempts')
    BY <2>3, <2>5 DEF FromAdmin, RoleFrame, IsChange
  <2>9. /\ HasGroup(Creator)' /\ SoleAdmin(view'[Creator].row) /\ key'[Creator] # 0
        /\ \A e \in Device \ {Creator} : view'[e] = view[e]
    BY <2>2, <2>4, <2>6, <2>7 DEF Promotes, HasGroup, TypeOK, AdminInv, Home
  <2>10. AdminInv'
    BY <2>6, <2>8, <2>9, ViewAdmin DEF Promotes, joinVars, AdminInv, Home
  <2> QED
    BY <2>1, <2>3, <2>5, <2>6, <2>10 DEF Administers
<1>7. CASE SendGroupMessage(d)
  <2> DEFINE f == [type |-> "GroupMessage", from |-> d, gen |-> view[d].version, key |-> key[d]]
  <2>1. msgs' = msgs \cup {f} /\ UNCHANGED <<view, key, secret, joinVars>>
    BY <1>7 DEF SendGroupMessage, Publish
  <2>2. FromAdmin(f, attempts') /\ ~IsChange(f) /\ f.type # "JoinAccepted"
    BY DEF FromAdmin, IsChange
  <2> HIDE DEF f
  <2>3. OneInviter' /\ receipt'[Creator] = NoOne /\ UNCHANGED attempts
    BY <2>1 DEF AdminInv, OneInviter, Home, joinVars
  <2> QED
    BY <2>1, <2>2, <2>3, SilentAdmin
<1>9. CASE Restart(d) \/ \E x \in Members(view[d]) : TransferOwnership(d, x)
    BY <1>9 DEF Restart, TransferOwnership, OneAdministrator
<1> QED
    BY <1>1, <1>2, <1>3, <1>4, <1>5, <1>6, <1>7, <1>9 DEF Local

\* What the handlers do
LEMMA ReceiveAdmin ==
    ASSUME OneAdministrator, TypeOK, AdminInv, NEW d \in Device, NEW m \in msgs, Receive(d, m)
    PROVE  /\ AdminInv'
           /\ Silent \/ (d = Creator /\ Administers) \/ Adopts(d, m)
<1> USE CreatorAssumption
<1>0. /\ FromAdmin(m, attempts) /\ m \in Message
      /\ SoleAdmin(view[Creator].row) /\ view[Creator] \in Group /\ view[Creator].version \in Nat
      /\ receipt[Creator] = NoOne
    BY GroupParts DEF AdminInv, PlainViews, Home, HasGroup, NoGroup, TypeOK, Frames
<1>1. CASE AcceptRequestJoin(d, m)
  <2>1. /\ d = Creator /\ m.from \in Device \ {Creator} /\ m.kem \in Nat \ {0}
        /\ attempts[m.from] # 0 /\ ~HasMember(view[Creator], m.from)
    BY <1>0, <1>1, FrameParts DEF AcceptRequestJoin, FromAdmin, CanAddMember
  <2> DEFINE x == m.from
             g == Enrolled(m.from, m.kem)
  <2>2. /\ g \in Group /\ SoleAdmin(g.row) /\ g.version = view[Creator].version + 2
        /\ SoleAdmin(Snapshot(g, Members(g)))
    BY <1>0, <2>1, EnrolPlain DEF Enrolled
  <2>3. Admits(m.from, m.kem) /\ UNCHANGED <<attempts, receipt, invite>>
    <3>1. key[Creator] # 0
      BY DEF AdminInv, Home
    <3>2. key' = [key EXCEPT ![Creator] = key[Creator]]
      BY <1>1, <2>1, <3>1 DEF AcceptRequestJoin
    <3>3. key' = key
      BY <3>2 DEF TypeOK
    <3>4. /\ view' = [view EXCEPT ![Creator] = g]
          /\ msgs' = msgs \cup {JoinFrame(m.from, m.kem), AddedFor(JoinFrame(m.from, m.kem))}
      BY <1>1, <2>1, <3>1 DEF AcceptRequestJoin, Publish, Enrolled, JoinFrame, AddedFor
    <3> QED
      BY <1>1, <2>1, <3>3, <3>4 DEF Admits, AcceptRequestJoin
  <2> HIDE DEF g
  <2>4. FromAdmin(JoinFrame(m.from, m.kem), attempts')
    BY <1>0, <2>1, <2>2, <2>3 DEF JoinFrame, FromAdmin, IsChange, g
  <2>5. FromAdmin(AddedFor(JoinFrame(m.from, m.kem)), attempts')
    <3>1. PICK a : a = AddedFor(JoinFrame(m.from, m.kem))
      OBVIOUS
    <3>2. a.type = "MemberAdded" /\ a.from = Creator /\ a.member = m.from /\ a.version = g.version
      BY <3>1 DEF JoinFrame, AddedFor, g
    <3>3. a.version # 0
      BY <1>0, <2>2, <3>2
    <3>4. FromAdmin(a, attempts')
      BY <2>1, <3>2, <3>3 DEF FromAdmin, IsChange
    <3> QED
      BY <3>1, <3>4
  <2>6. /\ HasGroup(Creator)' /\ SoleAdmin(view'[Creator].row) /\ key'[Creator] # 0
        /\ \A e \in Device \ {Creator} : view'[e] = view[e]
    BY <1>0, <2>2, <2>3 DEF Admits, HasGroup, TypeOK, AdminInv, Home, g
  <2>7. AdminInv'
    BY <2>3, <2>4, <2>5, <2>6, ViewAdmin DEF Admits, AdminInv, Home
  <2> QED
    BY <2>1, <2>3, <2>7 DEF Administers
<1>2. CASE RejectRequestJoin(d, m) \/ ReceiveGroupMessage(d, m)
  <2>1. UNCHANGED <<view, key, secret, joinVars>>
    BY <1>2 DEF RejectRequestJoin, ReceiveGroupMessage
  <2>2. PICK f : f.type \in {"JoinRejected", "MessageAck"} /\ msgs' = msgs \cup {f}
    <3>1. CASE RejectRequestJoin(d, m)
      <4> DEFINE r == [type |-> "JoinRejected", from |-> d, to |-> m.from, kem |-> m.kem]
      <4>1. r.type = "JoinRejected" /\ msgs' = msgs \cup {r}
        BY <3>1 DEF RejectRequestJoin, Publish
      <4> HIDE DEF r
      <4> QED
        BY <4>1
    <3>2. CASE ReceiveGroupMessage(d, m)
      <4> DEFINE r == [type |-> "MessageAck", from |-> d, of |-> m]
      <4>1. r.type = "MessageAck" /\ msgs' = msgs \cup {r}
        BY <3>2 DEF ReceiveGroupMessage, Publish
      <4> HIDE DEF r
      <4> QED
        BY <4>1
    <3> QED
      BY <1>2, <3>1, <3>2
  <2>3. FromAdmin(f, attempts') /\ ~IsChange(f) /\ f.type # "JoinAccepted"
    BY <2>2 DEF FromAdmin, IsChange
  <2>4. OneInviter' /\ receipt'[Creator] = NoOne /\ UNCHANGED attempts
    BY <2>1 DEF AdminInv, OneInviter, Home, joinVars
  <2> QED
    BY <2>1, <2>2, <2>3, <2>4, SilentAdmin
<1>3. CASE FailJoinAccepted(d, m) \/ ReceiveJoinRejected(d, m) \/ ReceiveMessageAck(d, m)
  <2>1. UNCHANGED <<view, key, secret, attempts, receipt, invite, msgs>>
    BY <1>3 DEF FailJoinAccepted, ReceiveJoinRejected, ReceiveMessageAck, joinVars
  <2>2. OneInviter' /\ receipt'[Creator] = NoOne
    BY <2>1 DEF AdminInv, OneInviter, Home
  <2> QED
    BY <2>1, <2>2, SilentAdmin
<1>4. CASE ReceiveJoinAccepted(d, m)
  <2>1. d # Creator /\ m \in Acceptances /\ m.to = d /\ SoleAdmin(m.row) /\ m.version # 0
    BY <1>0, <1>4 DEF ReceiveJoinAccepted, TakesJoinAccepted, FromAdmin, Acceptances
  <2>2. /\ HasGroup(d)' /\ SoleAdmin(view'[d].row) /\ key'[Creator] # 0 /\ receipt'[Creator] = NoOne
        /\ \A e \in Device \ {d} : view'[e] = view[e]
    BY <1>0, <1>4, <2>1 DEF ReceiveJoinAccepted, HasGroup, TypeOK, AdminInv, Home
  <2>3. AdminInv'
    BY <1>4, <2>1, <2>2, ViewAdmin DEF ReceiveJoinAccepted
  <2> QED
    BY <1>4, <2>1, <2>3 DEF Adopts, ReceiveJoinAccepted
<1>5. CASE LearnOwnRemoval(d, m)
  <2>1. d # Creator
    BY <1>0, <1>5 DEF LearnOwnRemoval, RotationAccepted, FromAdmin, IsChange
  <2>2. UNCHANGED <<view, key, attempts, receipt, invite, msgs>>
    BY <1>5 DEF LearnOwnRemoval, joinVars
  <2>3. AdminInv'
    BY <2>2 DEF AdminInv, Home, PlainViews, OneInviter, JoinersAccepted, Frames, HasGroup, Acceptances
  <2> QED
    BY <1>5, <2>1, <2>2, <2>3 DEF Adopts
<1>6. ASSUME ReceiveMemberAdded(d, m) \/ ReceiveRoleChange(d, m)
             \/ InstallRotation(d, m) \/ MissRotation(d, m)
      PROVE  AdminInv' /\ Adopts(d, m)
  <2>1. d # Creator /\ HasGroup(d) /\ UNCHANGED <<joinVars, msgs>>
    BY <1>0, <1>6 DEF ReceiveMemberAdded, ReceiveRoleChange, InstallRotation, MissRotation,
                      RotationAccepted, FromAdmin, IsChange
  <2>2. SoleAdmin(view[d].row) /\ view[d] \in Group /\ view[d].version \in Nat
    BY <2>1, GroupParts DEF AdminInv, PlainViews, HasGroup, NoGroup, TypeOK
  <2>3. view' = [view EXCEPT ![d] = view'[d]] /\ SoleAdmin(view'[d].row) /\ HasGroup(d)'
    <3>1. CASE ReceiveMemberAdded(d, m)
      <4> DEFINE r == [status |-> "Active", role |-> "Member", kem |-> m.kem]
                 g == ApplyMemberAdded(view[d], m.member, r, m.version)
      <4>1. view' = [view EXCEPT ![d] = g]
        BY <3>1 DEF ReceiveMemberAdded
      <4>2. m.member \in Device \ {Creator} /\ m.version # 0
        BY <1>0, <3>1, FrameParts DEF ReceiveMemberAdded, FromAdmin
      <4>3. SoleAdmin(g.row)
        BY <2>2, <4>2, PutPlain DEF ApplyMemberAdded, Plain
      <4>4. g.version = m.version
        BY DEF ApplyMemberAdded, PutRow
      <4> HIDE DEF g
      <4> QED
        BY <4>1, <4>2, <4>3, <4>4 DEF TypeOK, HasGroup
    <3>2. CASE ReceiveRoleChange(d, m)
      <4> DEFINE g == ApplyRoleChange(view[d], m.member, m.role, m.version)
      <4>1. view' = [view EXCEPT ![d] = g]
        BY <3>2 DEF ReceiveRoleChange
      <4>2. m.member \in Device \ {Creator} /\ m.version \in Nat /\ m.role \in Plain
        BY <1>0, <3>2, FrameParts DEF ReceiveRoleChange, FromAdmin
      <4>3. SoleAdmin(g.row)
        BY <2>2, <4>2, PutPlain DEF ApplyRoleChange, SetRole
      <4>4. g.version # 0
        BY <2>1, <2>2, <4>2 DEF ApplyRoleChange, PutRow, Newer, HasGroup
      <4> HIDE DEF g
      <4> QED
        BY <4>1, <4>3, <4>4 DEF TypeOK, HasGroup
    <3>3. CASE InstallRotation(d, m) \/ MissRotation(d, m)
      <4> DEFINE g == AfterRotation(d, m)
      <4>1. view' = [view EXCEPT ![d] = g]
        BY <3>3 DEF InstallRotation, MissRotation
      <4>2. m.removed \in Device \ {Creator}
        BY <1>0, <3>3 DEF InstallRotation, MissRotation, RotationAccepted, FromAdmin
      <4>3. SoleAdmin(RemoveMember(view[d], m.removed).row)
        <5>1. view[d].row[m.removed].role \in Plain
          BY <2>2, <4>2 DEF SoleAdmin
        <5>2. SetStatus(view[d].row[m.removed], "Removed").role \in Plain
          BY <5>1 DEF SetStatus
        <5> QED
          BY <2>2, <4>2, <5>1, <5>2, PutPlain DEF RemoveMember
      <4>4. RemoveMember(view[d], m.removed).version # 0
        BY <2>2 DEF RemoveMember, PutRow
      <4>5. SoleAdmin(g.row) /\ g.version # 0
        BY <2>1, <2>2, <4>3, <4>4 DEF AfterRotation, HasGroup
      <4> HIDE DEF g
      <4> QED
        BY <4>1, <4>5 DEF TypeOK, HasGroup
    <3> QED
      BY <1>6, <3>1, <3>2, <3>3
  <2>4. key'[Creator] # 0
    BY <1>6, <2>1 DEF ReceiveMemberAdded, ReceiveRoleChange, InstallRotation, MissRotation, AdminInv, Home, TypeOK
  <2>5. \A e \in Device \ {d} : view'[e] = view[e]
    BY <2>3 DEF TypeOK
  <2>6. AdminInv'
    BY <1>0, <2>1, <2>2, <2>3, <2>4, <2>5, ViewAdmin DEF AdminInv, JoinersAccepted, joinVars
  <2> QED
    BY <1>6, <2>1, <2>6 DEF Adopts
<1>7. ~ReceiveOwnershipTransfer(d, m)
    BY <1>0 DEF ReceiveOwnershipTransfer, FromAdmin
<1> QED
    BY <1>1, <1>2, <1>3, <1>4, <1>5, <1>6, <1>7 DEF Receive

--------------------------------------------------------------------------------
\* Reading a log

\* Later writes do not change what a field was.
LEMMA WrittenBefore ==
    ASSUME NEW W, NEW N, NEW v, NEW r, WrittenAt(W, v, r), \A u \in N : ~(u.stamp <= v)
    PROVE  WrittenAt(W \cup N, v, r)
    BY DEF WrittenAt

\* A field keeps its value until it is written again.
LEMMA WrittenKept ==
    ASSUME NEW W, NEW v \in Nat, NEW w \in Nat, NEW r, WrittenAt(W, v, r), v <= w,
           \A u \in W : u.stamp \in Nat /\ (u.stamp <= w => u.stamp <= v)
    PROVE  WrittenAt(W, w, r)
    BY DEF WrittenAt

\* A field has one value at a time.
LEMMA WrittenOnce ==
    ASSUME NEW W, NEW v \in Nat, NEW r, NEW s, WrittenAt(W, v, r), WrittenAt(W, v, s),
           \A u \in W : u.stamp \in Nat,
           \A u, w \in W : u.stamp = w.stamp => u.val = w.val
    PROVE  r = s
    BY DEF WrittenAt

\* Versions are numbers, and a change leads to a later one.
LEMMA Stamps ==
    ASSUME TypeOK
    PROVE  /\ view[Creator].version \in Nat
           /\ \A m \in Changes : Stamp(m) \in Nat /\ Base(m) \in Int /\ Base(m) < Stamp(m)
           /\ \A j \in Acceptances : j.version \in Nat /\ j.to \in Device /\ j.kem \in Nat
           /\ Rotations \subseteq Changes
<1>1. view[Creator].version \in Nat
    BY CreatorAssumption, GroupParts DEF TypeOK
<1>2. ASSUME NEW m \in Changes PROVE Stamp(m) \in Nat /\ Base(m) \in Int /\ Base(m) < Stamp(m)
  <2>1. m \in Message
    BY DEF TypeOK, Changes
  <2>2. Stamp(m) \in Nat
    BY <2>1, FrameParts DEF Changes, IsChange, Stamp
  <2> HIDE DEF Stamp
  <2> QED
    BY <2>2 DEF Base
<1>3. ASSUME NEW j \in Acceptances PROVE j.version \in Nat /\ j.to \in Device /\ j.kem \in Nat
    BY FrameParts DEF Acceptances, TypeOK
<1>4. Rotations \subseteq Changes
    BY DEF Rotations, Changes, IsChange
<1> QED
    BY <1>1, <1>2, <1>3, <1>4

\* The entries of the logs
LEMMA RoleEntry ==
    ASSUME NEW x \in Device, NEW w
    PROVE  w \in RoleLog(x) <=>
              \/ w = Write(0, IF x = Creator THEN "Owner" ELSE "None")
              \/ \E m \in Changes : Sets(m, x) /\ w = Write(Stamp(m), RoleSet(m))
    BY DEF RoleLog

LEMMA KeyEntry ==
    ASSUME NEW w
    PROVE  w \in KeyLog <=> \/ w = Write(0, 1)
                            \/ \E m \in Rotations : w = Write(m.gen, m.key)
    BY DEF KeyLog

LEMMA WriteParts ==
    ASSUME NEW v, NEW r
    PROVE  Write(v, r).stamp = v /\ Write(v, r).val = r
    BY DEF Write

\* No two changes lead to the same version.
LEMMA StampsDistinct ==
    ASSUME TypeOK, Chained, NEW m \in Changes, NEW n \in Changes, Stamp(m) = Stamp(n)
    PROVE  m = n
    BY Stamps DEF Chained

\* Roles and keys are single-valued in the log.
LEMMA LogsSingle ==
    ASSUME TypeOK, Chained
    PROVE  /\ \A x \in Device : /\ \A u \in RoleLog(x) : u.stamp \in Nat
                                /\ \A u, w \in RoleLog(x) : u.stamp = w.stamp => u.val = w.val
           /\ \A u \in KeyLog : u.stamp \in Nat
           /\ \A u, w \in KeyLog : u.stamp = w.stamp => u.val = w.val
<1>1. \A m \in Changes : Stamp(m) \in Nat \ {0}
    BY Stamps DEF Chained
<1>2. \A m \in Rotations : m \in Changes /\ Stamp(m) = m.gen
    BY Stamps DEF Rotations, Stamp
<1>3. ASSUME NEW x \in Device
      PROVE  /\ \A u \in RoleLog(x) : u.stamp \in Nat
             /\ \A u, w \in RoleLog(x) : u.stamp = w.stamp => u.val = w.val
    BY <1>1, StampsDistinct, RoleEntry, WriteParts
<1>4. /\ \A u \in KeyLog : u.stamp \in Nat
      /\ \A u, w \in KeyLog : u.stamp = w.stamp => u.val = w.val
    BY <1>1, <1>2, StampsDistinct, KeyEntry, WriteParts
<1> QED
    BY <1>3, <1>4

--------------------------------------------------------------------------------
\* The Creator adds a change n to the log

\* n starts from the Creator's version and leads to its next.
Adds(n) ==
    /\ Changes' = Changes \cup {n} /\ IsChange(n)
    /\ Base(n) = view[Creator].version /\ Stamp(n) = view'[Creator].version

\* The chain gets longer.
LEMMA ChainGrows ==
    ASSUME TypeOK, TypeOK', AdminInv, Chained, NEW n, Adds(n)
    PROVE  Chained'
<1>1. /\ Stamp(n) \in Nat /\ Base(n) < Stamp(n) /\ Base(n) >= 1
      /\ view'[Creator].version = Stamp(n)
  <2>1. view[Creator].version \in Nat /\ view'[Creator].version \in Nat /\ view[Creator].version # 0
    BY Stamps, CreatorAssumption, GroupParts DEF TypeOK, AdminInv, Home, HasGroup
  <2>2. Base(n) < Stamp(n)
    BY <2>1 DEF Adds, Base
  <2> QED
    BY <2>1, <2>2 DEF Adds
<1> QED
    BY <1>1, Stamps DEF Adds, Chained

\* An acceptance is not newer than the record it was taken from.
LEMMA AcceptancesPast ==
    ASSUME TypeOK, Chained, Announced, NEW j \in Acceptances
    PROVE  /\ AddedFor(j) \in Changes /\ Stamp(AddedFor(j)) = j.version
           /\ j.version <= view[Creator].version
<1>1. AddedFor(j) \in Changes /\ Stamp(AddedFor(j)) = j.version
    BY DEF Announced, Changes, AddedFor, IsChange, Stamp
<1> QED
    BY <1>1 DEF Chained

\* The Creator's roles and the snapshots it hands out are in the log.
LEMMA RolesGrow ==
    ASSUME TypeOK, TypeOK', AdminInv, Chained, Announced, RolesLogged, NEW n, Adds(n),
           \A x \in Device : view'[Creator].row[x].role =
               IF Sets(n, x) THEN RoleSet(n) ELSE view[Creator].row[x].role,
           \A j \in Acceptances' :
              \/ j \in Acceptances
              \/ /\ j.version = view'[Creator].version
                 /\ \A x \in Device : j.row[x].role = view'[Creator].row[x].role
    PROVE  RolesLogged'
<1> SUFFICES ASSUME NEW x \in Device
             PROVE  /\ WrittenAt(RoleLog(x)', view'[Creator].version, view'[Creator].row[x].role)
                    /\ \A j \in Acceptances : WrittenAt(RoleLog(x)', j.version, j.row[x].role)
    BY DEF RolesLogged
<1> DEFINE W == RoleLog(x)
           N == IF Sets(n, x) THEN {Write(Stamp(n), RoleSet(n))} ELSE {}
           v == view[Creator].version
<1>1. RoleLog(x)' = W \cup N
    BY DEF RoleLog, Adds
<1>2. v \in Nat /\ view'[Creator].version = Stamp(n) /\ Stamp(n) \in Nat /\ v < Stamp(n)
  <2>1. v \in Nat /\ view'[Creator].version \in Nat
    BY Stamps, CreatorAssumption, GroupParts DEF TypeOK
  <2>2. Base(n) < Stamp(n)
    BY <2>1 DEF Adds, Base
  <2> QED
    BY <2>1, <2>2 DEF Adds
<1>3. \A u \in W : u.stamp \in Nat /\ u.stamp <= v
    BY <1>2, Stamps, RoleEntry, WriteParts DEF Chained
<1>4. \A u \in N : u.stamp = Stamp(n) /\ u.val = RoleSet(n)
    BY WriteParts
<1>5. WrittenAt(W, v, view[Creator].row[x].role)
    BY DEF RolesLogged
<1>6. \A j \in Acceptances : WrittenAt(W, j.version, j.row[x].role) /\ j.version <= v /\ j.version \in Nat
    BY AcceptancesPast, Stamps DEF RolesLogged
<1>7. Sets(n, x) => \E u \in N : TRUE
    OBVIOUS
<1>8. ~Sets(n, x) => N = {}
    OBVIOUS
<1> HIDE DEF W, N, v
<1>9. WrittenAt(W \cup N, Stamp(n), view'[Creator].row[x].role)
  <2>1. CASE Sets(n, x)
    <3>1. view'[Creator].row[x].role = RoleSet(n)
      BY <2>1
    <3> QED
      BY <2>1, <3>1, <1>2, <1>3, <1>4, <1>7 DEF WrittenAt
  <2>2. CASE ~Sets(n, x)
    <3>1. view'[Creator].row[x].role = view[Creator].row[x].role /\ W \cup N = W
      BY <2>2, <1>8
    <3>2. v <= Stamp(n) /\ \A u \in W : u.stamp \in Nat /\ (u.stamp <= Stamp(n) => u.stamp <= v)
      BY <1>2, <1>3
    <3>3. WrittenAt(W, Stamp(n), view[Creator].row[x].role)
      BY <1>2, <1>5, <3>2, WrittenKept
    <3> QED
      BY <3>1, <3>3
  <2> QED
    BY <2>1, <2>2
<1>10. ASSUME NEW j \in Acceptances PROVE WrittenAt(W \cup N, j.version, j.row[x].role)
  <2>1. \A u \in N : ~(u.stamp <= j.version)
    BY <1>2, <1>4, <1>6
  <2> QED
    BY <1>6, <2>1, WrittenBefore
<1> QED
    BY <1>1, <1>2, <1>9, <1>10

\* So are its keys.
LEMMA KeysGrow ==
    ASSUME TypeOK, TypeOK', AdminInv, Chained, Announced, KeysLogged, NEW n, Adds(n),
           Rotations' = Rotations \cup (IF n.type = "KeyRotation" THEN {n} ELSE {}),
           key'[Creator] = IF n.type = "KeyRotation" THEN n.key ELSE key[Creator],
           \A j \in Acceptances' :
              \/ j \in Acceptances
              \/ j.version = view'[Creator].version /\ j.key = key'[Creator]
    PROVE  KeysLogged'
<1> DEFINE W == KeyLog
           N == IF n.type = "KeyRotation" THEN {Write(n.gen, n.key)} ELSE {}
           v == view[Creator].version
<1>1. KeyLog' = W \cup N
    BY DEF KeyLog
<1>2. v \in Nat /\ view'[Creator].version = Stamp(n) /\ Stamp(n) \in Nat /\ v < Stamp(n)
  <2>1. v \in Nat /\ view'[Creator].version \in Nat
    BY Stamps, CreatorAssumption, GroupParts DEF TypeOK
  <2>2. Base(n) < Stamp(n)
    BY <2>1 DEF Adds, Base
  <2> QED
    BY <2>1, <2>2 DEF Adds
<1>3. \A u \in W : u.stamp \in Nat /\ u.stamp <= v
  <2>1. \A m \in Rotations : m \in Changes /\ Stamp(m) = m.gen
    BY Stamps DEF Rotations, Stamp
  <2> QED
    BY <1>2, <2>1, Stamps, KeyEntry, WriteParts DEF Chained
<1>4. \A u \in N : u.stamp = Stamp(n) /\ u.val = n.key
    BY WriteParts DEF Stamp
<1>5. WrittenAt(W, v, key[Creator])
    BY DEF KeysLogged
<1>6. \A j \in Acceptances : WrittenAt(W, j.version, j.key) /\ j.version <= v /\ j.version \in Nat
    BY AcceptancesPast, Stamps DEF KeysLogged
<1>7. n.type = "KeyRotation" => \E u \in N : TRUE
    OBVIOUS
<1>8. n.type # "KeyRotation" => N = {}
    OBVIOUS
<1> HIDE DEF W, N, v
<1>9. WrittenAt(W \cup N, Stamp(n), key'[Creator])
  <2>1. CASE n.type = "KeyRotation"
    BY <2>1, <1>2, <1>3, <1>4, <1>7 DEF WrittenAt
  <2>2. CASE n.type # "KeyRotation"
    <3>1. key'[Creator] = key[Creator] /\ W \cup N = W
      BY <2>2, <1>8
    <3>2. v <= Stamp(n) /\ \A u \in W : u.stamp \in Nat /\ (u.stamp <= Stamp(n) => u.stamp <= v)
      BY <1>2, <1>3
    <3>3. WrittenAt(W, Stamp(n), key[Creator])
      BY <1>2, <1>5, <3>2, WrittenKept
    <3> QED
      BY <3>1, <3>3
  <2> QED
    BY <2>1, <2>2
<1>10. ASSUME NEW j \in Acceptances PROVE WrittenAt(W \cup N, j.version, j.key)
  <2>1. \A u \in N : ~(u.stamp <= j.version)
    BY <1>2, <1>4, <1>6
  <2> QED
    BY <1>6, <2>1, WrittenBefore
<1> QED
    BY <1>1, <1>2, <1>9, <1>10 DEF KeysLogged

\* Nothing is added to the log.
LEMMA LogFrame ==
    ASSUME LogInv, Changes' = Changes, Acceptances' = Acceptances, msgs \subseteq msgs',
           view'[Creator] = view[Creator], key'[Creator] = key[Creator]
    PROVE  LogInv'
<1>1. Rotations' = Rotations
    BY DEF Rotations, Changes, IsChange
<1>2. Chained' /\ Announced' /\ WrapsFit'
    BY <1>1 DEF LogInv, Chained, Announced, WrapsFit
<1>3. RolesLogged' /\ KeysLogged'
  <2>1. KeyLog' = KeyLog /\ \A x \in Device : RoleLog(x)' = RoleLog(x)
    BY <1>1 DEF KeyLog, RoleLog
  <2> QED
    BY <2>1 DEF LogInv, RolesLogged, KeysLogged
<1> QED
    BY <1>2, <1>3 DEF LogInv

\* Whoever has a role was announced before it had it.
LEMMA RoleAnnounced ==
    ASSUME TypeOK, Chained, Announced, NEW x \in Device \ {Creator}, NEW v \in Nat, NEW r,
           WrittenAt(RoleLog(x), v, r), r # "None"
    PROVE  \E n \in Changes : n.type = "MemberAdded" /\ n.member = x /\ Stamp(n) <= v
<1>1. PICK w \in RoleLog(x) : w.stamp <= v /\ w.val = r
    BY DEF WrittenAt
<1>2. PICK m \in Changes : Sets(m, x) /\ w = Write(Stamp(m), RoleSet(m))
    BY <1>1, RoleEntry, WriteParts
<1>3. Stamp(m) <= v /\ Stamp(m) \in Nat
    BY <1>1, <1>2, WriteParts, Stamps
<1>4. CASE m.type = "MemberAdded"
    BY <1>2, <1>3, <1>4 DEF Sets
<1>5. CASE m.type = "RoleChange"
  <2>1. PICK n \in Changes : n.type = "MemberAdded" /\ n.member = x /\ Stamp(n) < Stamp(m)
    BY <1>2, <1>5 DEF Announced, Sets
  <2> QED
    BY <1>3, <2>1, Stamps
<1> QED
    BY <1>2, <1>4, <1>5 DEF Sets

\* A row says what its role and its presence are: absent rows have no role.
LEMMA RoleIsPresence ==
    ASSUME NEW g \in Group, NEW x \in Device
    PROVE  HasMember(g, x) <=> g.row[x].role # "None"
    BY GroupParts, RowParts DEF HasMember, NoRow, Role

\* process_request_join extends the log by the announcement of the joiner.
LEMMA AdmitLog ==
    ASSUME TypeOK, TypeOK', AdminInv, LogInv, NEW x \in Device, NEW kem \in Nat, Admits(x, kem)
    PROVE  LogInv'
<1> USE CreatorAssumption
<1> DEFINE g == Enrolled(x, kem)
           v == view[Creator].version
<1>1. PICK j : j = JoinFrame(x, kem)
    OBVIOUS
<1>2. PICK n : n = AddedFor(j)
    OBVIOUS
<1>3. /\ view[Creator] \in Group /\ SoleAdmin(view[Creator].row) /\ v \in Nat
      /\ x # Creator /\ kem # 0 /\ ~HasMember(view[Creator], x)
    BY Stamps DEF AdminInv, PlainViews, Home, HasGroup, NoGroup, TypeOK, Admits
<1>4. g \in Group /\ g.version = v + 2
    BY <1>3, EnrolPlain DEF Enrolled
<1>5. /\ g.row[x] = [status |-> "Active", role |-> "Member", kem |-> kem]
      /\ \A y \in Device \ {x} : g.row[y] = view[Creator].row[y]
    BY <1>3, GroupParts DEF Enrolled, SetMemberKyberPub, AddMember, PutRow, SetKem
<1>6. \A y \in Device : j.row[y].role = g.row[y].role
  <2>1. j.row = Snapshot(g, Members(g))
    BY <1>1 DEF JoinFrame
  <2> QED
    BY <1>4, <2>1, GroupParts, RowParts DEF Snapshot, Members, HasMember, SetStatus
<1>7. /\ j.type = "JoinAccepted" /\ j.to = x /\ j.version = v + 2 /\ j.kem = kem /\ j.key = key[Creator]
      /\ n.type = "MemberAdded" /\ n.member = x /\ n.version = v + 2
    BY <1>1, <1>2, <1>4 DEF JoinFrame, AddedFor
<1>8. view'[Creator] = g /\ msgs' = msgs \cup {j, n} /\ key' = key
    BY <1>1, <1>2 DEF Admits, TypeOK
<1> HIDE DEF g, v
<1>9. Changes' = Changes \cup {n} /\ Acceptances' = Acceptances \cup {j} /\ Rotations' = Rotations
    BY <1>7, <1>8 DEF Changes, Acceptances, Rotations, IsChange
<1>10. Adds(n) /\ Stamp(n) = v + 2
    BY <1>3, <1>4, <1>7, <1>8, <1>9 DEF Adds, IsChange, Base, Stamp, v
<1>11. Chained'
    BY <1>10, ChainGrows DEF LogInv
<1>12. RolesLogged'
  <2>1. \A y \in Device : view'[Creator].row[y].role =
            IF Sets(n, y) THEN RoleSet(n) ELSE view[Creator].row[y].role
    BY <1>5, <1>7, <1>8 DEF Sets, RoleSet
  <2>2. \A k \in Acceptances' :
           \/ k \in Acceptances
           \/ /\ k.version = view'[Creator].version
              /\ \A y \in Device : k.row[y].role = view'[Creator].row[y].role
    BY <1>4, <1>6, <1>7, <1>8, <1>9
  <2> QED
    BY <1>10, <2>1, <2>2, RolesGrow DEF LogInv
<1>13. KeysLogged'
  <2>1. \A k \in Acceptances' :
           \/ k \in Acceptances
           \/ k.version = view'[Creator].version /\ k.key = key'[Creator]
    BY <1>4, <1>7, <1>8, <1>9
  <2>2. key'[Creator] = key[Creator] /\ n.type # "KeyRotation"
    BY <1>7, <1>8
  <2>3. Rotations' = Rotations \cup {}
    BY <1>9
  <2> QED
    BY <1>10, <2>1, <2>2, <2>3, KeysGrow DEF LogInv
<1>14. /\ \A k \in Acceptances : k.to # x /\ k.to \in Device
       /\ \A m \in Changes : m.type \in {"MemberAdded", "RoleChange"} => m.member # x
    BY <1>3, Stamps DEF LogInv, Announced
<1>15. Announced'
  <2>1. ASSUME NEW k \in Acceptances'
        PROVE  /\ AddedFor(k) \in msgs'
               /\ HasMember(view'[Creator], k.to) /\ view'[Creator].row[k.to].kem = k.kem
               /\ \A l \in Acceptances' : k.to = l.to => k = l
    <3>1. CASE k \in Acceptances
      BY <3>1, <1>5, <1>7, <1>8, <1>9, <1>14 DEF LogInv, Announced, HasMember
    <3>2. CASE k = j
      BY <3>2, <1>2, <1>5, <1>7, <1>8, <1>9, <1>14 DEF HasMember
    <3> QED
      BY <3>1, <3>2, <1>9
  <2>2. ASSUME NEW m \in Changes', m.type = "MemberAdded"
        PROVE  /\ HasMember(view'[Creator], m.member)
               /\ \A l \in Changes' : Sets(l, m.member) => Stamp(l) >= Stamp(m)
    <3>1. CASE m \in Changes
      <4>1. m.member \in Device
        BY <2>2, <3>1, FrameParts DEF Changes, TypeOK
      <4> QED
        BY <2>2, <3>1, <4>1, <1>5, <1>7, <1>8, <1>9, <1>14 DEF LogInv, Announced, HasMember, Sets
    <3>2. CASE m = n
      <4>1. \A l \in Changes : ~Sets(l, x)
        BY <1>14 DEF Sets
      <4> QED
        BY <3>2, <4>1, <1>3, <1>5, <1>7, <1>8, <1>9, <1>10 DEF HasMember
    <3> QED
      BY <3>1, <3>2, <1>9
  <2>3. ASSUME NEW m \in Changes', m.type = "RoleChange"
        PROVE  \E l \in Changes' : /\ l.type = "MemberAdded" /\ l.member = m.member
                                   /\ Stamp(l) < Stamp(m)
    BY <2>3, <1>7, <1>9 DEF LogInv, Announced
  <2> QED
    BY <2>1, <2>2, <2>3 DEF Announced
<1>16. WrapsFit'
  <2> SUFFICES ASSUME NEW m \in Rotations, NEW k \in Acceptances \cup {j},
                      IsActive(view'[Creator], k.to), k.version < m.gen
               PROVE  m.removed # k.to /\ m.wraps[k.to] = k.kem
    BY <1>9 DEF WrapsFit
  <2>1. m.gen <= v /\ m.gen \in Nat
    BY Stamps DEF LogInv, Chained, Stamp, Rotations, v
  <2>2. k # j
    BY <1>3, <1>7, <2>1
  <2> QED
    BY <2>2, <1>5, <1>8, <1>14 DEF LogInv, WrapsFit, IsActive
<1> QED
    BY <1>11, <1>12, <1>13, <1>15, <1>16 DEF LogInv

\* A change of a member's status or role leaves what was announced.
LEMMA AnnouncedKept ==
    ASSUME TypeOK, Announced, NEW n, Adds(n), n.type # "MemberAdded", Acceptances' = Acceptances,
           msgs \subseteq msgs',
           \A y \in Device : /\ HasMember(view[Creator], y) => HasMember(view'[Creator], y)
                            /\ view'[Creator].row[y].kem = view[Creator].row[y].kem,
           \A m \in Changes : Stamp(m) < Stamp(n) /\ Stamp(m) \in Nat, Stamp(n) \in Nat,
           n.type = "RoleChange" =>
              \E l \in Changes : l.type = "MemberAdded" /\ l.member = n.member
    PROVE  Announced'
<1>1. \A m \in Changes : m.type = "MemberAdded" => m.member \in Device
    BY FrameParts DEF Changes, TypeOK
<1>2. \A j \in Acceptances : j.to \in Device
    BY Stamps
<1>3. Changes' = Changes \cup {n}
    BY DEF Adds
<1>4. ASSUME NEW m \in Changes', m.type = "MemberAdded"
      PROVE  /\ HasMember(view'[Creator], m.member)
             /\ \A l \in Changes' : Sets(l, m.member) => Stamp(l) >= Stamp(m)
    BY <1>1, <1>3, <1>4 DEF Announced
<1>5. ASSUME NEW m \in Changes', m.type = "RoleChange"
      PROVE  \E l \in Changes' : /\ l.type = "MemberAdded" /\ l.member = m.member
                                 /\ Stamp(l) < Stamp(m)
    BY <1>3, <1>5 DEF Announced
<1>6. ASSUME NEW j \in Acceptances
      PROVE  /\ AddedFor(j) \in msgs'
             /\ HasMember(view'[Creator], j.to) /\ view'[Creator].row[j.to].kem = j.kem
             /\ \A k \in Acceptances : j.to = k.to => j = k
    BY <1>2 DEF Announced
<1> QED
    BY <1>4, <1>5, <1>6 DEF Announced

\* nativeRemoveMember extends the log by a rotation.
LEMMA RotateLog ==
    ASSUME TypeOK, TypeOK', AdminInv, LogInv, NEW x \in Device, Rotates(x)
    PROVE  LogInv'
<1> USE CreatorAssumption
<1> DEFINE g == RemoveMember(view[Creator], x)
           v == view[Creator].version
<1>1. PICK n : n = RotationFrame(x)
    OBVIOUS
<1>2. view[Creator] \in Group /\ v \in Nat /\ x # Creator /\ HasMember(view[Creator], x)
    BY Stamps DEF TypeOK, Rotates
<1>3. /\ g.version = v + 1
      /\ g.row[x] = SetStatus(view[Creator].row[x], "Removed")
      /\ \A y \in Device \ {x} : g.row[y] = view[Creator].row[y]
    BY <1>2, GroupParts DEF RemoveMember, PutRow
<1>4. /\ n.type = "KeyRotation" /\ n.removed = x /\ n.gen = v + 1
      /\ n.wraps = Wraps(g, Creator) /\ n.key = nextKey
    BY <1>1 DEF RotationFrame
<1>5. view'[Creator] = g /\ msgs' = msgs \cup {n} /\ key'[Creator] = nextKey
    BY <1>1 DEF Rotates, TypeOK
<1> HIDE DEF g, v
<1>6. Changes' = Changes \cup {n} /\ Acceptances' = Acceptances /\ Rotations' = Rotations \cup {n}
    BY <1>4, <1>5 DEF Changes, Acceptances, Rotations, IsChange
<1>7. Adds(n) /\ Stamp(n) = v + 1
    BY <1>2, <1>3, <1>4, <1>5, <1>6 DEF Adds, IsChange, Base, Stamp, v
<1>8. \A y \in Device : /\ g.row[y].role = view[Creator].row[y].role
                        /\ g.row[y].kem = view[Creator].row[y].kem
                        /\ HasMember(view[Creator], y) => HasMember(g, y)
                        /\ IsActive(g, y) => y # x /\ IsActive(view[Creator], y)
    BY <1>3 DEF SetStatus, HasMember, IsActive
<1>9. Chained'
    BY <1>7, ChainGrows DEF LogInv
<1>10. RolesLogged'
  <2>1. \A y \in Device : view'[Creator].row[y].role =
            IF Sets(n, y) THEN RoleSet(n) ELSE view[Creator].row[y].role
    BY <1>4, <1>5, <1>8 DEF Sets
  <2> QED
    BY <1>6, <1>7, <2>1, RolesGrow DEF LogInv
<1>11. KeysLogged'
    BY <1>4, <1>5, <1>6, <1>7, KeysGrow DEF LogInv
<1>12. Announced'
  <2>1. \A m \in Changes : Stamp(m) < Stamp(n) /\ Stamp(m) \in Nat
    BY <1>2, <1>7, Stamps DEF LogInv, Chained, v
  <2> QED
    BY <1>2, <1>4, <1>5, <1>6, <1>7, <1>8, <2>1, AnnouncedKept DEF LogInv
<1>13. WrapsFit'
  <2> SUFFICES ASSUME NEW m \in Rotations \cup {n}, NEW j \in Acceptances,
                      IsActive(g, j.to), j.version < m.gen
               PROVE  m.removed # j.to /\ m.wraps[j.to] = j.kem
    BY <1>5, <1>6 DEF WrapsFit
  <2>1. j.to \in Device \ {Creator} /\ j.kem # 0 /\ view[Creator].row[j.to].kem = j.kem
    BY Stamps DEF LogInv, Announced, AdminInv, Frames, FromAdmin, Acceptances
  <2>2. CASE m = n
    BY <2>1, <2>2, <1>4, <1>8 DEF Wraps, Recipients
  <2>3. CASE m \in Rotations
    BY <2>1, <2>3, <1>8 DEF LogInv, WrapsFit
  <2> QED
    BY <2>2, <2>3
<1> QED
    BY <1>9, <1>10, <1>11, <1>12, <1>13 DEF LogInv

\* nativePromoteMember extends the log by a role.
LEMMA PromoteLog ==
    ASSUME TypeOK, TypeOK', AdminInv, LogInv, NEW x \in Device, NEW role \in Plain, Promotes(x, role)
    PROVE  LogInv'
<1> USE CreatorAssumption
<1> DEFINE g == UpdateMemberRole(view[Creator], x, role)
           v == view[Creator].version
<1>1. PICK n : n = RoleFrame(x, role)
    OBVIOUS
<1>2. view[Creator] \in Group /\ v \in Nat /\ x # Creator /\ HasMember(view[Creator], x)
    BY Stamps DEF TypeOK, Promotes
<1>3. /\ g.version = v + 1
      /\ g.row[x] = SetRole(view[Creator].row[x], role)
      /\ \A y \in Device \ {x} : g.row[y] = view[Creator].row[y]
    BY <1>2, GroupParts DEF UpdateMemberRole, PutRow
<1>4. n.type = "RoleChange" /\ n.member = x /\ n.role = role /\ n.version = v + 1
    BY <1>1 DEF RoleFrame
<1>5. view'[Creator] = g /\ msgs' = msgs \cup {n} /\ key'[Creator] = key[Creator]
    BY <1>1 DEF Promotes, TypeOK
<1> HIDE DEF g, v
<1>6. Changes' = Changes \cup {n} /\ Acceptances' = Acceptances /\ Rotations' = Rotations
    BY <1>4, <1>5 DEF Changes, Acceptances, Rotations, IsChange
<1>7. Adds(n) /\ Stamp(n) = v + 1
    BY <1>2, <1>3, <1>4, <1>5, <1>6 DEF Adds, IsChange, Base, Stamp, v
<1>8. \A y \in Device : /\ g.row[y].kem = view[Creator].row[y].kem
                        /\ HasMember(view[Creator], y) => HasMember(g, y)
                        /\ IsActive(g, y) => IsActive(view[Creator], y)
                        /\ g.row[y].role = IF y = x THEN role ELSE view[Creator].row[y].role
    BY <1>3 DEF SetRole, HasMember, IsActive
<1>9. Chained'
    BY <1>7, ChainGrows DEF LogInv
<1>10. RolesLogged'
  <2>1. \A y \in Device : view'[Creator].row[y].role =
            IF Sets(n, y) THEN RoleSet(n) ELSE view[Creator].row[y].role
    BY <1>4, <1>5, <1>8 DEF Sets, RoleSet
  <2> QED
    BY <1>6, <1>7, <2>1, RolesGrow DEF LogInv
<1>11. KeysLogged'
  <2>1. Rotations' = Rotations \cup {} /\ n.type # "KeyRotation"
    BY <1>4, <1>6
  <2> QED
    BY <1>5, <1>6, <1>7, <2>1, KeysGrow DEF LogInv
<1>12. Announced'
  <2>1. \A m \in Changes : Stamp(m) < Stamp(n) /\ Stamp(m) \in Nat
    BY <1>2, <1>7, Stamps DEF LogInv, Chained, v
  <2>2. WrittenAt(RoleLog(x), v, view[Creator].row[x].role) /\ view[Creator].row[x].role # "None"
    BY <1>2, RoleIsPresence DEF LogInv, RolesLogged, v
  <2>3. \E l \in Changes : l.type = "MemberAdded" /\ l.member = n.member
    BY <1>2, <1>4, <2>2, RoleAnnounced DEF LogInv
  <2> QED
    BY <1>2, <1>4, <1>5, <1>6, <1>7, <1>8, <2>1, <2>3, AnnouncedKept DEF LogInv
<1>13. WrapsFit'
  <2> SUFFICES ASSUME NEW m \in Rotations, NEW j \in Acceptances,
                      IsActive(g, j.to), j.version < m.gen
               PROVE  m.removed # j.to /\ m.wraps[j.to] = j.kem
    BY <1>5, <1>6 DEF WrapsFit
  <2> QED
    BY <1>8, Stamps DEF LogInv, WrapsFit
<1> QED
    BY <1>9, <1>10, <1>11, <1>12, <1>13 DEF LogInv

\* A new group has an empty log.
LEMMA InitLog == Init => AdminInv /\ LogInv
<1> SUFFICES ASSUME Init PROVE AdminInv /\ LogInv
    OBVIOUS
<1> USE CreatorAssumption
<1>1. /\ view[Creator] = CreateGroup(Creator, 1)
      /\ \A d \in Device \ {Creator} : view[d] = NoGroup
    BY DEF Init
<1>2. /\ CreateGroup(Creator, 1).version = 1
      /\ CreateGroup(Creator, 1).row[Creator] = [status |-> "Active", role |-> "Owner", kem |-> 1]
      /\ \A x \in Device \ {Creator} : CreateGroup(Creator, 1).row[x] = NoRow
    BY DEF CreateGroup, PutRow, NoGroup
<1>3. Changes = {} /\ Acceptances = {} /\ Rotations = {}
    BY DEF Init, Changes, Acceptances, Rotations
<1>4. Home /\ PlainViews
    BY <1>1, <1>2 DEF Init, Home, PlainViews, HasGroup, SoleAdmin, Plain, NoRow
<1>5. OneInviter /\ JoinersAccepted /\ Frames
    BY <1>1 DEF Init, OneInviter, JoinersAccepted, Frames, HasGroup, NoGroup
<1>6. Chained /\ Announced /\ WrapsFit
    BY <1>1, <1>2, <1>3 DEF Chained, Announced, WrapsFit
<1>7. RolesLogged
  <2> SUFFICES ASSUME NEW x \in Device
               PROVE  WrittenAt(RoleLog(x), 1, view[Creator].row[x].role)
    BY <1>1, <1>2, <1>3 DEF RolesLogged
  <2>1. RoleLog(x) = {Write(0, view[Creator].row[x].role)}
    BY <1>1, <1>2, <1>3 DEF RoleLog, NoRow
  <2> QED
    BY <2>1, WriteParts DEF WrittenAt
<1>8. KeysLogged
  <2>1. KeyLog = {Write(0, 1)}
    BY <1>3 DEF KeyLog
  <2>2. key[Creator] = 1 /\ view[Creator].version = 1
    BY <1>1, <1>2 DEF Init
  <2>3. WrittenAt(KeyLog, 1, 1)
    BY <2>1, WriteParts DEF WrittenAt
  <2> QED
    BY <1>3, <2>2, <2>3 DEF KeysLogged
<1> QED
    BY <1>4, <1>5, <1>6, <1>7, <1>8 DEF AdminInv, LogInv

\* Every kind of step keeps the log.
LEMMA KindLog ==
    ASSUME TypeOK, TypeOK', AdminInv, LogInv,
           Silent \/ Administers \/ \E d \in Device : \E m \in msgs : Adopts(d, m)
    PROVE  LogInv'
<1>1. CASE Silent
    BY <1>1, LogFrame DEF Silent
<1>2. CASE Administers
    BY <1>2, AdmitLog, RotateLog, PromoteLog DEF Administers
<1>3. ASSUME NEW d \in Device, NEW m \in msgs, Adopts(d, m) PROVE LogInv'
  <2>1. d # Creator /\ msgs' = msgs
    BY <1>3 DEF Adopts
  <2>2. view'[Creator] = view[Creator] /\ key'[Creator] = key[Creator]
    BY <1>3, <2>1, CreatorAssumption
       DEF Adopts, ReceiveJoinAccepted, ReceiveMemberAdded, ReceiveRoleChange, InstallRotation,
           MissRotation, LearnOwnRemoval, TypeOK
  <2>3. Changes' = Changes /\ Acceptances' = Acceptances
    BY <2>1 DEF Changes, Acceptances
  <2> QED
    BY <2>1, <2>2, <2>3, LogFrame
<1> QED
    BY <1>1, <1>2, <1>3

--------------------------------------------------------------------------------
\* The perfect network is a network

\* JoinAccepted and MemberAdded are published together.
Paired == \A j \in Acceptances : AddedFor(j) \in msgs

\* What a step publishes
PublishCases ==
    \/ msgs' = msgs
    \/ \E f : f.type # "MemberAdded" /\ f.type # "JoinAccepted" /\ msgs' = msgs \cup {f}
    \/ \E j : j.type = "JoinAccepted" /\ msgs' = msgs \cup {j, AddedFor(j)}

LEMMA LocalPublishes ==
    ASSUME NEW d \in Device, Local(d)
    PROVE  PublishCases
<1>1. CASE CreateInvite(d) \/ ExpireInvite(d) \/ Restart(d) \/ \E i \in Device : ExpirePending(d, i)
    BY <1>1 DEF CreateInvite, ExpireInvite, Restart, ExpirePending, PublishCases
<1>2. ASSUME NEW i \in Device, AcceptInvite(d, i) PROVE PublishCases
  <2>1. PICK f : f = [type |-> "RequestJoin", from |-> d, code |-> i, kem |-> attempts[d] + 1]
    OBVIOUS
  <2>2. f.type = "RequestJoin" /\ msgs' = msgs \cup {f}
    BY <1>2, <2>1 DEF AcceptInvite, Publish
  <2> QED
    BY <2>2 DEF PublishCases
<1>3. ASSUME NEW x, RemoveMemberOp(d, x) PROVE PublishCases
  <2>1. PICK f : f = [type |-> "KeyRotation", from |-> d, removed |-> x,
                      gen |-> RemoveMember(view[d], x).version,
                      wraps |-> Wraps(RemoveMember(view[d], x), d), key |-> nextKey]
    OBVIOUS
  <2>2. f.type = "KeyRotation" /\ msgs' = msgs \cup {f}
    BY <1>3, <2>1 DEF RemoveMemberOp, Publish
  <2> QED
    BY <2>2 DEF PublishCases
<1>4. ASSUME NEW x, NEW role, PromoteMember(d, x, role) PROVE PublishCases
  <2>1. PICK f : f = [type |-> "RoleChange", from |-> d, member |-> x, role |-> role,
                      version |-> UpdateMemberRole(view[d], x, role).version]
    OBVIOUS
  <2>2. f.type = "RoleChange" /\ msgs' = msgs \cup {f}
    BY <1>4, <2>1 DEF PromoteMember, Publish
  <2> QED
    BY <2>2 DEF PublishCases
<1>5. ASSUME NEW x, TransferOwnership(d, x) PROVE PublishCases
  <2>1. PICK f : f = [type |-> "OwnershipTransfer", from |-> d, to |-> x,
                      version |-> view[d].version + 1]
    OBVIOUS
  <2>2. f.type = "OwnershipTransfer" /\ msgs' = msgs \cup {f}
    BY <1>5, <2>1 DEF TransferOwnership, Publish
  <2> QED
    BY <2>2 DEF PublishCases
<1>6. CASE SendGroupMessage(d)
  <2>1. PICK f : f = [type |-> "GroupMessage", from |-> d, gen |-> view[d].version, key |-> key[d]]
    OBVIOUS
  <2>2. f.type = "GroupMessage" /\ msgs' = msgs \cup {f}
    BY <1>6, <2>1 DEF SendGroupMessage, Publish
  <2> QED
    BY <2>2 DEF PublishCases
<1> QED
    BY <1>1, <1>2, <1>3, <1>4, <1>5, <1>6 DEF Local

LEMMA ReceivePublishes ==
    ASSUME NEW d \in Device, NEW m, Receive(d, m)
    PROVE  PublishCases
<1>1. CASE AcceptRequestJoin(d, m)
  <2> DEFINE g == SetMemberKyberPub(AddMember(view[d], m.from), m.from, m.kem)
  <2>1. PICK j : j = [type |-> "JoinAccepted", from |-> d, to |-> m.from,
                      row |-> Snapshot(g, Members(g)), version |-> g.version,
                      kem |-> m.kem, key |-> IF key[d] = 0 THEN nextKey ELSE key[d]]
    OBVIOUS
  <2>2. AddedFor(j) = [type |-> "MemberAdded", from |-> d, member |-> m.from,
                       kem |-> m.kem, version |-> g.version]
    BY <2>1 DEF AddedFor
  <2>3. j.type = "JoinAccepted" /\ msgs' = msgs \cup {j, AddedFor(j)}
    BY <1>1, <2>1, <2>2 DEF AcceptRequestJoin, Publish
  <2> QED
    BY <2>3 DEF PublishCases
<1>2. CASE RejectRequestJoin(d, m)
  <2>1. PICK f : f = [type |-> "JoinRejected", from |-> d, to |-> m.from, kem |-> m.kem]
    OBVIOUS
  <2>2. f.type = "JoinRejected" /\ msgs' = msgs \cup {f}
    BY <1>2, <2>1 DEF RejectRequestJoin, Publish
  <2> QED
    BY <2>2 DEF PublishCases
<1>3. CASE ReceiveGroupMessage(d, m)
  <2>1. PICK f : f = [type |-> "MessageAck", from |-> d, of |-> m]
    OBVIOUS
  <2>2. f.type = "MessageAck" /\ msgs' = msgs \cup {f}
    BY <1>3, <2>1 DEF ReceiveGroupMessage, Publish
  <2> QED
    BY <2>2 DEF PublishCases
<1>4. CASE msgs' = msgs
    BY <1>4 DEF PublishCases
<1> QED
    BY <1>1, <1>2, <1>3, <1>4
       DEF Receive, ReceiveJoinAccepted, FailJoinAccepted, ReceiveJoinRejected, ReceiveMemberAdded,
           InstallRotation, MissRotation, LearnOwnRemoval, ReceiveRoleChange,
           ReceiveOwnershipTransfer, ReceiveMessageAck

\* Published is what was added to msgs, an acceptance before its announcement.
LEMMA PublishedIs ==
    ASSUME Paired, PublishCases
    PROVE  /\ Paired' /\ msgs \subseteq msgs'
           /\ \/ msgs' = msgs /\ Published = <<>>
              \/ \E f : f.type # "MemberAdded" /\ msgs' \ msgs = {f} /\ Published = <<f>>
              \/ \E j : /\ j.type = "JoinAccepted" /\ msgs' \ msgs = {j, AddedFor(j)}
                        /\ Published = <<j, AddedFor(j)>>
<1>1. \A j : AddedFor(j).type = "MemberAdded"
    BY DEF AddedFor
<1>2. CASE msgs' = msgs
  <2>1. Paired' /\ msgs' \ msgs = {}
    BY <1>2 DEF Paired, Acceptances
  <2> QED
    BY <1>2, <2>1 DEF Published
<1>3. ASSUME NEW f, f.type # "MemberAdded", f \notin msgs, msgs' \ msgs = {f}
      PROVE  Published = <<f>>
    BY <1>3 DEF Published
<1>4. ASSUME NEW f, f.type # "MemberAdded" /\ f.type # "JoinAccepted" /\ msgs' = msgs \cup {f}, f \notin msgs
      PROVE  /\ Paired' /\ msgs \subseteq msgs'
             /\ f.type # "MemberAdded" /\ msgs' \ msgs = {f} /\ Published = <<f>>
  <2>1. msgs' \ msgs = {f}
    BY <1>4
  <2>2. Paired'
    BY <1>4 DEF Paired, Acceptances
  <2> QED
    BY <1>3, <1>4, <2>1, <2>2
<1>5. ASSUME NEW j, j.type = "JoinAccepted" /\ msgs' = msgs \cup {j, AddedFor(j)}, msgs' # msgs
      PROVE  /\ Paired' /\ msgs \subseteq msgs'
             /\ \/ msgs' \ msgs = {j} /\ Published = <<j>>
                \/ msgs' \ msgs = {j, AddedFor(j)} /\ Published = <<j, AddedFor(j)>>
  <2>1. Paired'
    BY <1>1, <1>5 DEF Paired, Acceptances
  <2>2. j \notin msgs
    BY <1>5 DEF Paired, Acceptances
  <2>3. CASE AddedFor(j) \in msgs
    <3>1. msgs' \ msgs = {j}
      BY <1>5, <2>2, <2>3
    <3> QED
      BY <1>3, <1>5, <2>1, <2>2, <3>1
  <2>4. CASE AddedFor(j) \notin msgs
    <3>1. msgs' \ msgs = {j, AddedFor(j)}
      BY <1>5, <2>2, <2>4
    <3> DEFINE new == msgs' \ msgs
               n == AddedFor(j)
    <3>2. n.type = "MemberAdded" /\ j.type # "MemberAdded" /\ new = {j, n}
      BY <1>1, <1>5, <3>1
    <3> HIDE DEF new, n
    <3>3. (CHOOSE m \in new : m.type # "MemberAdded") = j /\ (CHOOSE m \in new : m.type = "MemberAdded") = n
      BY <3>2
    <3>4. new # {} /\ \E m \in new : m.type = "MemberAdded"
      BY <3>2
    <3>5. Published = <<j, n>>
      BY <3>3, <3>4 DEF Published, new
    <3> QED
      BY <1>5, <2>1, <3>1, <3>5 DEF n
  <2> QED
    BY <2>3, <2>4
<1>6. ASSUME NEW f, f.type # "MemberAdded" /\ f.type # "JoinAccepted" /\ msgs' = msgs \cup {f}, msgs' # msgs
      PROVE  f \notin msgs
    BY <1>6
<1>7. ASSUME msgs' # msgs, NEW j, j.type = "JoinAccepted" /\ msgs' = msgs \cup {j, AddedFor(j)}
      PROVE  /\ Paired' /\ msgs \subseteq msgs'
             /\ \/ \E f : f.type # "MemberAdded" /\ msgs' \ msgs = {f} /\ Published = <<f>>
                \/ \E k : /\ k.type = "JoinAccepted" /\ msgs' \ msgs = {k, AddedFor(k)}
                          /\ Published = <<k, AddedFor(k)>>
  <2>1. j.type = "JoinAccepted" /\ j.type # "MemberAdded"
    BY <1>7
  <2>2. /\ Paired' /\ msgs \subseteq msgs'
        /\ \/ msgs' \ msgs = {j} /\ Published = <<j>>
           \/ msgs' \ msgs = {j, AddedFor(j)} /\ Published = <<j, AddedFor(j)>>
    BY <1>5, <1>7
  <2>3. CASE msgs' \ msgs = {j} /\ Published = <<j>>
    BY <2>1, <2>2, <2>3, Zenon
  <2>4. CASE msgs' \ msgs = {j, AddedFor(j)} /\ Published = <<j, AddedFor(j)>>
    BY <2>1, <2>2, <2>4, Zenon
  <2> QED
    BY <2>2, <2>3, <2>4
<1>8. ASSUME msgs' # msgs, NEW f, f.type # "MemberAdded" /\ f.type # "JoinAccepted" /\ msgs' = msgs \cup {f}
      PROVE  /\ Paired' /\ msgs \subseteq msgs'
             /\ \E g : g.type # "MemberAdded" /\ msgs' \ msgs = {g} /\ Published = <<g>>
    BY <1>4, <1>6, <1>8, Zenon
<1> QED
  <2>1. CASE msgs' # msgs
    BY <1>7, <1>8, <2>1, Zenon DEF PublishCases
  <2> QED
    BY <1>2, <2>1

\* What a step of the perfect network does to the channels: the actor d takes its
\* next frame or none, the others get what d published.
Pops(d) == chan[d] # <<>> /\ chan'[d] = Tail(chan[d])

LEMMA FifoStep ==
    ASSUME ChanType, Paired, FifoNext
    PROVE  /\ Paired' /\ ChanType' /\ PublishCases
           /\ \E d \in Device :
                 /\ \/ Local(d) /\ chan'[d] = chan[d]
                    \/ Pops(d) /\ Receive(d, chan[d][1])
                    \/ Pops(d) /\ ~Handles(d, chan[d][1]) /\ UNCHANGED vars
                 /\ \A e \in Device \ {d} :
                       chan'[e] = IF Subscribed(e) THEN chan[e] \o Published ELSE chan[e]
                 /\ chan[d] # <<>> => chan[d][1] \in msgs
<1>1. PICK d \in Device : LocalStep(d) \/ Deliver(d)
    BY DEF FifoNext
<1>2. \A e \in Device : chan[e] \in Seq(msgs)
    BY DEF ChanType
<1>3. chan[d] # <<>> => /\ Head(chan[d]) = chan[d][1] /\ chan[d][1] \in msgs
                        /\ Tail(chan[d]) \in Seq(msgs)
    BY <1>2
<1>4. PICK rest \in Seq(msgs) : Broadcast(d, rest) /\ (rest = chan[d] \/ rest = Tail(chan[d]))
    BY <1>1, <1>2, <1>3 DEF LocalStep, Deliver
<1>5. PublishCases
  <2>1. CASE LocalStep(d)
    BY <2>1, LocalPublishes DEF LocalStep
  <2>2. CASE Deliver(d)
    BY <2>2, ReceivePublishes DEF Deliver, vars, PublishCases
  <2> QED
    BY <1>1, <2>1, <2>2
<1>6. Paired' /\ msgs \subseteq msgs' /\ Published \in Seq(msgs')
  <2>1. ASSUME NEW f, msgs' \ msgs = {f}, Published = <<f>> PROVE Published \in Seq(msgs')
    BY <2>1
  <2>2. ASSUME NEW j, msgs' \ msgs = {j, AddedFor(j)}, Published = <<j, AddedFor(j)>>
        PROVE  Published \in Seq(msgs')
    <3>1. j \in msgs' /\ AddedFor(j) \in msgs'
      BY <2>2
    <3> QED
      BY <2>2, <3>1
  <2>3. Published = <<>> => Published \in Seq(msgs')
    OBVIOUS
  <2> QED
    BY <1>5, <2>1, <2>2, <2>3, PublishedIs
<1>7. chan' = [e \in Device |-> IF e = d THEN rest ELSE IF Subscribed(e) THEN chan[e] \o Published ELSE chan[e]]
    BY <1>4 DEF Broadcast
<1>8. ChanType'
  <2>1. \A e \in Device : chan[e] \in Seq(msgs')
    BY <1>2, <1>6
  <2>2. rest \in Seq(msgs')
    BY <1>6
  <2>3. \A e \in Device : chan[e] \o Published \in Seq(msgs')
    BY <1>6, <2>1
  <2> QED
    BY <1>7, <2>1, <2>2, <2>3 DEF ChanType
<1>9. \/ Local(d) /\ chan'[d] = chan[d]
      \/ Pops(d) /\ Receive(d, chan[d][1])
      \/ Pops(d) /\ ~Handles(d, chan[d][1]) /\ UNCHANGED vars
  <2>1. CASE LocalStep(d)
    BY <2>1 DEF LocalStep, Broadcast
  <2>2. CASE Deliver(d)
    <3>1. chan[d] # <<>> /\ chan'[d] = Tail(chan[d])
      BY <2>2 DEF Deliver, Broadcast
    <3> QED
      BY <1>3, <2>2, <3>1 DEF Deliver, Pops
  <2> QED
    BY <1>1, <2>1, <2>2
<1> QED
    BY <1>3, <1>5, <1>6, <1>7, <1>8, <1>9

\* The perfect network delivers only what GroupProtocol's may deliver, so that
\* every theorem of GroupProtocol holds for it: FifoSpec implements Spec.
THEOREM FifoIsProtocol == FifoSpec => Spec
<1>1. FifoInit => Init /\ ChanType /\ Paired
    BY DEF FifoInit, ChanType, Paired, Init, Acceptances
<1>2. ChanType /\ Paired /\ [FifoNext]_fifoVars => ChanType' /\ Paired' /\ [Next]_vars
  <2>1. CASE UNCHANGED fifoVars
    BY <2>1 DEF fifoVars, vars, ChanType, Paired, Acceptances
  <2>2. ASSUME ChanType, Paired, FifoNext PROVE ChanType' /\ Paired' /\ [Next]_vars
    <3>1. PICK d \in Device :
             /\ \/ Local(d)
                \/ Pops(d) /\ Receive(d, chan[d][1])
                \/ UNCHANGED vars
             /\ chan[d] # <<>> => chan[d][1] \in msgs
      BY <2>2, FifoStep
    <3>2. Next \/ UNCHANGED vars
      BY <3>1 DEF Next, Pops
    <3> QED
      BY <2>2, <3>2, FifoStep
  <2> QED
    BY <2>1, <2>2
<1> QED
    BY <1>1, <1>2, PTL DEF FifoSpec, Spec

--------------------------------------------------------------------------------
\* Positions in the channels

\* The actor's channel moves up by one.
LEMMA PopsAt ==
    ASSUME ChanType, NEW d \in Device, Pops(d)
    PROVE  /\ 1 \in Pos(d)
           /\ \A i \in Pos(d)' : i + 1 \in Pos(d) /\ i + 1 > 1 /\ chan'[d][i] = chan[d][i + 1]
           /\ \A i \in Pos(d) : i # 1 => i - 1 \in Pos(d)' /\ chan'[d][i - 1] = chan[d][i]
<1>1. chan[d] \in Seq(msgs) /\ chan[d] # <<>>
    BY DEF ChanType, Pops
<1>2. Len(chan[d]) \in Nat /\ Len(chan[d]) >= 1 /\ Len(chan'[d]) = Len(chan[d]) - 1
    BY <1>1 DEF Pops
<1>3. \A i \in 1..(Len(chan[d]) - 1) : Tail(chan[d])[i] = chan[d][i + 1]
    BY <1>1
<1>4. \A i \in Pos(d)' : i \in 1..(Len(chan[d]) - 1)
    BY <1>2 DEF Pos
<1>5. ASSUME NEW i \in Pos(d), i # 1
      PROVE  i - 1 \in Pos(d)' /\ chan'[d][i - 1] = chan[d][i]
  <2>1. i - 1 \in 1..(Len(chan[d]) - 1) /\ i - 1 + 1 = i
    BY <1>2, <1>5 DEF Pos
  <2> QED
    BY <1>2, <1>3, <2>1 DEF Pos, Pops
<1> QED
    BY <1>2, <1>3, <1>4, <1>5 DEF Pos, Pops

\* Another's channel keeps what it has and gets what is new behind it.
Kept(e) ==
    /\ \A i \in Pos(e) : i \in Pos(e)' /\ chan'[e][i] = chan[e][i]
    /\ \A i \in Pos(e)' :
          \/ i \in Pos(e)
          \/ /\ chan'[e][i] \in msgs' \ msgs
             /\ \A k \in Pos(e) : k < i
             /\ \A k \in Pos(e)' : chan'[e][k] = chan'[e][i] => k = i

\* The change n is behind everything, once.
Gets(e, n) ==
    \E k \in Pos(e)' : /\ k \notin Pos(e) /\ chan'[e][k] = n
                       /\ \A i \in Pos(e)' : i < k \/ i = k

LEMMA LenCat == \A S : \A s, t \in Seq(S) : Len(s \o t) = Len(s) + Len(t)
    OBVIOUS

\* A channel that grew by t
LEMMA GrownAt ==
    ASSUME NEW e \in Device, chan[e] \in Seq(msgs), chan[e] \in Seq(msgs'),
           NEW t \in Seq(msgs'), chan'[e] = chan[e] \o t,
           NEW n \in Nat \ {0}, Len(t) = n, \A i \in 1..n : t[i] \in msgs' \ msgs,
           \A i, k \in 1..n : t[i] = t[k] => i = k
    PROVE  Kept(e) /\ Gets(e, t[n])
<1> DEFINE l == Len(chan[e])
<1>1. /\ Len(chan'[e]) = l + n /\ l \in Nat
      /\ \A i \in 1..l : chan'[e][i] = chan[e][i]
      /\ \A i \in 1..n : chan'[e][l + i] = t[i]
  <2>0. Len(chan[e]) \in Nat
    OBVIOUS
  <2>1. Len(chan[e] \o t) = Len(chan[e]) + Len(t)
    BY LenCat, Zenon
  <2>2. \A i \in 1..Len(chan[e]) : (chan[e] \o t)[i] = chan[e][i]
    OBVIOUS
  <2>3. \A i \in 1..Len(t) : (chan[e] \o t)[Len(chan[e]) + i] = t[i]
    OBVIOUS
  <2> QED
    BY <2>0, <2>1, <2>2, <2>3
<1> HIDE DEF l
<1>2. Pos(e) = 1..l /\ Pos(e)' = 1..(l + n)
    BY <1>1 DEF Pos, l
<1>3. ASSUME NEW i \in 1..(l + n), i \notin 1..l
      PROVE  /\ chan'[e][i] \in msgs' \ msgs
             /\ \A k \in 1..l : k < i
             /\ \A k \in 1..(l + n) : chan'[e][k] = chan'[e][i] => k = i
  <2>1. i - l \in 1..n /\ l + (i - l) = i
    BY <1>1, <1>3
  <2>2. chan'[e][l + (i - l)] = t[i - l] /\ t[i - l] \in msgs' \ msgs
    BY <1>1, <2>1
  <2>3. \A k \in 1..l : k < i
    BY <1>1, <1>3
  <2>4. \A k \in 1..l : chan'[e][k] \in msgs
    BY <1>1, <1>2 DEF l
  <2>5. ASSUME NEW k \in 1..(l + n), chan'[e][k] = chan'[e][i] PROVE k = i
    <3>1. k \notin 1..l
      BY <2>1, <2>2, <2>4, <2>5
    <3>2. k - l \in 1..n /\ l + (k - l) = k
      BY <1>1, <3>1
    <3>3. chan'[e][l + (k - l)] = t[k - l]
      BY <1>1, <3>2
    <3>4. k - l = i - l
      BY <2>1, <2>2, <2>5, <3>2, <3>3
    <3> QED
      BY <1>1, <3>4
  <2> QED
    BY <2>1, <2>2, <2>3, <2>5
<1>4. Kept(e)
  <2>1. \A i \in 1..l : i \in 1..(l + n)
    BY <1>1
  <2> QED
    BY <1>1, <1>2, <1>3, <2>1 DEF Kept
<1>5. /\ l + n \in 1..(l + n) /\ l + n \notin 1..l /\ chan'[e][l + n] = t[n]
      /\ \A i \in 1..(l + n) : i < l + n \/ i = l + n
  <2>1. n \in 1..n
    OBVIOUS
  <2>2. chan'[e][l + n] = t[n]
    BY <1>1, <2>1
  <2>3. l \in Nat
    BY <1>1
  <2>4. l + n \in 1..(l + n) /\ l + n \notin 1..l /\ \A i \in 1..(l + n) : i < l + n \/ i = l + n
    BY <2>3
  <2> QED
    BY <2>2, <2>4
<1>6. Gets(e, t[n])
    BY <1>2, <1>5 DEF Gets
<1> QED
    BY <1>4, <1>6

LEMMA HearsAt ==
    ASSUME ChanType, ChanType', Paired, PublishCases, NEW e \in Device,
           chan'[e] = IF Subscribed(e) THEN chan[e] \o Published ELSE chan[e]
    PROVE  /\ Kept(e)
           /\ \A n \in msgs' \ msgs :
                 Subscribed(e) /\ (n.type = "MemberAdded" \/ msgs' \ msgs = {n}) => Gets(e, n)
<1>1. chan[e] \in Seq(msgs) /\ chan[e] \in Seq(msgs')
  <2>1. chan[e] \in Seq(msgs) /\ msgs \subseteq msgs'
    BY PublishedIs DEF ChanType
  <2> QED
    BY <2>1
<1>2. chan'[e] = chan[e] => Kept(e)
    BY DEF Kept, Pos
<1>3. CASE ~Subscribed(e)
    BY <1>2, <1>3
<1>4. CASE Subscribed(e) /\ msgs' = msgs /\ Published = <<>>
  <2>1. chan'[e] = chan[e] /\ msgs' \ msgs = {}
    BY <1>1, <1>4
  <2> QED
    BY <1>2, <2>1
<1>5. ASSUME Subscribed(e), NEW f, msgs' \ msgs = {f}, Published = <<f>> PROVE Kept(e) /\ Gets(e, f)
  <2>1. /\ f \in msgs' /\ Published \in Seq(msgs') /\ Len(Published) = 1 /\ Published[1] = f
        /\ chan'[e] = chan[e] \o Published
    BY <1>5
  <2>2. PICK t \in Seq(msgs') : t = Published
    BY <2>1
  <2>3. Len(t) = 1 /\ (\A i \in 1..1 : t[i] \in msgs' \ msgs) /\ \A i, k \in 1..1 : t[i] = t[k] => i = k
    BY <1>5, <2>1, <2>2
  <2>9. 1 \in Nat \ {0} /\ chan'[e] = chan[e] \o t
    BY <2>1, <2>2
  <2>4. Kept(e) /\ Gets(e, t[1])
    BY <1>1, <2>1, <2>2, <2>3, <2>9, GrownAt
  <2> QED
    BY <2>1, <2>2, <2>4
<1>6. ASSUME Subscribed(e), NEW j, NEW n, j # n, msgs' \ msgs = {j, n}, Published = <<j, n>>
      PROVE  Kept(e) /\ Gets(e, n)
  <2>1. /\ j \in msgs' /\ n \in msgs' /\ Published \in Seq(msgs') /\ Len(Published) = 2
        /\ Published[1] = j /\ Published[2] = n /\ chan'[e] = chan[e] \o Published
    BY <1>6
  <2>2. PICK t \in Seq(msgs') : t = Published
    BY <2>1
  <2>3. Len(t) = 2 /\ (\A i \in 1..2 : t[i] \in msgs' \ msgs) /\ \A i, k \in 1..2 : t[i] = t[k] => i = k
    BY <1>6, <2>1, <2>2
  <2>9. 2 \in Nat \ {0} /\ chan'[e] = chan[e] \o t
    BY <2>1, <2>2
  <2>4. Kept(e) /\ Gets(e, t[2])
    BY <1>1, <2>1, <2>2, <2>3, <2>9, GrownAt
  <2> QED
    BY <2>1, <2>2, <2>4
<1>7. ASSUME Subscribed(e), NEW j, j.type = "JoinAccepted", msgs' \ msgs = {j, AddedFor(j)},
             Published = <<j, AddedFor(j)>>
      PROVE  /\ Kept(e)
             /\ \A n \in msgs' \ msgs : (n.type = "MemberAdded" \/ msgs' \ msgs = {n}) => Gets(e, n)
  <2>1. PICK a : a = AddedFor(j)
    OBVIOUS
  <2>2. a.type = "MemberAdded" /\ a # j
    BY <1>7, <2>1 DEF AddedFor
  <2>3. Kept(e) /\ Gets(e, a)
    BY <1>6, <1>7, <2>1, <2>2
  <2> QED
    BY <1>7, <2>1, <2>2, <2>3
<1>8. ASSUME Subscribed(e), NEW f, msgs' \ msgs = {f}, Published = <<f>>
      PROVE  /\ Kept(e)
             /\ \A n \in msgs' \ msgs : (n.type = "MemberAdded" \/ msgs' \ msgs = {n}) => Gets(e, n)
    BY <1>5, <1>8
<1> QED
    BY <1>3, <1>4, <1>7, <1>8, PublishedIs, Zenon

--------------------------------------------------------------------------------
\* What the Creator's step adds, seen from the others

\* n is the one new change; what else is new is the acceptance it announces.
Grows(n) ==
    /\ Adds(n) /\ msgs \subseteq msgs' /\ n \in msgs' \ msgs
    /\ n.type = "MemberAdded" \/ msgs' \ msgs = {n}
    /\ \A f \in msgs' \ msgs :
          \/ f = n
          \/ /\ f.type = "JoinAccepted" /\ AddedFor(f) = n /\ f.version = view'[Creator].version
             /\ f.to \in Device \ {Creator} /\ attempts[f.to] # 0 /\ ~HasMember(view[Creator], f.to)
    /\ \A e \in Device \ {Creator} :
          view'[e] = view[e] /\ key'[e] = key[e] /\ secret'[e] = secret[e]
    /\ \A y \in Device : HasMember(view[Creator], y) /\ IsActive(view'[Creator], y)
                         => IsActive(view[Creator], y)

\* A change that leads to a new version is new.
LEMMA AddsNew ==
    ASSUME TypeOK, TypeOK', AdminInv, Chained, NEW n, Adds(n)
    PROVE  /\ n \notin msgs /\ Stamp(n) \in Nat /\ view[Creator].version < Stamp(n)
           /\ \A m \in Changes : Stamp(m) < Stamp(n)
<1>1. view[Creator].version \in Nat /\ view'[Creator].version \in Nat
    BY Stamps, CreatorAssumption, GroupParts DEF TypeOK
<1>2. Base(n) < Stamp(n)
    BY <1>1 DEF Adds, Base
<1>3. Stamp(n) \in Nat /\ view[Creator].version < Stamp(n)
    BY <1>1, <1>2 DEF Adds
<1>4. \A m \in Changes : Stamp(m) < Stamp(n)
    BY <1>1, <1>3, Stamps DEF Chained
<1>5. n \notin msgs
    BY <1>3, <1>4 DEF Changes, Adds
<1> QED
    BY <1>3, <1>4, <1>5

LEMMA AdministersGrows ==
    ASSUME TypeOK, TypeOK', AdminInv, LogInv, Administers
    PROVE  \E n : Grows(n)
<1> USE CreatorAssumption
<1> DEFINE v == view[Creator].version
<1>0. view[Creator] \in Group /\ v \in Nat
    BY Stamps DEF TypeOK
<1>1. ASSUME NEW x \in Device, NEW kem \in Nat, Admits(x, kem) PROVE \E n : Grows(n)
  <2> DEFINE g == Enrolled(x, kem)
  <2>1. PICK j : j = JoinFrame(x, kem)
    OBVIOUS
  <2>2. PICK n : n = AddedFor(j)
    OBVIOUS
  <2>3. SoleAdmin(view[Creator].row) /\ x # Creator /\ ~HasMember(view[Creator], x) /\ attempts[x] # 0
    BY <1>1 DEF AdminInv, PlainViews, Home, HasGroup, NoGroup, Admits
  <2>4. g \in Group /\ g.version = v + 2
    BY <1>0, <1>1, <2>3, EnrolPlain DEF Enrolled
  <2>5. \A y \in Device \ {x} : g.row[y] = view[Creator].row[y]
    BY <1>0, GroupParts DEF Enrolled, SetMemberKyberPub, AddMember, PutRow, SetKem
  <2>6. /\ j.type = "JoinAccepted" /\ j.to = x /\ j.version = v + 2
        /\ n.type = "MemberAdded" /\ n.version = v + 2
    BY <2>1, <2>2, <2>4 DEF JoinFrame, AddedFor
  <2>7. /\ view'[Creator] = g /\ msgs' = msgs \cup {j, n}
        /\ \A e \in Device \ {Creator} : view'[e] = view[e] /\ key'[e] = key[e] /\ secret'[e] = secret[e]
    BY <1>1, <2>1, <2>2 DEF Admits, TypeOK
  <2> HIDE DEF g, v
  <2>8. Changes' = Changes \cup {n}
    BY <2>6, <2>7 DEF Changes, IsChange
  <2>9. Adds(n)
    BY <1>0, <2>4, <2>6, <2>7, <2>8 DEF Adds, IsChange, Base, Stamp, v
  <2>10. n \notin msgs
    BY <2>9, AddsNew DEF LogInv
  <2>11. \A y \in Device : HasMember(view[Creator], y) /\ IsActive(view'[Creator], y)
                           => IsActive(view[Creator], y)
    BY <2>3, <2>5, <2>7 DEF IsActive
  <2>12. Grows(n)
    BY <2>2, <2>3, <2>4, <2>6, <2>7, <2>9, <2>10, <2>11 DEF Grows
  <2> QED
    BY <2>12
<1>2. ASSUME NEW n, Adds(n), msgs' = msgs \cup {n},
             \A e \in Device \ {Creator} : view'[e] = view[e] /\ key'[e] = key[e] /\ secret'[e] = secret[e],
             \A y \in Device : IsActive(view'[Creator], y) => IsActive(view[Creator], y)
      PROVE  Grows(n)
  <2>1. n \notin msgs
    BY <1>2, AddsNew DEF LogInv
  <2>2. msgs' \ msgs = {n}
    BY <1>2, <2>1
  <2> QED
    BY <1>2, <2>2 DEF Grows
<1>3. ASSUME NEW x \in Device, Rotates(x) PROVE \E n : Grows(n)
  <2> DEFINE g == RemoveMember(view[Creator], x)
  <2>1. PICK n : n = RotationFrame(x)
    OBVIOUS
  <2>2. /\ g.version = v + 1 /\ \A y \in Device \ {x} : g.row[y] = view[Creator].row[y]
        /\ g.row[x].status = "Removed"
    BY <1>0, <1>3, GroupParts DEF RemoveMember, PutRow, SetStatus, Rotates
  <2>3. n.type = "KeyRotation" /\ n.gen = v + 1
    BY <2>1 DEF RotationFrame
  <2>4. /\ view'[Creator] = g /\ msgs' = msgs \cup {n}
        /\ \A e \in Device \ {Creator} : view'[e] = view[e] /\ key'[e] = key[e] /\ secret'[e] = secret[e]
    BY <1>3, <2>1 DEF Rotates, TypeOK
  <2> HIDE DEF g, v
  <2>5. Changes' = Changes \cup {n}
    BY <2>3, <2>4 DEF Changes, IsChange
  <2>6. Adds(n)
    BY <1>0, <2>2, <2>3, <2>4, <2>5 DEF Adds, IsChange, Base, Stamp, v
  <2>7. \A y \in Device : IsActive(view'[Creator], y) => IsActive(view[Creator], y)
    BY <2>2, <2>4 DEF IsActive
  <2> QED
    BY <1>2, <2>4, <2>6, <2>7
<1>4. ASSUME NEW x \in Device, NEW role \in Plain, Promotes(x, role) PROVE \E n : Grows(n)
  <2> DEFINE g == UpdateMemberRole(view[Creator], x, role)
  <2>1. PICK n : n = RoleFrame(x, role)
    OBVIOUS
  <2>2. g.version = v + 1 /\ \A y \in Device : g.row[y].status = view[Creator].row[y].status
    BY <1>0, GroupParts DEF UpdateMemberRole, PutRow, SetRole
  <2>3. n.type = "RoleChange" /\ n.version = v + 1
    BY <2>1 DEF RoleFrame
  <2>4. /\ view'[Creator] = g /\ msgs' = msgs \cup {n}
        /\ \A e \in Device \ {Creator} : view'[e] = view[e] /\ key'[e] = key[e] /\ secret'[e] = secret[e]
    BY <1>4, <2>1 DEF Promotes, TypeOK
  <2> HIDE DEF g, v
  <2>5. Changes' = Changes \cup {n}
    BY <2>3, <2>4 DEF Changes, IsChange
  <2>6. Adds(n)
    BY <1>0, <2>2, <2>3, <2>4, <2>5 DEF Adds, IsChange, Base, Stamp, v
  <2>7. \A y \in Device : IsActive(view'[Creator], y) => IsActive(view[Creator], y)
    BY <2>2, <2>4 DEF IsActive
  <2> QED
    BY <1>2, <2>4, <2>6, <2>7
<1> QED
    BY <1>1, <1>3, <1>4 DEF Administers

--------------------------------------------------------------------------------
\* The channels of those who watch

\* What the log said before a new change it still says.
LEMMA LogPast ==
    ASSUME TypeOK, TypeOK', AdminInv, Chained, NEW n, Adds(n),
           NEW v \in Nat, v <= view[Creator].version
    PROVE  /\ \A x \in Device : \A r : WrittenAt(RoleLog(x), v, r) => WrittenAt(RoleLog(x)', v, r)
           /\ \A r : WrittenAt(KeyLog, v, r) => WrittenAt(KeyLog', v, r)
<1>1. Stamp(n) \in Nat /\ v < Stamp(n) /\ Changes' = Changes \cup {n}
    BY AddsNew, Stamps DEF Adds
<1>2. ASSUME NEW x \in Device, NEW r, WrittenAt(RoleLog(x), v, r) PROVE WrittenAt(RoleLog(x)', v, r)
  <2> DEFINE N == {Write(Stamp(m), RoleSet(m)) : m \in {l \in {n} : Sets(l, x)}}
  <2>1. RoleLog(x)' = RoleLog(x) \cup N
    BY <1>1 DEF RoleLog
  <2>2. \A u \in N : ~(u.stamp <= v)
    BY <1>1, WriteParts
  <2> HIDE DEF N
  <2>3. WrittenAt(RoleLog(x) \cup N, v, r)
    BY <1>2, <2>2, WrittenBefore
  <2> QED
    BY <2>1, <2>3
<1>3. ASSUME NEW r, WrittenAt(KeyLog, v, r) PROVE WrittenAt(KeyLog', v, r)
  <2> DEFINE N == {Write(m.gen, m.key) : m \in {l \in {n} : l.type = "KeyRotation"}}
  <2>1. Rotations' = Rotations \cup {l \in {n} : l.type = "KeyRotation"}
    <3>1. Rotations = {m \in Changes : m.type = "KeyRotation"}
      BY DEF Rotations, Changes, IsChange
    <3>2. Rotations' = {m \in Changes' : m.type = "KeyRotation"}
      BY DEF Rotations, Changes, IsChange
    <3> QED
      BY <1>1, <3>1, <3>2
  <2>2. KeyLog' = KeyLog \cup N
    BY <2>1 DEF KeyLog
  <2>3. \A u \in N : ~(u.stamp <= v)
    BY <1>1, WriteParts DEF Stamp
  <2> HIDE DEF N
  <2> QED
    BY <1>3, <2>2, <2>3, WrittenBefore
<1> QED
    BY <1>2, <1>3

\* What a channel has was published.
LEMMA ChanAt ==
    ASSUME ChanType, NEW e \in Device, NEW i \in Pos(e)
    PROVE  chan[e][i] \in msgs /\ i \in Nat
    BY DEF ChanType, Pos

\* Nothing is added to the log: the device that watches stays where it was.
LEMMA QuietMember ==
    ASSUME ChanType, ChanType', NEW e \in Device, MemberInv(e), Kept(e),
           Changes' = Changes, Acceptances' = Acceptances, view'[Creator] = view[Creator],
           view'[e] = view[e], key'[e] = key[e], secret'[e] = secret[e]
    PROVE  MemberInv(e)'
<1>1. \A i \in Pos(e)' : i \in Pos(e) \/ ~(IsChange(chan'[e][i]) \/ chan'[e][i] \in Acceptances)
  <2>1. \A f \in msgs' \ msgs : ~IsChange(f) /\ f \notin Acceptances
    BY DEF Changes, Acceptances
  <2> QED
    BY <2>1 DEF Kept
<1>2. \A i \in Pos(e) : i \in Pos(e)' /\ chan'[e][i] = chan[e][i]
    BY DEF Kept
<1>3. HasGroup(e)' <=> HasGroup(e)
    BY DEF HasGroup
<1>4. InOrder(e)'
    BY <1>1, <1>2 DEF MemberInv, InOrder
<1>5. Awaited(e)'
  <2> SUFFICES ASSUME NEW j \in Acceptances, NEW i \in Pos(e)', j.to = e, chan'[e][i] = j
               PROVE  Awaits(j, i)'
    BY DEF Awaited
  <2>1. i \in Pos(e) /\ chan[e][i] = j
    BY <1>1, <1>2
  <2>2. Awaits(j, i)
    BY <2>1 DEF MemberInv, Awaited
  <2>3. \A k \in Pos(e)' : chan'[e][k] = j => k = i
    BY <1>1, <1>2, <2>2 DEF Awaits
  <2>4. \A m \in Changes : Stamp(m) >= j.version => \E k \in Pos(e)' : k > i /\ chan'[e][k] = m
    BY <1>2, <2>2 DEF Awaits
  <2>5. \A k \in Pos(e)' : k > i /\ IsChange(chan'[e][k]) => Stamp(chan'[e][k]) >= j.version
    BY <1>1, <1>2, <2>2 DEF Awaits
  <2> QED
    BY <1>3, <2>2, <2>3, <2>4, <2>5 DEF Awaits
<1>6. Followed(e)'
  <2> SUFFICES ASSUME e \in Joined, e # Creator PROVE Follows(e)'
    BY <1>3 DEF Followed, Joined, IsActive
  <2>1. Follows(e)
    BY DEF MemberInv, Followed
  <2>2. Rotations' = Rotations
    BY DEF Rotations, Changes, IsChange
  <2>3. KeyLog' = KeyLog /\ \A x \in Device : RoleLog(x)' = RoleLog(x)
    BY <2>2 DEF KeyLog, RoleLog
  <2>4. \A m \in Changes : Stamp(m) > view[e].version => \E i \in Pos(e)' : chan'[e][i] = m
    BY <1>2, <2>1 DEF Follows
  <2>5. \A i \in Pos(e)' : IsChange(chan'[e][i]) =>
           \/ Stamp(chan'[e][i]) > view[e].version
           \/ chan'[e][i].type = "MemberAdded" /\ chan'[e][i].member = e
    BY <1>1, <1>2, <2>1 DEF Follows
  <2> QED
    BY <2>1, <2>3, <2>4, <2>5 DEF Follows
<1> QED
    BY <1>4, <1>5, <1>6 DEF MemberInv

\* A member that joined stands in the Creator's record.
LEMMA JoinedHasMember ==
    ASSUME TypeOK, AdminInv, Announced, NEW e \in Device \ {Creator}, HasGroup(e)
    PROVE  HasMember(view[Creator], e)
    BY DEF AdminInv, JoinersAccepted, Announced

\* The Creator adds a change: it comes to everybody's channel last.
LEMMA GrowsMember ==
    ASSUME TypeOK, TypeOK', ChanType, ChanType', AdminInv, LogInv,
           NEW e \in Device \ {Creator}, MemberInv(e), NEW n, Grows(n), Kept(e),
           Subscribed(e) => Gets(e, n), ~Subscribed(e) => chan'[e] = chan[e]
    PROVE  MemberInv(e)'
<1>1. /\ Stamp(n) \in Nat /\ view[Creator].version < Stamp(n) /\ IsChange(n)
      /\ \A m \in Changes : Stamp(m) < Stamp(n) /\ Stamp(m) \in Nat
      /\ Changes' = Changes \cup {n} /\ n \notin msgs
    BY AddsNew, Stamps DEF Grows, Adds, LogInv
<1>2. \A i \in Pos(e) : i \in Pos(e)' /\ chan'[e][i] = chan[e][i] /\ chan[e][i] \in msgs /\ i \in Nat
    BY ChanAt DEF Kept
<1>3. \A i \in Pos(e)' : i \in Nat
    BY DEF Pos
<1>4. \A i \in Pos(e)' : i \notin Pos(e) =>
         /\ Subscribed(e) /\ chan'[e][i] \in msgs' \ msgs /\ \A k \in Pos(e) : k < i
         /\ \A k \in Pos(e)' : chan'[e][k] = chan'[e][i] => k = i
         /\ IsChange(chan'[e][i]) => chan'[e][i] = n
  <2>1. ~Subscribed(e) => Pos(e)' = Pos(e)
    BY DEF Pos
  <2>2. \A f \in msgs' \ msgs : IsChange(f) => f = n
    BY <1>1 DEF Changes
  <2> QED
    BY <2>1, <2>2 DEF Kept
<1>5. HasGroup(e)' <=> HasGroup(e)
    BY DEF HasGroup, Grows
<1>6. Acceptances \subseteq Acceptances' /\ \A j \in Acceptances : j \in msgs
    BY DEF Acceptances, Grows
<1>7. Subscribed(e) => \E k \in Pos(e)' : /\ k \notin Pos(e) /\ chan'[e][k] = n
                                          /\ \A i \in Pos(e)' : i < k \/ i = k
    BY DEF Gets
<1>8. InOrder(e)'
  <2> SUFFICES ASSUME NEW i \in Pos(e)', NEW k \in Pos(e)', i < k,
                      IsChange(chan'[e][i]), IsChange(chan'[e][k])
               PROVE  Stamp(chan'[e][i]) < Stamp(chan'[e][k])
    BY DEF InOrder
  <2>1. CASE i \in Pos(e) /\ k \in Pos(e)
    BY <1>2, <2>1 DEF MemberInv, InOrder
  <2>2. CASE i \in Pos(e) /\ k \notin Pos(e)
    BY <1>1, <1>2, <1>4, <2>2 DEF Changes
  <2>3. CASE i \notin Pos(e) /\ k \in Pos(e)
    BY <1>2, <1>3, <1>4, <2>3
  <2>4. CASE i \notin Pos(e) /\ k \notin Pos(e)
    BY <1>3, <1>4, <2>4
  <2> QED
    BY <2>1, <2>2, <2>3, <2>4
<1>9. Awaited(e)'
  <2> SUFFICES ASSUME NEW j \in Acceptances', NEW i \in Pos(e)', j.to = e, chan'[e][i] = j
               PROVE  Awaits(j, i)'
    BY DEF Awaited
  <2>1. CASE j \in Acceptances
    <3>1. i \in Pos(e) /\ chan[e][i] = j
      BY <1>2, <1>4, <1>6, <2>1
    <3>2. Awaits(j, i)
      BY <2>1, <3>1 DEF MemberInv, Awaited
    <3>3. j.version \in Nat /\ j.version <= view[Creator].version /\ attempts[e] # 0
      BY <2>1, AcceptancesPast, Stamps DEF LogInv, AdminInv, Frames, FromAdmin, Acceptances
    <3>4. Subscribed(e)
      BY <3>3 DEF Subscribed, TypeOK
    <3>5. \A k \in Pos(e)' : chan'[e][k] = j => k = i
      BY <1>2, <1>4, <1>6, <2>1, <3>2 DEF Awaits
    <3>6. \A m \in Changes' : Stamp(m) >= j.version => \E k \in Pos(e)' : k > i /\ chan'[e][k] = m
      <4>1. \E k \in Pos(e)' : k > i /\ chan'[e][k] = n
        BY <1>2, <1>4, <1>7, <3>1, <3>4
      <4>2. \A m \in Changes : Stamp(m) >= j.version => \E k \in Pos(e)' : k > i /\ chan'[e][k] = m
        BY <1>2, <3>2 DEF Awaits
      <4> QED
        BY <1>1, <4>1, <4>2
    <3>7. \A k \in Pos(e)' : k > i /\ IsChange(chan'[e][k]) => Stamp(chan'[e][k]) >= j.version
      <4>1. Stamp(n) >= j.version
        BY <1>1, <3>3, Stamps
      <4> QED
        BY <1>2, <1>4, <3>2, <4>1 DEF Awaits
    <3> QED
      BY <1>5, <3>2, <3>5, <3>6, <3>7 DEF Awaits
  <2>2. CASE j \notin Acceptances
    <3>1. j \in msgs' \ msgs /\ j.type = "JoinAccepted"
      BY <2>2 DEF Acceptances
    <3>2. j # n
      BY <1>1, <3>1 DEF IsChange
    <3>3. /\ AddedFor(j) = n /\ j.version = view'[Creator].version
          /\ attempts[e] # 0 /\ ~HasMember(view[Creator], e)
      BY <3>1, <3>2 DEF Grows
    <3>4. j.version = Stamp(n)
      BY <3>3 DEF Grows, Adds
    <3>5. i \notin Pos(e)
      BY <1>2, <3>1
    <3>6. ~HasGroup(e)
      BY <3>3, JoinedHasMember DEF LogInv
    <3>7. \A m \in Changes' : Stamp(m) >= j.version => \E k \in Pos(e)' : k > i /\ chan'[e][k] = m
      <4>1. Subscribed(e)
        BY <3>3 DEF Subscribed, TypeOK
      <4>2. \E k \in Pos(e)' : k > i /\ chan'[e][k] = n
        BY <1>3, <1>7, <3>2, <4>1
      <4>3. \A m \in Changes : ~(Stamp(m) >= j.version)
        BY <1>1, <3>4
      <4> QED
        BY <1>1, <4>2, <4>3
    <3>8. \A k \in Pos(e)' : k > i /\ IsChange(chan'[e][k]) => Stamp(chan'[e][k]) >= j.version
      <4> SUFFICES ASSUME NEW k \in Pos(e)', k > i, IsChange(chan'[e][k])
                   PROVE  Stamp(chan'[e][k]) >= j.version
        OBVIOUS
      <4>1. k \notin Pos(e)
        BY <1>2, <1>3, <1>4, <3>5
      <4>2. chan'[e][k] = n
        BY <1>4, <4>1
      <4> QED
        BY <1>1, <3>4, <4>2
    <3>9. \A k \in Pos(e)' : chan'[e][k] = j => k = i
      BY <1>4, <3>5
    <3> QED
      BY <1>5, <3>6, <3>7, <3>8, <3>9 DEF Awaits
  <2> QED
    BY <2>1, <2>2
<1>10. Followed(e)'
  <2> SUFFICES ASSUME HasGroup(e), IsActive(view'[Creator], e) PROVE Follows(e)'
    BY <1>5 DEF Followed, Joined
  <2>1. Follows(e) /\ attempts[e] # 0
    <3>1. HasMember(view[Creator], e)
      BY JoinedHasMember DEF LogInv
    <3>2. e \in Joined
      BY <3>1 DEF Joined, Grows
    <3>3. attempts[e] # 0
      BY DEF AdminInv, JoinersAccepted, Acceptances, Frames, FromAdmin
    <3> QED
      BY <3>2, <3>3 DEF MemberInv, Followed
  <2>2. Subscribed(e)
    BY <2>1 DEF Subscribed, TypeOK
  <2>3. PICK v : v = view[e].version
    OBVIOUS
  <2>4. v \in Nat /\ v <= view[Creator].version /\ view'[e].version = v
    BY <2>1, <2>3, GroupParts DEF Follows, LogInv, Chained, TypeOK, Grows
  <2>5. \A m \in Changes' : Stamp(m) > v => \E i \in Pos(e)' : chan'[e][i] = m
    <3>1. \E k \in Pos(e)' : chan'[e][k] = n
      BY <1>7, <2>2
    <3>2. \A m \in Changes : Stamp(m) > v => \E i \in Pos(e)' : chan'[e][i] = m
      BY <1>2, <2>1, <2>3 DEF Follows
    <3> QED
      BY <1>1, <3>1, <3>2
  <2>6. \A i \in Pos(e)' : IsChange(chan'[e][i]) =>
           \/ Stamp(chan'[e][i]) > v
           \/ chan'[e][i].type = "MemberAdded" /\ chan'[e][i].member = e
    <3>1. Stamp(n) > v
      BY <1>1, <2>4, Stamps
    <3> QED
      BY <1>2, <1>4, <2>1, <2>3, <3>1 DEF Follows
  <2>7. /\ \A x \in Device : WrittenAt(RoleLog(x)', v, view[e].row[x].role)
        /\ WrittenAt(KeyLog', v, key[e])
    BY <2>1, <2>3, <2>4, LogPast DEF Follows, Grows, LogInv
  <2>8. view'[e] = view[e] /\ key'[e] = key[e] /\ secret'[e] = secret[e]
    BY DEF Grows
  <2>9. \E j \in Acceptances' : j.to = e /\ secret'[e] = j.kem /\ j.version <= v
    BY <1>6, <2>1, <2>3, <2>8 DEF Follows
  <2>10. \E l \in Changes' : Stamp(l) = v
    BY <1>1, <2>1, <2>3 DEF Follows
  <2> QED
    BY <2>3, <2>5, <2>6, <2>7, <2>8, <2>9, <2>10 DEF Follows
<1> QED
    BY <1>8, <1>9, <1>10 DEF MemberInv

--------------------------------------------------------------------------------
\* The device that takes its next frame

\* The order in a channel is kept when its first frame is taken.
LEMMA PopsOrder ==
    ASSUME ChanType, NEW d \in Device, InOrder(d), Pops(d)
    PROVE  InOrder(d)'
<1> SUFFICES ASSUME NEW i \in Pos(d)', NEW k \in Pos(d)', i < k,
                    IsChange(chan'[d][i]), IsChange(chan'[d][k])
             PROVE  Stamp(chan'[d][i]) < Stamp(chan'[d][k])
    BY DEF InOrder
<1>1. /\ i + 1 \in Pos(d) /\ chan'[d][i] = chan[d][i + 1]
      /\ k + 1 \in Pos(d) /\ chan'[d][k] = chan[d][k + 1]
    BY PopsAt
<1>2. i + 1 < k + 1
    BY DEF Pos
<1> QED
    BY <1>1, <1>2 DEF InOrder

\* A joiner whose acceptance is still to come goes on waiting for it.
LEMMA PopsAwaited ==
    ASSUME ChanType, Announced, NEW d \in Device, Awaited(d), Pops(d),
           Changes' = Changes, Acceptances' = Acceptances,
           HasGroup(d)' /\ ~HasGroup(d) => chan[d][1] \in Acceptances /\ chan[d][1].to = d
    PROVE  Awaited(d)'
<1> SUFFICES ASSUME NEW j \in Acceptances, NEW i \in Pos(d)', j.to = d, chan'[d][i] = j
             PROVE  Awaits(j, i)'
    BY DEF Awaited
<1>1. i + 1 \in Pos(d) /\ i + 1 > 1 /\ chan[d][i + 1] = j /\ 1 \in Pos(d)
    BY PopsAt
<1>2. Awaits(j, i + 1)
    BY <1>1 DEF Awaited
<1>3. chan[d][1] # j
    BY <1>1, <1>2 DEF Awaits
<1>4. ~HasGroup(d)'
    BY <1>2, <1>3 DEF Awaits, Announced
<1>5. \A k \in Pos(d)' : chan'[d][k] = j => k = i
  <2> SUFFICES ASSUME NEW k \in Pos(d)', chan'[d][k] = j PROVE k = i
    OBVIOUS
  <2>1. k + 1 = i + 1
    BY <1>2, PopsAt DEF Awaits
  <2> QED
    BY <2>1 DEF Pos
<1>6. ASSUME NEW m \in Changes, Stamp(m) >= j.version
      PROVE  \E k \in Pos(d)' : k > i /\ chan'[d][k] = m
  <2>1. PICK k \in Pos(d) : k > i + 1 /\ chan[d][k] = m
    BY <1>2, <1>6 DEF Awaits
  <2>2. k # 1 /\ k - 1 > i
    BY <1>1, <2>1 DEF Pos
  <2> QED
    BY <2>1, <2>2, PopsAt
<1>7. ASSUME NEW k \in Pos(d)', k > i, IsChange(chan'[d][k])
      PROVE  Stamp(chan'[d][k]) >= j.version
  <2>1. k + 1 \in Pos(d) /\ k + 1 > i + 1 /\ chan'[d][k] = chan[d][k + 1]
    BY <1>7, PopsAt DEF Pos
  <2> QED
    BY <1>2, <1>7, <2>1 DEF Awaits
<1> QED
    BY <1>4, <1>5, <1>6, <1>7 DEF Awaits

\* The acceptance is the next frame: the joiner adopts a snapshot of the log,
\* and everything since is behind it.
LEMMA JoinFollows ==
    ASSUME TypeOK, ChanType, LogInv, NEW d \in Device, Pops(d), MemberInv(d),
           UNCHANGED msgs, ReceiveJoinAccepted(d, chan[d][1])
    PROVE  Follows(d)'
<1>1. PICK j : j = chan[d][1]
    OBVIOUS
<1>2. j \in Acceptances /\ j.to = d /\ 1 \in Pos(d) /\ j.version \in Nat
    BY <1>1, ChanAt, PopsAt, Stamps DEF ReceiveJoinAccepted, TakesJoinAccepted, Acceptances
<1>3. Awaits(j, 1)
    BY <1>1, <1>2 DEF MemberInv, Awaited
<1>4. /\ view'[d].version = j.version /\ view'[d].row = j.row
      /\ key'[d] = j.key /\ secret'[d] = j.kem
    BY <1>1 DEF ReceiveJoinAccepted, TypeOK
<1>5. Changes' = Changes /\ Acceptances' = Acceptances /\ Rotations' = Rotations
    BY DEF Changes, Acceptances, Rotations
<1>6. KeyLog' = KeyLog /\ \A x \in Device : RoleLog(x)' = RoleLog(x)
    BY <1>5 DEF KeyLog, RoleLog
<1>7. AddedFor(j) \in Changes /\ Stamp(AddedFor(j)) = j.version
    BY <1>2, AcceptancesPast DEF LogInv
<1>8. ASSUME NEW m \in Changes, Stamp(m) > j.version PROVE \E i \in Pos(d)' : chan'[d][i] = m
  <2>1. Stamp(m) >= j.version
    BY <1>2, <1>8, Stamps
  <2>2. PICK k \in Pos(d) : k > 1 /\ chan[d][k] = m
    BY <1>2, <1>3, <2>1 DEF Awaits
  <2>3. k # 1
    BY <2>2 DEF Pos
  <2> QED
    BY <2>2, <2>3, PopsAt
<1>9. ASSUME NEW i \in Pos(d)', IsChange(chan'[d][i])
      PROVE  \/ Stamp(chan'[d][i]) > j.version
             \/ chan'[d][i].type = "MemberAdded" /\ chan'[d][i].member = d
  <2>1. PICK m : m = chan'[d][i]
    OBVIOUS
  <2>2. i + 1 \in Pos(d) /\ i + 1 > 1 /\ chan[d][i + 1] = m /\ m \in Changes
    BY <1>9, <2>1, PopsAt, ChanAt DEF Changes
  <2>3. Stamp(m) >= j.version /\ Stamp(m) \in Nat
    BY <1>2, <1>3, <1>9, <2>1, <2>2, Stamps DEF Awaits
  <2>4. CASE Stamp(m) = j.version
    <3>1. m = AddedFor(j)
      BY <1>7, <2>2, <2>4, StampsDistinct DEF LogInv
    <3> QED
      BY <1>2, <2>1, <3>1 DEF AddedFor
  <2> QED
    BY <1>2, <2>1, <2>3, <2>4
<1>10. /\ \A x \in Device : WrittenAt(RoleLog(x), j.version, j.row[x].role)
       /\ WrittenAt(KeyLog, j.version, j.key)
    BY <1>2 DEF LogInv, RolesLogged, KeysLogged
<1>11. \E k \in Acceptances : k.to = d /\ j.kem = k.kem /\ k.version <= j.version
    BY <1>2
<1> QED
    BY <1>4, <1>5, <1>6, <1>7, <1>8, <1>9, <1>10, <1>11 DEF Follows

\* The next frame is nothing the member has to follow.
LEMMA PopsQuiet ==
    ASSUME ChanType, NEW d \in Device, Follows(d), Pops(d),
           Changes' = Changes, Acceptances' = Acceptances,
           view'[d] = view[d], key'[d] = key[d], secret'[d] = secret[d],
           ~(IsChange(chan[d][1]) /\ Stamp(chan[d][1]) > view[d].version)
    PROVE  Follows(d)'
<1>1. Rotations' = Rotations
    BY DEF Rotations, Changes, IsChange
<1>2. KeyLog' = KeyLog /\ \A x \in Device : RoleLog(x)' = RoleLog(x)
    BY <1>1 DEF KeyLog, RoleLog
<1>3. ASSUME NEW m \in Changes, Stamp(m) > view[d].version PROVE \E i \in Pos(d)' : chan'[d][i] = m
  <2>1. PICK k \in Pos(d) : chan[d][k] = m
    BY <1>3 DEF Follows
  <2>2. k # 1
    BY <1>3, <2>1 DEF Changes
  <2> QED
    BY <2>1, <2>2, PopsAt
<1>4. \A i \in Pos(d)' : IsChange(chan'[d][i]) =>
         \/ Stamp(chan'[d][i]) > view[d].version
         \/ chan'[d][i].type = "MemberAdded" /\ chan'[d][i].member = d
    BY PopsAt DEF Follows
<1> QED
    BY <1>2, <1>3, <1>4 DEF Follows

\* The next change in a member's channel is the next of the log.
LEMMA NextOfLog ==
    ASSUME TypeOK, ChanType, LogInv, NEW d \in Device, Follows(d), InOrder(d), Pops(d),
           NEW m, m = chan[d][1], IsChange(m), Stamp(m) > view[d].version
    PROVE  /\ m \in Changes /\ Base(m) = view[d].version
           /\ \A u \in Changes : u = m \/ Stamp(u) <= view[d].version \/ Stamp(u) > Stamp(m)
<1> DEFINE v == view[d].version
<1>1. v \in Nat /\ 1 \in Pos(d) /\ m \in Changes
    BY GroupParts, PopsAt, ChanAt DEF TypeOK, Changes
<1>2. Stamp(m) \in Nat /\ Base(m) \in Int /\ Base(m) < Stamp(m)
    BY <1>1, Stamps
<1>3. PICK n \in Changes : Stamp(n) = v
    BY DEF Follows
<1>4. Base(n) \in Int /\ Base(n) < v /\ Base(n) >= 1
    BY <1>3, Stamps DEF LogInv, Chained
<1>5. v <= Base(m)
  <2>1. m = n \/ Stamp(m) <= Base(n) \/ Stamp(n) <= Base(m)
    BY <1>1 DEF LogInv, Chained
  <2> QED
    BY <1>1, <1>2, <1>3, <1>4, <2>1
<1>6. PICK b \in Changes : Stamp(b) = Base(m)
  <2>1. Base(m) # 1
    BY <1>1, <1>2, <1>4, <1>5
  <2> QED
    BY <1>1, <2>1 DEF LogInv, Chained
<1>7. ASSUME v < Base(m) PROVE FALSE
  <2>1. PICK k \in Pos(d) : chan[d][k] = b
    BY <1>6, <1>7 DEF Follows
  <2>2. k # 1
    BY <1>2, <1>6, <2>1
  <2>3. 1 < k
    BY <2>2 DEF Pos
  <2>4. Stamp(m) < Stamp(b)
    BY <1>1, <2>1, <2>3 DEF InOrder, Changes
  <2> QED
    BY <1>2, <1>6, <2>4
<1>8. Base(m) = v
    BY <1>1, <1>2, <1>5, <1>7
<1>9. ASSUME NEW u \in Changes, u # m, ~(Stamp(u) <= v) PROVE Stamp(u) > Stamp(m)
  <2>1. Stamp(u) <= Base(m) \/ Stamp(m) <= Base(u)
    BY <1>1, <1>9 DEF LogInv, Chained
  <2>2. Stamp(u) \in Nat /\ Base(u) \in Int /\ Base(u) < Stamp(u)
    BY Stamps
  <2> QED
    BY <1>1, <1>2, <1>8, <1>9, <2>1, <2>2
<1> QED
    BY <1>1, <1>8, <1>9

\* What the log says after its next change m
LEMMA LogAdvances ==
    ASSUME TypeOK, LogInv, NEW m \in Changes, NEW v \in Nat, Stamp(m) > v,
           \A u \in Changes : u = m \/ Stamp(u) <= v \/ Stamp(u) > Stamp(m)
    PROVE  /\ \A x \in Device : \A r : WrittenAt(RoleLog(x), v, r) =>
                 WrittenAt(RoleLog(x), Stamp(m), IF Sets(m, x) THEN RoleSet(m) ELSE r)
           /\ \A r : WrittenAt(KeyLog, v, r) =>
                 WrittenAt(KeyLog, Stamp(m), IF m.type = "KeyRotation" THEN m.key ELSE r)
<1>1. Stamp(m) \in Nat /\ v <= Stamp(m)
    BY Stamps
<1>2. \A u \in Changes : Stamp(u) \in Nat
    BY Stamps
<1>3. ASSUME NEW W, \A u \in W : u.stamp \in Nat, NEW w \in W, w.stamp = Stamp(m),
             \A u \in W : u.stamp <= v \/ u.stamp = Stamp(m) \/ u.stamp > Stamp(m)
      PROVE  WrittenAt(W, Stamp(m), w.val)
    BY <1>1, <1>3 DEF WrittenAt
<1>4. ASSUME NEW W, \A u \in W : u.stamp \in Nat, NEW r, WrittenAt(W, v, r),
             \A u \in W : u.stamp <= v \/ u.stamp > Stamp(m)
      PROVE  WrittenAt(W, Stamp(m), r)
  <2>1. \A u \in W : u.stamp \in Nat /\ (u.stamp <= Stamp(m) => u.stamp <= v)
    BY <1>1, <1>4
  <2> QED
    BY <1>1, <1>4, <2>1, WrittenKept
<1>5. ASSUME NEW x \in Device, NEW r, WrittenAt(RoleLog(x), v, r)
      PROVE  WrittenAt(RoleLog(x), Stamp(m), IF Sets(m, x) THEN RoleSet(m) ELSE r)
  <2>1. \A u \in RoleLog(x) : u.stamp \in Nat
    BY LogsSingle DEF LogInv
  <2>2. \A u \in RoleLog(x) :
           u.stamp <= v \/ (Sets(m, x) /\ u.stamp = Stamp(m)) \/ u.stamp > Stamp(m)
    BY <1>1, <1>2, RoleEntry, WriteParts
  <2>3. CASE Sets(m, x)
    <3>1. PICK w : w = Write(Stamp(m), RoleSet(m))
      OBVIOUS
    <3>2. w \in RoleLog(x) /\ w.stamp = Stamp(m) /\ w.val = RoleSet(m)
      BY <2>3, <3>1, RoleEntry, WriteParts
    <3>3. WrittenAt(RoleLog(x), Stamp(m), w.val)
      BY <1>3, <2>1, <2>2, <3>2
    <3> QED
      BY <2>3, <3>2, <3>3
  <2>4. CASE ~Sets(m, x)
    <3>1. WrittenAt(RoleLog(x), Stamp(m), r)
      BY <1>4, <1>5, <2>1, <2>2, <2>4
    <3> QED
      BY <2>4, <3>1
  <2> QED
    BY <2>3, <2>4
<1>6. ASSUME NEW r, WrittenAt(KeyLog, v, r)
      PROVE  WrittenAt(KeyLog, Stamp(m), IF m.type = "KeyRotation" THEN m.key ELSE r)
  <2>1. \A u \in KeyLog : u.stamp \in Nat
    BY LogsSingle DEF LogInv
  <2>2. \A u \in Rotations : u \in Changes /\ Stamp(u) = u.gen /\ u.type = "KeyRotation"
    BY Stamps DEF Rotations, Stamp
  <2>3. \A u \in KeyLog :
           u.stamp <= v \/ (m.type = "KeyRotation" /\ u.stamp = Stamp(m)) \/ u.stamp > Stamp(m)
    BY <1>1, <1>2, <2>2, KeyEntry, WriteParts
  <2>4. CASE m.type = "KeyRotation"
    <3>1. PICK w : w = Write(m.gen, m.key)
      OBVIOUS
    <3>2. w \in KeyLog /\ w.stamp = Stamp(m) /\ w.val = m.key
      BY <2>4, <3>1, KeyEntry, WriteParts DEF Rotations, Changes, Stamp
    <3>3. WrittenAt(KeyLog, Stamp(m), w.val)
      BY <1>3, <2>1, <2>3, <3>2
    <3> QED
      BY <2>4, <3>2, <3>3
  <2>5. CASE m.type # "KeyRotation"
    <3>1. WrittenAt(KeyLog, Stamp(m), r)
      BY <1>4, <1>6, <2>1, <2>3, <2>5
    <3> QED
      BY <2>5, <3>1
  <2> QED
    BY <2>4, <2>5
<1> QED
    BY <1>5, <1>6

\* Whoever was announced has a role ever since.
LEMMA AnnouncedPresent ==
    ASSUME TypeOK, AdminInv, Chained, NEW x \in Device, NEW v \in Nat, NEW r,
           WrittenAt(RoleLog(x), v, r), NEW n \in Changes, n.type = "MemberAdded",
           n.member = x, Stamp(n) <= v
    PROVE  r # "None"
<1>1. PICK w \in RoleLog(x) : w.val = r /\ \A u \in RoleLog(x) : u.stamp <= v => u.stamp <= w.stamp
    BY DEF WrittenAt
<1>2. Write(Stamp(n), RoleSet(n)) \in RoleLog(x)
    BY RoleEntry DEF Sets
<1>3. Stamp(n) <= w.stamp /\ Stamp(n) \in Nat \ {0}
    BY <1>1, <1>2, WriteParts, Stamps DEF Chained
<1>4. PICK m \in Changes : Sets(m, x) /\ w = Write(Stamp(m), RoleSet(m))
  <2>1. w.stamp # 0
    BY <1>1, <1>3, LogsSingle
  <2> QED
    BY <1>1, <2>1, RoleEntry, WriteParts
<1>5. RoleSet(m) # "None"
    BY <1>4 DEF AdminInv, Frames, FromAdmin, Changes, Sets, RoleSet
<1> QED
    BY <1>1, <1>4, <1>5, WriteParts

\* Whoever stands in a member's record stands in the Creator's.
LEMMA MembersKnown ==
    ASSUME TypeOK, AdminInv, LogInv, NEW d \in Device, Follows(d), NEW y \in Device,
           HasMember(view[d], y), y # Creator
    PROVE  /\ HasMember(view[Creator], y)
           /\ \E n \in Changes : n.type = "MemberAdded" /\ n.member = y /\ Stamp(n) <= view[d].version
<1>1. view[d] \in Group /\ view[d].version \in Nat
    BY GroupParts DEF TypeOK
<1>2. view[d].row[y].role # "None"
    BY <1>1, RoleIsPresence
<1>3. WrittenAt(RoleLog(y), view[d].version, view[d].row[y].role)
    BY DEF Follows
<1>4. PICK n \in Changes : n.type = "MemberAdded" /\ n.member = y /\ Stamp(n) <= view[d].version
    BY <1>1, <1>2, <1>3, RoleAnnounced DEF LogInv
<1> QED
    BY <1>4 DEF LogInv, Announced

\* The member d does what the change m says.
Applies(d, m) ==
    /\ view'[d].version = Stamp(m)
    /\ \A x \in Device : view'[d].row[x].role =
          IF Sets(m, x) THEN RoleSet(m) ELSE view[d].row[x].role
    /\ key'[d] = IF m.type = "KeyRotation" THEN m.key ELSE key[d]
    /\ secret'[d] = secret[d]

\* To a member the Creator is an Active Owner, everybody else is plain.
LEMMA CreatorTrusted ==
    ASSUME TypeOK, AdminInv, NEW d \in Device, HasGroup(d)
    PROVE  /\ IsOwner(view[d], Creator) /\ HasMember(view[d], Creator)
           /\ AdderMayAdd(view[d], Creator) /\ HasPermission(view[d], Creator, "RemoveMembers")
           /\ \A x \in Device \ {Creator} : ~IsOwner(view[d], x)
<1>1. SoleAdmin(view[d].row)
    BY DEF AdminInv, PlainViews, HasGroup, NoGroup
<1>2. RoleHasPermission("Owner", "RemoveMembers")
    BY DEF RoleHasPermission, RolePermissions, Permission
<1> QED
    BY <1>1, <1>2 DEF SoleAdmin, IsOwner, HasMember, AdderMayAdd, HasPermission, IsActive, Plain

\* apply_member_added: the announced member is new and there is room for it, as
\* the Creator's record has everybody of this one and the new member.
LEMMA TakesAdded ==
    ASSUME TypeOK, ChanType, AdminInv, LogInv, CapRespected,
           NEW d \in Device \ {Creator}, HasGroup(d), Follows(d),
           NEW m \in Changes, m.type = "MemberAdded", Stamp(m) > view[d].version,
           Receive(d, m) \/ ~Handles(d, m)
    PROVE  Applies(d, m)
<1> DEFINE x == m.member
<1>1. /\ m.from = Creator /\ x \in Device /\ x # Creator /\ Stamp(m) = m.version
      /\ view[d] \in Group /\ view[d].version \in Nat
    BY GroupParts, FrameParts DEF AdminInv, Frames, FromAdmin, Changes, TypeOK, Stamp
<1> HIDE DEF x
<1>2. ~HasMember(view[d], x)
  <2> SUFFICES ASSUME HasMember(view[d], x) PROVE FALSE
    OBVIOUS
  <2>1. PICK n \in Changes : n.type = "MemberAdded" /\ n.member = x /\ Stamp(n) <= view[d].version
    BY <1>1, MembersKnown
  <2>2. Stamp(n) >= Stamp(m)
    BY <2>1 DEF LogInv, Announced, Sets, x
  <2> QED
    BY <1>1, <2>1, <2>2, Stamps
<1>3. BelowCap(view[d])
  <2> DEFINE A == Members(view[d])
             B == Members(view[Creator])
  <2>1. A \cup {x} \subseteq B /\ x \notin A
    <3>1. HasMember(view[Creator], x)
      BY DEF LogInv, Announced, x
    <3>2. HasMember(view[Creator], Creator)
      BY CreatorTrusted, CreatorAssumption DEF AdminInv, Home
    <3> QED
      BY <1>1, <1>2, <3>1, <3>2, MembersKnown DEF Members
  <2>2. IsFiniteSet(B) /\ Cardinality(B) <= Cap
    <3>1. B \subseteq Device
      BY DEF Members
    <3> QED
      BY <3>1, DeviceAssumption, FS_Subset, CreatorAssumption DEF CapRespected
  <2> HIDE DEF A, B
  <2>3. IsFiniteSet(A) /\ IsFiniteSet(A \cup {x})
    <3>1. A \subseteq B
      BY <2>1
    <3> QED
      BY <2>1, <2>2, <3>1, FS_Subset
  <2>4. Cardinality(A \cup {x}) = Cardinality(A) + 1
    BY <2>1, <2>3, FS_AddElement
  <2>5. Cardinality(A \cup {x}) <= Cardinality(B)
    BY <2>1, <2>2, FS_Subset
  <2>6. Cardinality(A) \in Nat /\ Cardinality(B) \in Nat
    BY <2>2, <2>3, FS_CardinalityType
  <2> QED
    BY <2>2, <2>4, <2>5, <2>6, CapAssumption DEF BelowCap, A
<1>4. Handles(d, m)
    BY <1>1, <1>2, <1>3, CreatorTrusted DEF Handles, x
<1>5. ReceiveMemberAdded(d, m)
    BY <1>4 DEF Receive, AcceptRequestJoin, RejectRequestJoin, ReceiveJoinAccepted, FailJoinAccepted,
        TakesJoinAccepted, ReceiveJoinRejected, InstallRotation, MissRotation, LearnOwnRemoval,
        RotationAccepted, ReceiveRoleChange, ReceiveOwnershipTransfer, ReceiveGroupMessage,
        ReceiveMessageAck
<1>6. /\ view'[d] = ApplyMemberAdded(view[d], x, [status |-> "Active", role |-> "Member", kem |-> m.kem], m.version)
      /\ key'[d] = key[d] /\ secret'[d] = secret[d]
    BY <1>5 DEF ReceiveMemberAdded, TypeOK, x
<1>7. /\ view'[d].version = m.version
      /\ \A y \in Device : view'[d].row[y].role = IF y = x THEN "Member" ELSE view[d].row[y].role
    BY <1>1, <1>6, GroupParts DEF ApplyMemberAdded, PutRow
<1> QED
    BY <1>1, <1>6, <1>7 DEF Applies, Sets, RoleSet, x

\* process_key_rotation: a member that was not removed finds a copy for its
\* keypair and counts along, as the Creator is one version ahead.
LEMMA TakesRotation ==
    ASSUME TypeOK, ChanType, AdminInv, LogInv,
           NEW d \in Device \ {Creator}, HasGroup(d), IsActive(view[Creator], d), Follows(d),
           NEW m \in Changes, m.type = "KeyRotation", Stamp(m) > view[d].version,
           Base(m) = view[d].version, Receive(d, m) \/ ~Handles(d, m)
    PROVE  Applies(d, m)
<1>1. /\ m.from = Creator /\ m.removed \in Device \ {Creator} /\ Stamp(m) = m.gen /\ m.gen \in Nat
      /\ view[d] \in Group /\ view[d].version \in Nat
    BY GroupParts, FrameParts DEF AdminInv, Frames, FromAdmin, Changes, TypeOK, Stamp
<1>2. PICK j \in Acceptances : j.to = d /\ secret[d] = j.kem /\ j.version <= view[d].version
    BY DEF Follows
<1>3. m.removed # d /\ m.wraps[d] = secret[d] /\ secret[d] # 0
  <2>1. j.version < m.gen /\ j.kem # 0
    BY <1>1, <1>2, Stamps DEF AdminInv, Frames, FromAdmin, Acceptances
  <2> QED
    BY <1>2, <2>1 DEF LogInv, WrapsFit, Rotations, Changes
<1>4. RotationAccepted(d, m) /\ CanUnwrap(d, m) /\ RotationRemoves(d, m)
    BY <1>1, <1>3, CreatorTrusted, NoOneAssumption
       DEF RotationAccepted, CanUnwrap, RotationRemoves, CanRemoveMember
<1>5. Handles(d, m)
    BY <1>1, <1>3, <1>4 DEF Handles
<1>6. InstallRotation(d, m)
    BY <1>3, <1>4, <1>5 DEF Receive, AcceptRequestJoin, RejectRequestJoin, ReceiveJoinAccepted,
        FailJoinAccepted, TakesJoinAccepted, ReceiveJoinRejected, ReceiveMemberAdded, MissRotation,
        LearnOwnRemoval, ReceiveRoleChange, ReceiveOwnershipTransfer, ReceiveGroupMessage,
        ReceiveMessageAck
<1>7. view'[d] = RemoveMember(view[d], m.removed) /\ key'[d] = m.key /\ secret'[d] = secret[d]
    BY <1>4, <1>6 DEF InstallRotation, AfterRotation, TypeOK
<1>8. /\ view'[d].version = view[d].version + 1
      /\ \A y \in Device : view'[d].row[y].role = view[d].row[y].role
    BY <1>1, <1>7, GroupParts DEF RemoveMember, PutRow, SetStatus
<1>9. Stamp(m) = view[d].version + 1
    BY <1>1 DEF Base
<1> QED
    BY <1>7, <1>8, <1>9 DEF Applies, Sets

\* apply_role_change: the member is known, as it was announced before.
LEMMA TakesRole ==
    ASSUME TypeOK, ChanType, AdminInv, LogInv,
           NEW d \in Device \ {Creator}, HasGroup(d), Follows(d),
           NEW m \in Changes, m.type = "RoleChange", Stamp(m) > view[d].version,
           \A u \in Changes : u = m \/ Stamp(u) <= view[d].version \/ Stamp(u) > Stamp(m),
           Receive(d, m) \/ ~Handles(d, m)
    PROVE  Applies(d, m)
<1> DEFINE x == m.member
<1>1. /\ m.from = Creator /\ x \in Device \ {Creator} /\ Stamp(m) = m.version /\ m.version \in Nat
      /\ view[d] \in Group /\ view[d].version \in Nat
    BY GroupParts, FrameParts DEF AdminInv, Frames, FromAdmin, Changes, TypeOK, Stamp
<1>2. HasMember(view[d], x)
  <2>1. PICK n \in Changes : n.type = "MemberAdded" /\ n.member = x /\ Stamp(n) < Stamp(m)
    BY DEF LogInv, Announced
  <2>2. Stamp(n) <= view[d].version
    BY <1>1, <2>1, Stamps
  <2>3. WrittenAt(RoleLog(x), view[d].version, view[d].row[x].role)
    BY <1>1 DEF Follows
  <2>4. view[d].row[x].role # "None"
    BY <1>1, <2>1, <2>2, <2>3, AnnouncedPresent DEF LogInv
  <2> QED
    BY <1>1, <2>4, RoleIsPresence
<1>3. IsOwner(view[d], Creator) /\ CanApplyRoleChange(view[d], x)
    BY <1>1, <1>2, CreatorTrusted DEF CanApplyRoleChange
<1>4. Handles(d, m)
    BY <1>1, <1>3 DEF Handles
<1>5. ReceiveRoleChange(d, m)
    BY <1>4 DEF Receive, AcceptRequestJoin, RejectRequestJoin, ReceiveJoinAccepted, FailJoinAccepted,
        TakesJoinAccepted, ReceiveJoinRejected, ReceiveMemberAdded, InstallRotation, MissRotation,
        LearnOwnRemoval, RotationAccepted, ReceiveOwnershipTransfer, ReceiveGroupMessage,
        ReceiveMessageAck
<1>6. /\ view'[d] = ApplyRoleChange(view[d], x, m.role, m.version)
      /\ key'[d] = key[d] /\ secret'[d] = secret[d]
    BY <1>5 DEF ReceiveRoleChange, TypeOK
<1> HIDE DEF x
<1>7. /\ view'[d].version = m.version
      /\ \A y \in Device : view'[d].row[y].role = IF y = x THEN m.role ELSE view[d].row[y].role
    BY <1>1, <1>6, GroupParts DEF ApplyRoleChange, PutRow, SetRole, Newer
<1> QED
    BY <1>1, <1>6, <1>7 DEF Applies, Sets, RoleSet, x

\* The member is then where the log is after that change.
LEMMA FollowsOn ==
    ASSUME TypeOK, ChanType, LogInv, NEW d \in Device, Follows(d), InOrder(d), Pops(d),
           NEW m, m = chan[d][1], IsChange(m), Stamp(m) > view[d].version,
           Changes' = Changes, Acceptances' = Acceptances, Applies(d, m)
    PROVE  Follows(d)'
<1> DEFINE v == view[d].version
           w == Stamp(m)
<1>1. /\ m \in Changes /\ v \in Nat /\ w \in Nat /\ 1 \in Pos(d)
      /\ \A u \in Changes : Stamp(u) \in Nat
      /\ \A u \in Changes : u = m \/ Stamp(u) <= v \/ Stamp(u) > w
    BY NextOfLog, Stamps, GroupParts, PopsAt DEF TypeOK
<1>2. Rotations' = Rotations
    BY DEF Rotations, Changes, IsChange
<1>3. KeyLog' = KeyLog /\ \A x \in Device : RoleLog(x)' = RoleLog(x)
    BY <1>2 DEF KeyLog, RoleLog
<1>4. /\ \A x \in Device : WrittenAt(RoleLog(x), w, view'[d].row[x].role)
      /\ WrittenAt(KeyLog, w, key'[d])
    BY <1>1, LogAdvances DEF Applies, Follows
<1>5. ASSUME NEW u \in Changes, Stamp(u) > w PROVE \E i \in Pos(d)' : chan'[d][i] = u
  <2>1. PICK k \in Pos(d) : chan[d][k] = u
    BY <1>1, <1>5 DEF Follows
  <2>2. k # 1
    BY <1>1, <1>5, <2>1
  <2> QED
    BY <2>1, <2>2, PopsAt
<1>6. ASSUME NEW i \in Pos(d)', IsChange(chan'[d][i]) PROVE Stamp(chan'[d][i]) > w
  <2>1. i + 1 \in Pos(d) /\ i + 1 > 1 /\ chan'[d][i] = chan[d][i + 1] /\ chan[d][i + 1] \in msgs
    BY PopsAt, ChanAt
  <2>2. chan[d][i + 1] \in Changes
    BY <1>6, <2>1 DEF Changes
  <2>3. Stamp(m) < Stamp(chan[d][i + 1])
    BY <1>1, <1>6, <2>1 DEF InOrder, Pos
  <2> QED
    BY <1>1, <2>1, <2>2, <2>3
<1>7. \E j \in Acceptances : j.to = d /\ secret[d] = j.kem /\ j.version <= w
    BY <1>1, Stamps DEF Follows
<1>8. view'[d].version = w /\ secret'[d] = secret[d]
    BY DEF Applies
<1>9. \E n \in Changes : Stamp(n) = w
    BY <1>1
<1> HIDE DEF w
<1> QED
    BY <1>3, <1>4, <1>5, <1>6, <1>7, <1>8, <1>9 DEF Follows

\* A member that takes its next frame stays where the log says.
LEMMA PopsFollowed ==
    ASSUME TypeOK, ChanType, AdminInv, LogInv, CapRespected, NEW d \in Device \ {Creator},
           MemberInv(d), Pops(d), Changes' = Changes, Acceptances' = Acceptances,
           view'[Creator] = view[Creator],
           \/ Receive(d, chan[d][1]) /\ (Silent \/ Adopts(d, chan[d][1]))
           \/ ~Handles(d, chan[d][1]) /\ UNCHANGED vars
    PROVE  Followed(d)'
<1> SUFFICES ASSUME HasGroup(d)', IsActive(view[Creator], d) PROVE Follows(d)'
    BY DEF Followed, Joined
<1>1. PICK m : m = chan[d][1]
    OBVIOUS
<1>2. m \in msgs /\ 1 \in Pos(d) /\ view[d].version \in Nat
    BY <1>1, PopsAt, ChanAt, GroupParts DEF TypeOK
<1>3. CASE ~HasGroup(d)
  <2>1. ReceiveJoinAccepted(d, m) /\ UNCHANGED msgs
    BY <1>1, <1>3 DEF HasGroup, vars, Silent, Adopts, ReceiveMemberAdded, ReceiveRoleChange,
       InstallRotation, MissRotation, RotationAccepted, LearnOwnRemoval
  <2> QED
    BY <1>1, <2>1, JoinFollows
<1>4. CASE HasGroup(d)
  <2>1. Follows(d) /\ InOrder(d)
    BY <1>4 DEF MemberInv, Followed, Joined
  <2>2. Receive(d, m) \/ ~Handles(d, m)
    BY <1>1
  <2>3. CASE IsChange(m) /\ Stamp(m) > view[d].version
    <3>1. /\ m \in Changes /\ Base(m) = view[d].version
          /\ \A u \in Changes : u = m \/ Stamp(u) <= view[d].version \/ Stamp(u) > Stamp(m)
      BY <1>1, <2>1, <2>3, NextOfLog
    <3>2. Applies(d, m)
      BY <1>4, <2>1, <2>2, <2>3, <3>1, TakesAdded, TakesRotation, TakesRole DEF IsChange
    <3> QED
      BY <1>1, <2>1, <2>3, <3>2, FollowsOn
  <2>4. CASE ~(IsChange(m) /\ Stamp(m) > view[d].version)
    <3>1. ~ReceiveJoinAccepted(d, m)
      <4> SUFFICES ASSUME ReceiveJoinAccepted(d, m) PROVE FALSE
        OBVIOUS
      <4>1. m \in Acceptances /\ m.to = d
        BY <1>2 DEF ReceiveJoinAccepted, TakesJoinAccepted, Acceptances
      <4>2. Awaits(m, 1)
        BY <1>1, <1>2, <4>1 DEF MemberInv, Awaited
      <4> QED
        BY <1>4, <4>1, <4>2 DEF Awaits
    <3>2. ~ReceiveMemberAdded(d, m)
      <4> SUFFICES ASSUME ReceiveMemberAdded(d, m) PROVE FALSE
        OBVIOUS
      <4>1. m.type = "MemberAdded" /\ m.member = d
        BY <1>1, <1>2, <2>1, <2>4 DEF ReceiveMemberAdded, IsChange, Follows
      <4>2. PICK j \in Acceptances : j.to = d /\ j.version <= view[d].version
        BY <2>1 DEF Follows
      <4>3. PICK n : n = AddedFor(j)
        OBVIOUS
      <4>4. n \in Changes /\ n.type = "MemberAdded" /\ n.member = d /\ Stamp(n) <= view[d].version
        BY <4>2, <4>3, AcceptancesPast DEF LogInv, AddedFor
      <4>5. WrittenAt(RoleLog(d), view[d].version, view[d].row[d].role)
        BY <2>1 DEF Follows
      <4>6. view[d].row[d].role # "None"
        BY <1>2, <4>4, <4>5, AnnouncedPresent DEF LogInv
      <4>7. HasMember(view[d], d)
        BY <4>6, RoleIsPresence DEF TypeOK
      <4> QED
        BY <4>1, <4>7 DEF ReceiveMemberAdded
    <3>3. ~ReceiveRoleChange(d, m)
      <4>1. ~(IsChange(m) /\ m.type # "MemberAdded")
        BY <1>1, <1>2, <2>1, <2>4 DEF Follows
      <4> QED
        BY <4>1 DEF ReceiveRoleChange, IsChange
    <3>4. ~RotationAccepted(d, m)
      <4>1. ~(IsChange(m) /\ m.type # "MemberAdded")
        BY <1>1, <1>2, <2>1, <2>4 DEF Follows
      <4> QED
        BY <4>1 DEF RotationAccepted, IsChange
    <3>5. view'[d] = view[d] /\ key'[d] = key[d] /\ secret'[d] = secret[d]
      BY <1>1, <3>1, <3>2, <3>3, <3>4 DEF Adopts, InstallRotation, MissRotation, LearnOwnRemoval, Silent, vars
    <3> QED
      BY <1>1, <2>1, <2>4, <3>5, PopsQuiet
  <2> QED
    BY <2>3, <2>4
<1> QED
    BY <1>3, <1>4

\* Every step of the perfect network keeps the channels right.
LEMMA StepChan ==
    ASSUME OneAdministrator, TypeOK, TypeOK', CapRespected, ChanType, Paired, AdminInv, LogInv, ChanInv,
           FifoNext
    PROVE  AdminInv' /\ LogInv' /\ ChanInv'
<1> USE CreatorAssumption
<1>1. Paired' /\ ChanType' /\ PublishCases
    BY FifoStep
<1>2. PICK d \in Device :
         /\ \/ Local(d) /\ chan'[d] = chan[d]
            \/ Pops(d) /\ Receive(d, chan[d][1])
            \/ Pops(d) /\ ~Handles(d, chan[d][1]) /\ UNCHANGED vars
         /\ \A e \in Device \ {d} :
               chan'[e] = IF Subscribed(e) THEN chan[e] \o Published ELSE chan[e]
         /\ chan[d] # <<>> => chan[d][1] \in msgs
    BY FifoStep
<1>3. PICK m : m = chan[d][1]
    OBVIOUS
<1>4. Pops(d) => m \in msgs
    BY <1>2, <1>3 DEF Pops
<1>5. UNCHANGED vars => AdminInv' /\ Silent
  <2> SUFFICES ASSUME UNCHANGED vars PROVE AdminInv' /\ Silent
    OBVIOUS
  <2>1. UNCHANGED <<view, key, secret, attempts, invite, receipt, msgs>>
    BY DEF vars
  <2>2. AdminInv'
    BY <2>1 DEF AdminInv, Home, PlainViews, OneInviter, JoinersAccepted, Frames, HasGroup, Acceptances
  <2> QED
    BY <2>1, <2>2 DEF Silent, Changes, Acceptances
<1>6. /\ AdminInv'
      /\ Silent \/ (d = Creator /\ Administers) \/ (Pops(d) /\ Adopts(d, m))
    BY <1>2, <1>3, <1>4, <1>5, LocalAdmin, ReceiveAdmin
<1>7. LogInv'
    BY <1>4, <1>6, KindLog
<1>8. \A e \in Device \ {d} :
         /\ Kept(e) /\ (~Subscribed(e) => chan'[e] = chan[e])
         /\ \A n \in msgs' \ msgs :
               Subscribed(e) /\ (n.type = "MemberAdded" \/ msgs' \ msgs = {n}) => Gets(e, n)
    BY <1>1, <1>2, HearsAt
<1>9. InOrder(d)'
  <2>1. InOrder(d)
    BY DEF ChanInv, MemberInv
  <2>2. CASE chan'[d] = chan[d]
    BY <2>1, <2>2 DEF InOrder, Pos
  <2> QED
    BY <1>2, <2>1, <2>2, PopsOrder
<1>10. d = Creator => MemberInv(d)'
  <2> SUFFICES ASSUME d = Creator PROVE MemberInv(d)'
    OBVIOUS
  <2>1. Awaited(d)'
    <3>1. \A j \in Acceptances' : j.to # Creator
      BY <1>6 DEF AdminInv, Frames, FromAdmin, Acceptances
    <3> QED
      BY <3>1 DEF Awaited
  <2> QED
    BY <1>9, <2>1 DEF MemberInv, Followed
<1>11. CASE d = Creator /\ Administers
  <2>1. PICK n : Grows(n)
    BY <1>11, AdministersGrows
  <2>2. \A e \in Device \ {Creator} : Kept(e) /\ (~Subscribed(e) => chan'[e] = chan[e]) /\ (Subscribed(e) => Gets(e, n))
    BY <1>8, <1>11, <2>1 DEF Grows
  <2>3. \A e \in Device \ {Creator} : MemberInv(e)'
    BY <1>1, <2>1, <2>2, GrowsMember DEF ChanInv
  <2> QED
    BY <1>6, <1>7, <1>10, <1>11, <2>3 DEF ChanInv
<1>12. CASE Silent \/ (Pops(d) /\ Adopts(d, m))
  <2>1. /\ Changes' = Changes /\ Acceptances' = Acceptances
        /\ \A e \in Device \ {d} : view'[e] = view[e] /\ key'[e] = key[e] /\ secret'[e] = secret[e]
        /\ view'[Creator] = view[Creator]
    <3>1. CASE Silent
      BY <3>1 DEF Silent
    <3>2. CASE Adopts(d, m)
      <4>1. UNCHANGED msgs /\ d # Creator
        BY <3>2 DEF Adopts
      <4>2. \A e \in Device \ {d} : view'[e] = view[e] /\ key'[e] = key[e] /\ secret'[e] = secret[e]
        BY <3>2 DEF Adopts, ReceiveJoinAccepted, ReceiveMemberAdded, ReceiveRoleChange, InstallRotation,
                    MissRotation, LearnOwnRemoval, TypeOK
      <4> QED
        BY <4>1, <4>2 DEF Changes, Acceptances
    <3> QED
      BY <1>12, <3>1, <3>2
  <2>2. \A e \in Device \ {d} : MemberInv(e)'
    BY <1>1, <1>8, <2>1, QuietMember DEF ChanInv
  <2>3. d # Creator => MemberInv(d)'
    <3> SUFFICES ASSUME d # Creator PROVE MemberInv(d)'
      OBVIOUS
    <3>1. MemberInv(d)
      BY DEF ChanInv
    <3>2. CASE Local(d) /\ chan'[d] = chan[d] /\ ~Pops(d)
      <4>1. Silent
        BY <1>12, <3>2
      <4>2. Kept(d)
        BY <3>2 DEF Kept, Pos
      <4> QED
        BY <1>1, <2>1, <3>1, <4>1, <4>2, QuietMember DEF Silent
    <3>3. CASE /\ Pops(d)
               /\ \/ Receive(d, m) /\ (Silent \/ Adopts(d, m))
                  \/ ~Handles(d, m) /\ UNCHANGED vars
      <4>1. Followed(d)'
        BY <1>3, <2>1, <3>1, <3>3, PopsFollowed
      <4>2. HasGroup(d)' /\ ~HasGroup(d) => m \in Acceptances /\ m.to = d
        BY <1>4, <3>3 DEF HasGroup, vars, Silent, Adopts, ReceiveMemberAdded, ReceiveRoleChange,
           InstallRotation, MissRotation, RotationAccepted, LearnOwnRemoval, ReceiveJoinAccepted,
           TakesJoinAccepted, Acceptances
      <4>3. Awaited(d)'
        BY <1>3, <2>1, <3>1, <3>3, <4>2, PopsAwaited DEF MemberInv, LogInv
      <4> QED
        BY <1>9, <4>1, <4>3 DEF MemberInv
    <3>4. ~(chan'[d] = chan[d] /\ Pops(d))
      <4>1. Pops(d) => Len(chan'[d]) # Len(chan[d])
        <5> SUFFICES ASSUME Pops(d) PROVE Len(chan'[d]) # Len(chan[d])
          OBVIOUS
        <5>1. chan[d] \in Seq(msgs) /\ chan[d] # <<>>
          BY DEF ChanType, Pops
        <5> QED
          BY <5>1 DEF Pops
      <4> QED
        BY <4>1
    <3> QED
      BY <1>2, <1>3, <1>5, <1>12, <3>2, <3>3, <3>4
  <2> QED
    BY <1>6, <1>7, <1>10, <2>2, <2>3 DEF ChanInv
<1> QED
    BY <1>6, <1>11, <1>12

\* With every channel empty the log has nothing a member did not follow.
LEMMA QuietAgree ==
    ASSUME TypeOK, LogInv, ChanInv
    PROVE  SettledMembersAgree
<1> SUFFICES ASSUME Quiescent, NEW d \in Joined
             PROVE  /\ view[d].version = view[Creator].version
                    /\ key[d] = key[Creator]
                    /\ \A x \in Device : view[d].row[x].role = view[Creator].row[x].role
    BY DEF SettledMembersAgree
<1>1. CASE d = Creator
    BY <1>1
<1>2. CASE d # Creator
  <2>1. d \in Device /\ Follows(d)
    BY <1>2 DEF ChanInv, MemberInv, Followed, Joined
  <2>2. Pos(d) = {}
    <3>1. Len(chan[d]) = 0
      BY <2>1 DEF Quiescent
    <3> QED
      BY <3>1 DEF Pos
  <2>3. view[d].version \in Nat /\ view[Creator].version \in Nat
    BY <2>1, Stamps, GroupParts DEF TypeOK
  <2>4. \A m \in Changes : ~(Stamp(m) > view[d].version)
    BY <2>1, <2>2 DEF Follows
  <2>5. PICK n \in Changes : Stamp(n) = view[d].version
    BY <2>1 DEF Follows
  <2>6. view[d].version <= view[Creator].version /\ view[d].version > 1
    BY <2>3, <2>5, Stamps DEF LogInv, Chained
  <2>7. view[d].version = view[Creator].version
    <3>1. view[Creator].version = 1 \/ \E l \in Changes : Stamp(l) = view[Creator].version
      BY DEF LogInv, Chained
    <3> QED
      BY <2>3, <2>4, <2>6, <3>1
  <2>8. key[d] = key[Creator]
    BY <2>1, <2>3, <2>7, WrittenOnce, LogsSingle DEF Follows, LogInv, KeysLogged
  <2>9. ASSUME NEW x \in Device PROVE view[d].row[x].role = view[Creator].row[x].role
    <3>1. WrittenAt(RoleLog(x), view[Creator].version, view[d].row[x].role)
      BY <2>1, <2>7 DEF Follows
    <3>2. WrittenAt(RoleLog(x), view[Creator].version, view[Creator].row[x].role)
      BY DEF LogInv, RolesLogged
    <3> QED
      BY <2>3, <3>1, <3>2, WrittenOnce, LogsSingle DEF LogInv
  <2> QED
    BY <2>7, <2>8, <2>9
<1> QED
    BY <1>1, <1>2

\* With one administrator and a network that neither loses, repeats nor reorders
\* frames, the members that joined agree with the Creator on version, group key
\* and roles whenever every frame was handled, for every number of devices,
\* joins, removals and role changes: no handler drops or miscounts a change.
THEOREM MembersAgree ==
    ASSUME OneAdministrator
    PROVE  FifoSpec => []SettledMembersAgree
<1> DEFINE Inv == ChanType /\ Paired /\ AdminInv /\ LogInv /\ ChanInv
<1>1. FifoInit => Inv
  <2> SUFFICES ASSUME FifoInit PROVE Inv
    OBVIOUS
  <2>1. ChanType /\ Paired /\ Acceptances = {}
    BY DEF FifoInit, ChanType, Paired, Init, Acceptances
  <2>2. AdminInv /\ LogInv
    BY InitLog DEF FifoInit
  <2>3. \A d \in Device : Pos(d) = {} /\ (d # Creator => ~HasGroup(d))
    BY DEF FifoInit, Init, Pos, HasGroup, NoGroup
  <2>4. ChanInv
    BY <2>1, <2>3 DEF ChanInv, MemberInv, InOrder, Awaited, Followed, Joined
  <2> QED
    BY <2>1, <2>2, <2>4
<1>2. Inv /\ TypeOK /\ TypeOK' /\ CapRespected /\ [FifoNext]_fifoVars => Inv'
  <2> SUFFICES ASSUME Inv, TypeOK, TypeOK', CapRespected, [FifoNext]_fifoVars PROVE Inv'
    OBVIOUS
  <2>1. CASE FifoNext
    BY <2>1, FifoStep, StepChan
  <2>2. CASE UNCHANGED fifoVars
    <3>1. UNCHANGED <<view, key, secret, attempts, invite, receipt, msgs, chan>>
      BY <2>2 DEF fifoVars, vars
    <3>2. Changes' = Changes /\ Acceptances' = Acceptances
      BY <3>1 DEF Changes, Acceptances
    <3>3. ChanType' /\ Paired'
      BY <3>1, <3>2 DEF ChanType, Paired
    <3>4. AdminInv'
      BY <3>1, <3>2 DEF AdminInv, Home, PlainViews, OneInviter, JoinersAccepted, Frames, HasGroup
    <3>5. LogInv'
      BY <3>1, <3>2, LogFrame
    <3>6. ChanInv'
      <4>1. \A e \in Device : Kept(e)
        BY <3>1 DEF Kept, Pos
      <4> QED
        BY <3>1, <3>2, <3>3, <4>1, QuietMember DEF ChanInv
    <3> QED
      BY <3>3, <3>4, <3>5, <3>6
  <2> QED
    BY <2>1, <2>2
<1>3. Inv /\ TypeOK => SettledMembersAgree
    BY QuietAgree
<1>4. FifoSpec => []TypeOK /\ []CapRespected
    BY FifoIsProtocol, TypeCorrect, CapIsRespected, PTL
<1> QED
    BY <1>1, <1>2, <1>3, <1>4, PTL DEF FifoSpec

================================================================================
