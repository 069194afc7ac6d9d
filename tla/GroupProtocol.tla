----------------------------- MODULE GroupProtocol -----------------------------
(***************************************************************************)
(* The group handshake protocol of Qubee: the devices of one group, each   *)
(* with its own record of it, its symmetric group key and its Kyber        *)
(* secrets, exchanging signed frames over one gossipsub topic.  Local      *)
(* operations are the JNI entry points of src/jni_api.rs, the Receive      *)
(* actions are the handlers of src/groups/handshake_handlers.rs and        *)
(* src/groups/group_message.rs with the filters jni_api.rs puts in front.  *)
(*                                                                         *)
(* A device handles one frame or one call at a time (GROUP_MANAGER is a    *)
(* mutex), so each is one action.  msgs only grows and any frame in it may *)
(* be handled by any other device, at any time, any number of times or     *)
(* never: delivery is unordered, lossy and duplicating.  Signatures are    *)
(* modelled by the frame's from field; every frame was signed by a device  *)
(* that runs this code.  A handler that returns an error before it changed *)
(* anything is a step that is not taken.                                   *)
(***************************************************************************)
EXTENDS GroupView

CONSTANTS Creator,          \* the device that created the group
          NoOne,            \* no identity
          AssignableRoles,  \* the roles a caller asks promote_member for
          MaxUses,          \* max_uses of an invitation
          Ops,              \* the user operations this instance performs
          MaxAttempts,      \* bound: Kyber keypairs a device generates
          MaxVersion,       \* bound: local operations stop at this version
          MaxSends          \* bound: chat messages sent altogether

ASSUME CreatorAssumption == Creator \in Device
ASSUME NoOneAssumption == NoOne \notin Device
ASSUME RolesAssumption == AssignableRoles \subseteq Role
ASSUME BoundAssumption == {MaxUses, MaxAttempts, MaxVersion, MaxSends} \subseteq Nat

VARIABLES
    view,      \* view[d]: the persisted Group record
    key,       \* key[d]: the group key in GroupCrypto (memory), 0 when none
    secret,    \* secret[d]: the persisted my_kyber_<group> keypair, 0 when none
    attempts,  \* attempts[d]: how many Kyber keypairs d generated
    pending,   \* pending[d][i]: PENDING_JOIN_KEMS of d under i's code, 0 when none
    receipt,   \* receipt[d]: inviter of the accepted_invite_<group> receipt
    invite,    \* invite[d]: the invitation d minted
    uses,      \* uses[d]: its current_uses
    msgs,      \* the frames published so far
    inbox,     \* inbox[d]: messages and acks dispatched to the Kotlin layer
    nextKey    \* the next random group key

vars == <<view, key, secret, attempts, pending, receipt, invite, uses, msgs,
          inbox, nextKey>>

\* What only the join handshake touches, and what it never does
joinVars == <<attempts, pending, receipt, invite, uses>>

HasGroup(d) == view[d].version # 0

--------------------------------------------------------------------------------
\* Frames

Chat == [type : {"GroupMessage"}, from : Device, gen : Nat, key : Nat]

Message ==
    [type : {"RequestJoin"}, from : Device, code : Device, kem : Nat]
    \cup
    [type : {"JoinAccepted"}, from : Device, to : Device,
     row : [Device -> Row], version : Nat, kem : Nat, key : Nat]
    \cup
    [type : {"JoinRejected"}, from : Device, to : Device, kem : Nat]
    \cup
    [type : {"MemberAdded"}, from : Device, member : Device, kem : Nat,
     version : Nat]
    \cup
    [type : {"KeyRotation"}, from : Device, removed : Device \cup {NoOne},
     gen : Nat, wraps : [Device -> Nat], key : Nat]
    \cup
    [type : {"RoleChange"}, from : Device, member : Device, role : Role,
     version : Nat]
    \cup
    [type : {"OwnershipTransfer"}, from : Device, to : Device, version : Nat]
    \cup
    Chat
    \cup
    [type : {"MessageAck"}, from : Device, of : Chat]

Publish(frames) == msgs' = msgs \cup frames

TypeOK ==
    /\ view \in [Device -> Group]
    /\ key \in [Device -> Nat]
    /\ secret \in [Device -> Nat]
    /\ attempts \in [Device -> Nat]
    /\ pending \in [Device -> [Device -> Nat]]
    /\ receipt \in [Device -> Device \cup {NoOne}]
    /\ invite \in [Device -> {"none", "open", "expired"}]
    /\ uses \in [Device -> Nat]
    /\ msgs \subseteq Message
    /\ inbox \in [Device -> SUBSET Message]
    /\ nextKey \in Nat \ {0}

Init ==
    /\ view = [d \in Device |-> IF d = Creator THEN CreateGroup(d, 1) ELSE NoGroup]
    /\ key = [d \in Device |-> IF d = Creator THEN 1 ELSE 0]
    /\ secret = [d \in Device |-> IF d = Creator THEN 1 ELSE 0]
    /\ attempts = [d \in Device |-> IF d = Creator THEN 1 ELSE 0]
    /\ pending = [d \in Device |-> [i \in Device |-> 0]]
    /\ receipt = [d \in Device |-> NoOne]
    /\ invite = [d \in Device |-> "none"]
    /\ uses = [d \in Device |-> 0]
    /\ msgs = {}
    /\ inbox = [d \in Device |-> {}]
    /\ nextKey = 2

--------------------------------------------------------------------------------
\* Joining

\* nativeCreateGroupInvite, create_invitation: one invitation per inviter.
CreateInvite(d) ==
    /\ "invite" \in Ops
    /\ invite[d] = "none"
    /\ HasPermission(view[d], d, "CreateInvites")
    /\ invite' = [invite EXCEPT ![d] = "open"]
    /\ UNCHANGED <<view, key, secret, attempts, pending, receipt, uses, msgs,
                   inbox, nextKey>>

\* The clock passes expires_at.
ExpireInvite(d) ==
    /\ "expire" \in Ops
    /\ invite[d] = "open"
    /\ invite' = [invite EXCEPT ![d] = "expired"]
    /\ UNCHANGED <<view, key, secret, attempts, pending, receipt, uses, msgs,
                   inbox, nextKey>>

\* An entry of PENDING_JOIN_KEMS outlives PENDING_JOIN_KEM_TTL: prune_pending_kems
\* drops it before the next look at the map.
ExpirePending(d, i) ==
    /\ "ttl" \in Ops
    /\ pending[d][i] # 0
    /\ pending' = [pending EXCEPT ![d][i] = 0]
    /\ UNCHANGED <<view, key, secret, attempts, receipt, invite, uses, msgs,
                   inbox, nextKey>>

\* nativeAcceptInvite and publish_request_join, with i's link: a new keypair
\* replaces the pending one of an earlier attempt, the receipt is overwritten.
AcceptInvite(d, i) ==
    /\ d # i
    /\ invite[i] # "none"
    /\ attempts[d] < MaxAttempts
    /\ LET kem == attempts[d] + 1 IN
       /\ attempts' = [attempts EXCEPT ![d] = kem]
       /\ pending' = [pending EXCEPT ![d][i] = kem]
       /\ Publish({[type |-> "RequestJoin", from |-> d, code |-> i, kem |-> kem]})
    /\ receipt' = [receipt EXCEPT ![d] = i]
    /\ UNCHANGED <<view, key, secret, invite, uses, inbox, nextKey>>

\* Mutant: the use that reaches max_uses does not close the invitation.
InvitationUsableOnceMore(i) == invite[i] = "open" /\ uses[i] <= MaxUses

\* The two ways process_request_join refuses a known invitation: it is spent
\* or expired, or add_member returns an error.
InvitationUsable(i) == invite[i] = "open" /\ uses[i] < MaxUses

\* process_request_join, Accept: enrol, register the joiner's key, count the
\* use, make sure there is a group key (a restarted inviter has none) and wrap
\* it.  The snapshot is of every row, whatever its status.
AcceptRequestJoin(i, m) ==
    /\ m.type = "RequestJoin" /\ m.code = i /\ m.from # i
    /\ InvitationUsable(i)
    /\ CanAddMember(view[i], i, m.from)
    /\ LET g == SetMemberKyberPub(AddMember(view[i], m.from), m.from, m.kem)
           k == IF key[i] = 0 THEN nextKey ELSE key[i]
       IN /\ view' = [view EXCEPT ![i] = g]
          /\ key' = [key EXCEPT ![i] = k]
          /\ nextKey' = IF key[i] = 0 THEN nextKey + 1 ELSE nextKey
          /\ Publish({[type |-> "JoinAccepted", from |-> i, to |-> m.from,
                       row |-> Snapshot(g, Members(g)), version |-> g.version,
                       kem |-> m.kem, key |-> k],
                      [type |-> "MemberAdded", from |-> i, member |-> m.from,
                       kem |-> m.kem, version |-> g.version]})
    /\ uses' = [uses EXCEPT ![i] = @ + 1]
    /\ UNCHANGED <<secret, attempts, pending, receipt, invite, inbox>>

\* Mutant: the joiner is enrolled before the invitation is looked at.
RejectAfterEnrolling(i, m) ==
    /\ m.type = "RequestJoin" /\ m.code = i /\ m.from # i
    /\ ~(InvitationUsable(i) /\ CanAddMember(view[i], i, m.from))
    /\ view' = [view EXCEPT ![i] =
                  IF CanAddMember(@, i, m.from) THEN AddMember(@, m.from) ELSE @]
    /\ Publish({[type |-> "JoinRejected", from |-> i, to |-> m.from,
                 kem |-> m.kem]})
    /\ UNCHANGED <<key, secret, joinVars, inbox, nextKey>>

\* Mutant: a refused joiner is not told.
RejectSilently(i, m) ==
    /\ m.type = "RequestJoin" /\ m.code = i /\ m.from # i
    /\ ~(InvitationUsable(i) /\ CanAddMember(view[i], i, m.from))
    /\ UNCHANGED vars

\* process_request_join, Reject.  kem only tells the replies to two requests
\* apart: the body names the joiner, not the request.
RejectRequestJoin(i, m) ==
    /\ m.type = "RequestJoin" /\ m.code = i /\ m.from # i
    /\ ~(InvitationUsable(i) /\ CanAddMember(view[i], i, m.from))
    /\ Publish({[type |-> "JoinRejected", from |-> i, to |-> m.from,
                 kem |-> m.kem]})
    /\ UNCHANGED <<view, key, secret, joinVars, inbox, nextKey>>

\* on_join_accepted: a receipt names the inviter whose signature is expected,
\* and the pending secret is taken before the frame is verified.
TakesJoinAccepted(d, m) ==
    /\ m.type = "JoinAccepted" /\ m.to = d
    /\ receipt[d] # NoOne
    /\ pending[d][m.from] # 0

JoinAcceptedOk(d, m) == m.from = receipt[d] /\ m.kem = pending[d][m.from]

\* process_join_accepted, confirm_external_invite_acceptance
ReceiveJoinAccepted(d, m) ==
    /\ TakesJoinAccepted(d, m)
    /\ JoinAcceptedOk(d, m)
    /\ view' = [view EXCEPT ![d] = [row |-> m.row, version |-> m.version]]
    /\ key' = [key EXCEPT ![d] = m.key]
    /\ secret' = [secret EXCEPT ![d] = m.kem]
    /\ receipt' = [receipt EXCEPT ![d] = NoOne]
    /\ pending' = [pending EXCEPT ![d][m.from] = 0]
    /\ UNCHANGED <<attempts, invite, uses, msgs, inbox, nextKey>>

\* on_join_accepted, when verification or unwrap fails: the secret is gone.
FailJoinAccepted(d, m) ==
    /\ TakesJoinAccepted(d, m)
    /\ ~JoinAcceptedOk(d, m)
    /\ pending' = [pending EXCEPT ![d][m.from] = 0]
    /\ UNCHANGED <<view, key, secret, attempts, receipt, invite, uses, msgs,
                   inbox, nextKey>>

\* process_handshake, JoinRejected: neither the signature nor joiner_id is
\* looked at, and the receipt stays.
ReceiveJoinRejected(d, m) ==
    /\ m.type = "JoinRejected" /\ m.from # d
    /\ pending[d][m.from] # 0
    /\ pending' = [pending EXCEPT ![d][m.from] = 0]
    /\ UNCHANGED <<view, key, secret, attempts, receipt, invite, uses, msgs,
                   inbox, nextKey>>

\* process_member_added, apply_member_added: the adder's status is not looked
\* at; a member already in the record is a no-op.
AdderMayAdd(g, adder) == g.row[adder].role \in {"Owner", "Admin"}

ReceiveMemberAdded(d, m) ==
    /\ m.type = "MemberAdded" /\ m.from # d
    /\ HasGroup(d)
    /\ HasMember(view[d], m.from) /\ AdderMayAdd(view[d], m.from)
    /\ ~HasMember(view[d], m.member)
    /\ BelowCap(view[d])
    /\ LET row == [status |-> "Active", role |-> "Member", kem |-> m.kem] IN
       view' = [view EXCEPT ![d] = ApplyMemberAdded(@, m.member, row, m.version)]
    /\ UNCHANGED <<key, secret, joinVars, msgs, inbox, nextKey>>

--------------------------------------------------------------------------------
\* Removal and key rotation

\* Mutant: the filter on Active is missing.
RecipientsOfAnyStatus(g, rotator) ==
    {m \in Device \ {rotator} : g.row[m].kem # 0}

\* rotate_group_key_after_removal: who gets a wrapped copy, and for which key.
Recipients(g, rotator) ==
    {m \in Device \ {rotator} : IsActive(g, m) /\ g.row[m].kem # 0}

Wraps(g, rotator) ==
    [m \in Device |-> IF m \in Recipients(g, rotator) THEN g.row[m].kem ELSE 0]

\* nativeRemoveMember, plan_key_rotation with a removed member.  The leave
\* button of the app is this call with the caller's own identity.
RemoveMemberOp(d, x) ==
    /\ "remove" \in Ops
    /\ view[d].version < MaxVersion
    /\ CanRemoveMember(view[d], d, x)
    /\ LET g == RemoveMember(view[d], x) IN
       /\ view' = [view EXCEPT ![d] = g]
       /\ Publish({[type |-> "KeyRotation", from |-> d, removed |-> x,
                    gen |-> g.version, wraps |-> Wraps(g, d), key |-> nextKey]})
    /\ key' = [key EXCEPT ![d] = nextKey]
    /\ nextKey' = nextKey + 1
    /\ UNCHANGED <<secret, joinVars, inbox>>

\* on_key_rotation and the gates of process_key_rotation
RotationAccepted(d, m) ==
    /\ m.type = "KeyRotation" /\ m.from # d
    /\ HasGroup(d)
    /\ m.gen > view[d].version
    /\ HasPermission(view[d], m.from, "RemoveMembers")

\* The receiver repeats remove_member and ignores its error.
RotationRemoves(d, m) ==
    m.removed # NoOne /\ CanRemoveMember(view[d], m.from, m.removed)

AfterRotation(d, m) ==
    IF RotationRemoves(d, m) THEN RemoveMember(view[d], m.removed) ELSE view[d]

CanUnwrap(d, m) == m.wraps[d] # 0 /\ m.wraps[d] = secret[d]

\* process_key_rotation, a delivery for us: the new key is installed; the
\* version moved by remove_member only, not to the frame's generation.
InstallRotation(d, m) ==
    /\ RotationAccepted(d, m) /\ m.removed # d
    /\ CanUnwrap(d, m)
    /\ view' = [view EXCEPT ![d] = AfterRotation(d, m)]
    /\ key' = [key EXCEPT ![d] = m.key]
    /\ UNCHANGED <<secret, joinVars, msgs, inbox, nextKey>>

\* process_key_rotation, no delivery we can open: the error comes after
\* remove_member, which left a random key behind.
MissRotation(d, m) ==
    /\ RotationAccepted(d, m) /\ m.removed # d
    /\ ~CanUnwrap(d, m)
    /\ RotationRemoves(d, m)
    /\ view' = [view EXCEPT ![d] = AfterRotation(d, m)]
    /\ key' = [key EXCEPT ![d] = nextKey]
    /\ nextKey' = nextKey + 1
    /\ UNCHANGED <<secret, joinVars, msgs, inbox>>

\* process_key_rotation, our own removal: only the Kyber secret is wiped.
LearnOwnRemoval(d, m) ==
    /\ RotationAccepted(d, m) /\ m.removed = d
    /\ secret[d] # 0
    /\ secret' = [secret EXCEPT ![d] = 0]
    /\ UNCHANGED <<view, key, joinVars, msgs, inbox, nextKey>>

--------------------------------------------------------------------------------
\* Roles and ownership

\* nativePromoteMember, promote_member
PromoteMember(d, x, role) ==
    /\ "promote" \in Ops
    /\ view[d].version < MaxVersion
    /\ IsOwner(view[d], d)
    /\ CanUpdateMemberRole(view[d], d, x)
    /\ LET g == UpdateMemberRole(view[d], x, role) IN
       /\ view' = [view EXCEPT ![d] = g]
       /\ Publish({[type |-> "RoleChange", from |-> d, member |-> x,
                    role |-> role, version |-> g.version]})
    /\ UNCHANGED <<key, secret, joinVars, inbox, nextKey>>

\* process_role_change, apply_role_change
ReceiveRoleChange(d, m) ==
    /\ m.type = "RoleChange" /\ m.from # d
    /\ HasGroup(d)
    /\ IsOwner(view[d], m.from)
    /\ CanApplyRoleChange(view[d], m.member)
    /\ view' = [view EXCEPT ![d] = ApplyRoleChange(@, m.member, m.role, m.version)]
    /\ UNCHANGED <<key, secret, joinVars, msgs, inbox, nextKey>>

\* nativeTransferOwnership, transfer_ownership
TransferOwnership(d, x) ==
    /\ "transfer" \in Ops
    /\ view[d].version < MaxVersion
    /\ CanTransfer(view[d], d, x)
    /\ LET version == view[d].version + 1 IN
       /\ view' = [view EXCEPT ![d] = SwapOwner(@, d, x, version)]
       /\ Publish({[type |-> "OwnershipTransfer", from |-> d, to |-> x,
                    version |-> version]})
    /\ UNCHANGED <<key, secret, joinVars, inbox, nextKey>>

\* process_ownership_transfer, apply_ownership_transfer
ReceiveOwnershipTransfer(d, m) ==
    /\ m.type = "OwnershipTransfer" /\ m.from # d
    /\ HasGroup(d)
    /\ CanTransfer(view[d], m.from, m.to)
    /\ view' = [view EXCEPT ![d] =
                   SwapOwner(@, m.from, m.to, Newer(@.version, m.version))]
    /\ UNCHANGED <<key, secret, joinVars, msgs, inbox, nextKey>>

--------------------------------------------------------------------------------
\* Chat messages

\* nativeSendGroupMessage, encrypt_group_message: neither membership nor the
\* SendMessages permission of the sender is looked at.
SendGroupMessage(d) ==
    /\ "send" \in Ops
    /\ Cardinality({m \in msgs : m.type = "GroupMessage"}) < MaxSends
    /\ HasGroup(d) /\ key[d] # 0
    /\ Publish({[type |-> "GroupMessage", from |-> d, gen |-> view[d].version,
                 key |-> key[d]]})
    /\ UNCHANGED <<view, key, secret, joinVars, inbox, nextKey>>

\* open_outer_envelope and the gates of decrypt_group_message
Decrypts(d, m) ==
    /\ m.key = key[d]
    /\ m.gen = view[d].version
    /\ IsActive(view[d], m.from)

\* Mutant: the ack is sent for every frame that arrives.
AckEveryGroupMessage(d, m) ==
    /\ m.type = "GroupMessage" /\ m.from # d
    /\ HasGroup(d)
    /\ inbox' = [inbox EXCEPT ![d] = IF Decrypts(d, m) THEN @ \cup {m} ELSE @]
    /\ Publish({[type |-> "MessageAck", from |-> d, of |-> m]})
    /\ UNCHANGED <<view, key, secret, joinVars, nextKey>>

\* handle_inbound_group_message: dispatch to Kotlin, then ack.
ReceiveGroupMessage(d, m) ==
    /\ m.type = "GroupMessage" /\ m.from # d
    /\ HasGroup(d)
    /\ Decrypts(d, m)
    /\ inbox' = [inbox EXCEPT ![d] = @ \cup {m}]
    /\ Publish({[type |-> "MessageAck", from |-> d, of |-> m]})
    /\ UNCHANGED <<view, key, secret, joinVars, nextKey>>

\* process_message_ack and the self-filter in front of it
ReceiveMessageAck(d, m) ==
    /\ m.type = "MessageAck" /\ m.from # d
    /\ HasGroup(d)
    /\ IsActive(view[d], m.from)
    /\ inbox' = [inbox EXCEPT ![d] = @ \cup {m}]
    /\ UNCHANGED <<view, key, secret, joinVars, msgs, nextKey>>

--------------------------------------------------------------------------------
\* The process dies and nativeInitialize reloads what was persisted: group
\* keys and pending join secrets live in memory only.
Restart(d) ==
    /\ "restart" \in Ops
    /\ key' = [key EXCEPT ![d] = 0]
    /\ pending' = [pending EXCEPT ![d] = [i \in Device |-> 0]]
    /\ UNCHANGED <<view, secret, attempts, receipt, invite, uses, msgs, inbox,
                   nextKey>>

--------------------------------------------------------------------------------

\* What the user of d, or the clock, starts.  The app offers the members that
\* nativeListGroupMembers lists, from a list that may be out of date.
Local(d) ==
    \/ CreateInvite(d)
    \/ ExpireInvite(d)
    \/ \E i \in Device : ExpirePending(d, i)
    \/ \E i \in Device : AcceptInvite(d, i)
    \/ \E x \in Members(view[d]) : RemoveMemberOp(d, x)
    \/ \E x \in Members(view[d]), role \in AssignableRoles :
          PromoteMember(d, x, role)
    \/ \E x \in Members(view[d]) : TransferOwnership(d, x)
    \/ SendGroupMessage(d)
    \/ Restart(d)

\* process_handshake and handle_inbound_group_message: d handles the frame m.
Receive(d, m) ==
    \/ AcceptRequestJoin(d, m)
    \/ RejectRequestJoin(d, m)
    \/ ReceiveJoinAccepted(d, m)
    \/ FailJoinAccepted(d, m)
    \/ ReceiveJoinRejected(d, m)
    \/ ReceiveMemberAdded(d, m)
    \/ InstallRotation(d, m)
    \/ MissRotation(d, m)
    \/ LearnOwnRemoval(d, m)
    \/ ReceiveRoleChange(d, m)
    \/ ReceiveOwnershipTransfer(d, m)
    \/ ReceiveGroupMessage(d, m)
    \/ ReceiveMessageAck(d, m)

Next == \E d \in Device : Local(d) \/ \E m \in msgs : Receive(d, m)

Spec == Init /\ [][Next]_vars

--------------------------------------------------------------------------------
\* Properties

\* Every record of the group names exactly one Owner and that Owner is Active,
\* through joins from snapshots, role changes and ownership transfers handled
\* in any order, late or twice.  apply_ownership_transfer swaps both roles at
\* once, remove_member and update_member_role refuse to touch an Owner.
OneOwner ==
    \A d \in Device : HasGroup(d) =>
        \E o \in Device : Owners(view[d]) = {o} /\ IsActive(view[d], o)

\* No record grows past the member cap, the joiner's copy of a snapshot
\* included, although add_member and apply_member_added each check only the
\* local count.
CapRespected == \A d \in Device : Cardinality(Members(view[d])) <= Cap

\* An invitation admits at most max_uses joiners, however their RequestJoin
\* frames are repeated or interleaved with the reply to another.
InviteLimit ==
    \A i \in Device :
        Cardinality({m \in msgs : m.type = "JoinAccepted" /\ m.from = i}) <= MaxUses

\* Whoever stands in any roster, under any status, was admitted by an inviter:
\* no removal, role change or stale frame makes up a member.
RosterWasAdmitted ==
    \A d, x \in Device :
        HasMember(view[d], x) /\ x # Creator =>
            \E m \in msgs : m.type = "JoinAccepted" /\ m.to = x

\* The key a removal rotates in is not wrapped for the member it removed ("they
\* wouldn't be addressed to us anyway", process_key_rotation), nor does the
\* member come by it on another way, unless an inviter that had the key admitted
\* that member again.
RotatedOutCannotRead ==
    \A m \in msgs :
        m.type = "KeyRotation" /\ m.removed \in Device \ {m.from} =>
            /\ m.wraps[m.removed] = 0
            /\ key[m.removed] = m.key =>
                  \E j \in msgs : /\ j.type = "JoinAccepted" /\ j.to = m.removed
                                  /\ j.key = m.key

\* An acknowledgement dispatched to a sender's app stands for a message the
\* acker really decrypted and dispatched (MessageAck is sent after dispatch).
NoFalseReceipts ==
    \A d \in Device : \A a \in inbox[d] :
        a.type = "MessageAck" => a.of \in inbox[a.from]

\* Once a device has recorded a removal, nothing makes the member Active in
\* that record again, except that the device itself joins anew and takes over
\* the inviter's snapshot.  ("removed members can't keep talking",
\* decrypt_group_message)
RemovedStaysRemoved ==
    [][\A d, x \in Device :
          /\ view[d].row[x].status = "Removed"
          /\ view'[d].row[x].status # "Removed"
          => receipt[d] # NoOne /\ receipt'[d] = NoOne]_vars

--------------------------------------------------------------------------------
\* What the documentation says of the program and TLC refutes

\* "so the remaining members converge on a fresh group key the departed member
\* can no longer decrypt with" (KeyRotationBody): a device that removed x, which
\* never rotated a key itself, does not share its current key with x, unless x
\* was admitted with that key.
KickedMemberStaysOut ==
    \A m \in msgs : \A x \in Device :
        /\ m.type = "KeyRotation" /\ m.removed = x /\ m.from # x
        /\ ~\E l \in msgs : l.type = "KeyRotation" /\ l.from = x
        /\ view[m.from].row[x].status = "Removed"
        /\ key[m.from] # 0 /\ key[x] = key[m.from]
        => \E j \in msgs : j.type = "JoinAccepted" /\ j.to = x /\ j.key = key[x]
================================================================================
