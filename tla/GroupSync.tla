------------------------------- MODULE GroupSync -------------------------------
(***************************************************************************)
(* GroupProtocol with the state-sync exchange: a member that was away asks *)
(* on the group's topic for the current roster, and every active member    *)
(* answers with a snapshot and the group key wrapped for it.  Also the     *)
(* operations of GroupManager that change the record without telling       *)
(* anybody: leave_group and update_group_settings.                         *)
(*                                                                         *)
(* Nothing in the app starts an exchange or calls those two yet (tests/    *)
(* group_message_e2e.rs does); the receiving side is live in jni_api.rs.   *)
(* sync holds the frames of the exchange; as in msgs, any frame may be     *)
(* handled late, again or never.  A response carries nothing that ties it  *)
(* to one request, and the receiver does not look at its age.              *)
(***************************************************************************)
EXTENDS GroupProtocol

CONSTANTS Founders,      \* who has joined when the group is first looked at
          MaxRequests,   \* bound: RequestStateSync frames published altogether
          MaxResponses   \* bound: StateSyncResponse frames published altogether

ASSUME FoundersAssumption == Creator \in Founders /\ Founders \subseteq Device
ASSUME SyncBoundAssumption == {MaxRequests, MaxResponses} \subseteq Nat

VARIABLE sync            \* the frames of the exchange published so far

syncVars == <<vars, sync>>

\* The bodies of the two frames.  The responder does not look at since_version;
\* kem = 0 stands for wrapped_group_key: None.
Request == [type : {"RequestStateSync"}, from : Device]

Response ==
    [type : {"StateSyncResponse"}, from : Device, to : Device,
     row : [Device -> Row], version : Nat, kem : Nat, key : Nat]

Frames(type) == {m \in sync : m.type = type}

Active(g) == {m \in Device : IsActive(g, m)}

--------------------------------------------------------------------------------
\* The founders have joined through the creator's invitation, which is spent,
\* and have handled all of one another's MemberAdded frames; each join counted
\* the version up twice (add_member, set_member_kyber_pub).
FoundedRow(m) ==
    IF m \notin Founders THEN NoRow
    ELSE [status |-> "Active", role |-> IF m = Creator THEN "Owner" ELSE "Member",
          kem |-> 1]

FoundedGroup ==
    [row |-> [m \in Device |-> FoundedRow(m)], version |-> 2 * Cardinality(Founders) - 1]

SyncInit ==
    /\ view = [d \in Device |-> IF d \in Founders THEN FoundedGroup ELSE NoGroup]
    /\ key = [d \in Device |-> IF d \in Founders THEN 1 ELSE 0]
    /\ secret = [d \in Device |-> IF d \in Founders THEN 1 ELSE 0]
    /\ attempts = [d \in Device |-> IF d \in Founders THEN 1 ELSE 0]
    /\ pending = [d \in Device |-> [i \in Device |-> 0]]
    /\ receipt = [d \in Device |-> NoOne]
    /\ invite = [d \in Device |-> "none"]
    /\ uses = [d \in Device |-> 0]
    /\ msgs = {}
    /\ inbox = [d \in Device |-> {}]
    /\ nextKey = 2
    /\ sync = {}

--------------------------------------------------------------------------------
\* The exchange

\* build_state_sync_request, sign_request_state_sync
RequestStateSync(d) ==
    /\ "sync" \in Ops
    /\ HasGroup(d)
    /\ Cardinality(Frames("RequestStateSync")) < MaxRequests
    /\ sync' = sync \cup {[type |-> "RequestStateSync", from |-> d]}
    /\ UNCHANGED vars

\* The key wrapped for x: a Kyber key must be registered and a group key held.
WrapFor(d, x) == IF key[d] = 0 THEN 0 ELSE view[d].row[x].kem

\* process_request_state_sync and its publication: both the requester and the
\* responder are Active in the responder's record, the snapshot is of the
\* Active members.
ProcessRequestStateSync(d, m) ==
    /\ m.type = "RequestStateSync" /\ m.from # d
    /\ Cardinality(Frames("StateSyncResponse")) < MaxResponses
    /\ HasGroup(d)
    /\ IsActive(view[d], m.from)
    /\ IsActive(view[d], d)
    /\ LET kem == WrapFor(d, m.from) IN
       sync' = sync \cup
           {[type |-> "StateSyncResponse", from |-> d, to |-> m.from,
             row |-> Snapshot(view[d], Active(view[d])),
             version |-> view[d].version,
             kem |-> kem, key |-> IF kem = 0 THEN 0 ELSE key[d]]}
    /\ UNCHANGED vars

\* Mutant: a named member is made Active and nothing else is taken over.
SyncRowStatusOnly(mine, theirs) ==
    IF theirs = NoRow
    THEN IF mine.status = "Active" THEN SetStatus(mine, "Removed") ELSE mine
    ELSE SetStatus(mine, "Active")

\* Mutant: a member that is known keeps its role.
SyncRowKeepsRole(mine, theirs) ==
    IF theirs = NoRow
    THEN IF mine.status = "Active" THEN SetStatus(mine, "Removed") ELSE mine
    ELSE [status |-> "Active",
          role |-> IF mine = NoRow THEN theirs.role ELSE mine.role,
          kem |-> IF theirs.kem = 0 THEN mine.kem ELSE theirs.kem]

\* apply_state_sync on one member: an Active member the snapshot does not name
\* was dropped meanwhile; a named one is Active with the snapshot's role, and
\* with its Kyber key unless that is empty.
SyncRow(mine, theirs) ==
    IF theirs = NoRow
    THEN IF mine.status = "Active" THEN SetStatus(mine, "Removed") ELSE mine
    ELSE [status |-> "Active", role |-> theirs.role,
          kem |-> IF theirs.kem = 0 THEN mine.kem ELSE theirs.kem]

\* Mutant: the version counts up, as it does in every local operation.
ApplyStateSyncCounts(g, row, version) ==
    [row |-> [m \in Device |-> SyncRow(g.row[m], row[m])],
     version |-> Newer(g.version, version) + 1]

\* apply_state_sync.  The member cap is not looked at.
ApplyStateSync(g, row, version) ==
    [row |-> [m \in Device |-> SyncRow(g.row[m], row[m])],
     version |-> Newer(g.version, version)]

\* Mutant: the roster is merged and the key left for a catch-up flow, as the
\* comment of StateSyncResponseBody still says.
ReceiveRosterOnly(d, m) ==
    /\ m.type = "StateSyncResponse" /\ m.to = d
    /\ HasGroup(d) /\ IsActive(view[d], m.from)
    /\ view' = [view EXCEPT ![d] = ApplyStateSync(@, m.row, m.version)]
    /\ UNCHANGED <<key, secret, joinVars, msgs, inbox, nextKey, sync>>

\* process_state_sync_response: the addressee checks that the responder is
\* Active in its own record, merges the snapshot, and then tries the key; a
\* key it cannot unwrap leaves the merged roster in place.
ReceiveStateSync(d, m) ==
    /\ m.type = "StateSyncResponse" /\ m.to = d
    /\ HasGroup(d) /\ IsActive(view[d], m.from)
    /\ view' = [view EXCEPT ![d] = ApplyStateSync(@, m.row, m.version)]
    /\ key' = [key EXCEPT ![d] = IF m.kem # 0 /\ m.kem = secret[d] THEN m.key ELSE @]
    /\ UNCHANGED <<secret, joinVars, msgs, inbox, nextKey, sync>>

--------------------------------------------------------------------------------
\* Changes that are not broadcast

\* leave_group, with one's own identity: the key is replaced by a random one.
LeaveGroup(d) ==
    /\ "leave" \in Ops
    /\ HasGroup(d) /\ view[d].version < MaxVersion
    /\ ~IsOwner(view[d], d)
    /\ view' = [view EXCEPT ![d] =
                   PutRow(@, d, IF HasMember(@, d) THEN SetStatus(@.row[d], "Left")
                                ELSE @.row[d], @.version + 1)]
    /\ key' = [key EXCEPT ![d] = nextKey]
    /\ nextKey' = nextKey + 1
    /\ UNCHANGED <<secret, joinVars, msgs, inbox, sync>>

\* update_group_settings
UpdateGroupSettings(d) ==
    /\ "settings" \in Ops
    /\ HasGroup(d) /\ view[d].version < MaxVersion
    /\ HasPermission(view[d], d, "ManageSettings")
    /\ view' = [view EXCEPT ![d].version = @ + 1]
    /\ UNCHANGED <<key, secret, joinVars, msgs, inbox, nextKey, sync>>

--------------------------------------------------------------------------------

SyncStep(d) ==
    \/ RequestStateSync(d)
    \/ \E m \in sync : ProcessRequestStateSync(d, m)
    \/ \E m \in sync : ReceiveStateSync(d, m)
    \/ LeaveGroup(d)
    \/ UpdateGroupSettings(d)

SyncNext == (Next /\ UNCHANGED sync) \/ \E d \in Device : SyncStep(d)

SyncSpec == SyncInit /\ [][SyncNext]_syncVars

--------------------------------------------------------------------------------
\* Properties

\* Well-typed states, the exchange included: a snapshot, however old, never
\* leaves a row without a role, a version of 0 or a key of 0 wrapped.
SyncTypeOK ==
    /\ TypeOK
    /\ sync \subseteq Request \cup Response
    /\ \A m \in sync : m.type = "StateSyncResponse" /\ m.kem # 0 => m.key # 0

\* "This is intentionally idempotent: applying the same snapshot twice leaves
\* state unchanged" (apply_state_sync): whatever the addressee's record is by
\* now, a response delivered twice is a response delivered once.
SyncIdempotent ==
    \A m \in sync : m.type = "StateSyncResponse" =>
        LET once == ApplyStateSync(view[m.to], m.row, m.version)
        IN ApplyStateSync(once, m.row, m.version) = once

\* No record is left without an Active Owner ("receivers never see two owners
\* or zero owners", nativeTransferOwnership): not by a snapshot older than a
\* transfer, nor by one whose Owner the receiver had recorded as removed.
NeverOwnerless ==
    \A d \in Device : HasGroup(d) =>
        \E o \in Active(view[d]) : IsOwner(view[d], o)

\* "Closes the receive-decrypt gap" (wrapped_group_key): a member that was away
\* or restarted, and applies a response its sender has not outgrown since, can
\* read what the responder sends next, unless its own record is ahead or the
\* responder knows another Kyber key for it.
SyncRestoresChat ==
    [][\A d \in Device : \A m \in sync :
          /\ ReceiveStateSync(d, m)
          /\ view[m.from].version = m.version /\ key[m.from] = m.key
          /\ view[d].version <= m.version
          /\ m.kem = secret[d] /\ m.kem # 0
          => Decrypts(d, [type |-> "GroupMessage", from |-> m.from,
                          gen |-> view[m.from].version, key |-> key[m.from]])']_syncVars
================================================================================
