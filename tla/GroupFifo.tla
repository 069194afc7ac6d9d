------------------------------- MODULE GroupFifo -------------------------------
(***************************************************************************)
(* GroupProtocol over a network that is as kind as it can be: every frame  *)
(* reaches every other device exactly once and in one total order, the one *)
(* it was published in.  What fails here fails on the program's own logic  *)
(* and not because a frame was lost, repeated or overtaken.                *)
(*                                                                         *)
(* chan[d] is what the network still has to hand to d: the gossipsub       *)
(* subscription behind P2PNode::run in src/network/p2p_node.rs.            *)
(***************************************************************************)
EXTENDS GroupProtocol, Sequences

VARIABLE chan

fifoVars == <<vars, chan>>

FifoInit == Init /\ chan = [d \in Device |-> <<>>]

\* The frames of this step in the order publish_to_topic got them: on_request_join
\* publishes JoinAccepted, then MemberAdded; every other step publishes one.
Published ==
    LET new == msgs' \ msgs
        first == CHOOSE m \in new : m.type # "MemberAdded"
        second == CHOOSE m \in new : m.type = "MemberAdded"
    IN IF new = {} THEN <<>>
       ELSE IF \E m \in new : m.type = "MemberAdded" THEN <<first, second>>
       ELSE <<first>>

\* nativeCreateGroup and publish_request_join subscribe to the group's topic; a
\* device that did neither does not see the group's frames.
Subscribed(d) == attempts[d] > 0

\* gossipsub does not hand a publisher its own frames.
Broadcast(d, rest) ==
    chan' = [e \in Device |-> IF e = d THEN rest
                              ELSE IF Subscribed(e) THEN chan[e] \o Published
                              ELSE chan[e]]

LocalStep(d) == Local(d) /\ Broadcast(d, chan[d])

\* One of the handlers does something with m; every other frame is dropped or
\* refused before anything changed.
Handles(d, m) ==
    \/ m.type = "RequestJoin" /\ m.code = d /\ m.from # d
    \/ TakesJoinAccepted(d, m)
    \/ m.type = "JoinRejected" /\ m.from # d /\ pending[d][m.from] # 0
    \/ /\ HasGroup(d) /\ m.from # d
       /\ \/ /\ m.type = "MemberAdded"
             /\ HasMember(view[d], m.from) /\ AdderMayAdd(view[d], m.from)
             /\ ~HasMember(view[d], m.member) /\ BelowCap(view[d])
          \/ /\ RotationAccepted(d, m)
             /\ IF m.removed = d THEN secret[d] # 0
                ELSE CanUnwrap(d, m) \/ RotationRemoves(d, m)
          \/ /\ m.type = "RoleChange"
             /\ IsOwner(view[d], m.from) /\ CanApplyRoleChange(view[d], m.member)
          \/ m.type = "OwnershipTransfer" /\ CanTransfer(view[d], m.from, m.to)
          \/ m.type = "GroupMessage" /\ Decrypts(d, m)
          \/ m.type = "MessageAck" /\ IsActive(view[d], m.from)

\* The event loop takes the next frame.
Deliver(d) ==
    /\ chan[d] # <<>>
    /\ LET m == Head(chan[d]) IN
       \/ Receive(d, m)
       \/ ~Handles(d, m) /\ UNCHANGED vars
    /\ Broadcast(d, Tail(chan[d]))

FifoNext == \E d \in Device : LocalStep(d) \/ Deliver(d)

\* The event loop of a running device keeps handling what it received; nobody
\* is obliged to invite, send or remove.
FifoSpec ==
    /\ FifoInit /\ [][FifoNext]_fifoVars
    /\ \A d \in Device : WF_fifoVars(Deliver(d))

--------------------------------------------------------------------------------
\* Properties

Quiescent == \A d \in Device : chan[d] = <<>>

\* The members of the group, by the creator's record, that have joined
Joined == {d \in Device : HasGroup(d) /\ IsActive(view[Creator], d)}

\* When one device changes the group and every frame has been handled, the
\* joined members agree on the version, the group key and each member's role:
\* whatever one of them sends the others decrypt.  Every handler has to adopt
\* the sender's version or count along for this ("the strict generation gate
\* in decrypt_group_message", apply_member_added).
SettledMembersAgree ==
    Quiescent =>
        \A d \in Joined :
            /\ view[d].version = view[Creator].version
            /\ key[d] = key[Creator]
            /\ \A x \in Device : view[d].row[x].role = view[Creator].row[x].role

\* The inviter whose link d followed refused d's request, or refused one of
\* somebody else after which d holds no secret for that link: a JoinRejected is
\* taken by whoever waits for its sender, joiner_id is not looked at.
Refused(d) ==
    \E m \in msgs : /\ m.type = "JoinRejected" /\ m.from = receipt[d]
                    /\ m.to = d \/ pending[d][m.from] = 0

\* A device that asked to join, once or again, gets the group or its inviter
\* refused (process_request_join answers every known invitation, and the
\* handlers of JoinAccepted and JoinRejected take nothing but what they mean to).
JoinAnswered == \A d \in Device : receipt[d] # NoOne ~> HasGroup(d) \/ Refused(d)
================================================================================
