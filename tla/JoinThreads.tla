------------------------------ MODULE JoinThreads ------------------------------
(***************************************************************************)
(* The joiner's side of the handshake, lock by lock.  GroupProtocol makes  *)
(* nativeAcceptInvite and on_join_accepted one step each; in the program   *)
(* the first runs on a thread of the app and the second on the event loop  *)
(* that nativeStartNetwork spawned, one for every call of it.  Both give   *)
(* up GROUP_MANAGER and PENDING_JOIN_KEMS in between, and the process may  *)
(* die between two writes of the keystore.                                 *)
(*                                                                         *)
(* One group, seen by one device that is not in it yet.  A code stands for *)
(* an invitation and the inviter that minted it, a number for a Kyber      *)
(* keypair of the joiner, 0 for none.                                      *)
(***************************************************************************)
EXTENDS Integers, FiniteSets

CONSTANTS Code,         \* invitations to the group, of different inviters
          Thread,       \* threads of the app that call nativeAcceptInvite
          Loop,         \* event loops
          Ops,          \* the mishaps of the instance
          MaxAttempts,  \* bound: calls of nativeAcceptInvite
          None          \* no code, no loop

ASSUME AttemptsAssumption == MaxAttempts \in Nat
ASSUME ThreadAssumption == IsFiniteSet(Thread)
ASSUME NobodyAssumption == None \notin Code \cup Loop

VARIABLES
    receipt,   \* the code of the accepted_invite_<group> receipt, on flash
    group,     \* the keypair of the acceptance the record was made from, on flash
    secret,    \* my_kyber_<group>, on flash
    pending,   \* pending[c]: PENDING_JOIN_KEMS
    lock,      \* the loop that is inside process_join_accepted with GROUP_MANAGER held
    app,       \* app[t]: where nativeAcceptInvite is
    loop,      \* loop[l]: where on_join_accepted is
    attempts,  \* keypairs generated
    requests,  \* RequestJoin frames published
    replies,   \* frames of the inviters
    seen,      \* seen[l]: frames l has taken from its channel
    enrolled,  \* codes whose inviter has enrolled us
    mishap,    \* history: a frame, a secret or the process was lost, or an inviter refused
    torn       \* history: the process died inside process_join_accepted

vars == <<receipt, group, secret, pending, lock, app, loop, attempts, requests,
          replies, seen, enrolled, mishap, torn>>
flash == <<receipt, group, secret>>
network == <<requests, replies, enrolled>>
history == <<mishap, torn>>

Request == [code : Code, kem : 1..MaxAttempts]
Reply == [type : {"accepted", "rejected"}, code : Code, kem : 1..MaxAttempts]

AppIdle == [pc |-> "idle", code |-> None]
LoopIdle == [pc |-> "idle", expected |-> None, kem |-> 0, frame |-> {}]

\* Keypairs and frames exist only as far as they were made, and on_join_accepted
\* enters process_join_accepted with a secret in hand.
TypeOK ==
    /\ attempts \in 0..MaxAttempts
    /\ receipt \in Code \cup {None}
    /\ {group, secret} \subseteq 0..attempts
    /\ pending \in [Code -> 0..attempts]
    /\ app \in [Thread -> [pc : {"idle", "stash"}, code : Code \cup {None}]
                          \cup [pc : {"publish"}, code : Code, kem : 1..attempts]]
    /\ loop \in [Loop -> [pc : {"idle", "take", "install", "store", "keep"},
                          expected : Code \cup {None}, kem : 0..attempts, frame : SUBSET replies]]
    /\ \A l \in Loop : loop[l].pc \in {"install", "store", "keep"} => loop[l].kem # 0
    /\ lock \in Loop \cup {None}
    /\ requests \subseteq Request /\ replies \subseteq Reply
    /\ seen \in [Loop -> SUBSET replies]
    /\ enrolled \subseteq Code
    /\ mishap \in BOOLEAN /\ torn \in BOOLEAN

Init ==
    /\ receipt = None /\ group = 0 /\ secret = 0
    /\ pending = [c \in Code |-> 0]
    /\ lock = None
    /\ app = [t \in Thread |-> AppIdle]
    /\ loop = [l \in Loop |-> LoopIdle]
    /\ attempts = 0
    /\ requests = {} /\ replies = {} /\ enrolled = {}
    /\ seen = [l \in Loop |-> {}]
    /\ mishap = FALSE /\ torn = FALSE

--------------------------------------------------------------------------------
\* nativeAcceptInvite

\* record_external_invite_acceptance: the receipt is per group, not per code.
RecordAcceptance(t, c) ==
    /\ app[t].pc = "idle"
    /\ lock = None
    /\ attempts + Cardinality({u \in Thread : app[u].pc = "stash"}) < MaxAttempts
    /\ receipt' = c
    /\ app' = [app EXCEPT ![t] = [pc |-> "stash", code |-> c]]
    /\ UNCHANGED <<group, secret, pending, lock, loop, attempts, network, seen, history>>

\* Mutant: the request goes out before the secret is in the map.
PublishThenStash(t) ==
    /\ app[t].pc = "stash"
    /\ attempts' = attempts + 1
    /\ requests' = requests \cup {[code |-> app[t].code, kem |-> attempts + 1]}
    /\ app' = [app EXCEPT ![t] = [pc |-> "publish", code |-> app[t].code, kem |-> attempts + 1]]
    /\ UNCHANGED <<flash, pending, lock, loop, replies, enrolled, seen, history>>

\* publish_request_join up to the insertion into PENDING_JOIN_KEMS, which
\* replaces the secret of an earlier attempt.
StashSecret(t) ==
    /\ app[t].pc = "stash"
    /\ attempts' = attempts + 1
    /\ pending' = [pending EXCEPT ![app[t].code] = attempts + 1]
    /\ app' = [app EXCEPT ![t] = [pc |-> "publish", code |-> app[t].code, kem |-> attempts + 1]]
    /\ UNCHANGED <<flash, lock, loop, network, seen, history>>

\* The rest of it.  publish_to_topic gives the frame to the P2P node, unless
\* the network is not up or its channel is full.
PublishRequest(t) ==
    /\ app[t].pc = "publish"
    /\ \/ /\ requests' = requests \cup {[code |-> app[t].code, kem |-> app[t].kem]}
          /\ UNCHANGED mishap
       \/ /\ "lose" \in Ops
          /\ mishap' = TRUE
          /\ UNCHANGED requests
    /\ app' = [app EXCEPT ![t] = AppIdle]
    /\ UNCHANGED <<flash, pending, lock, loop, attempts, replies, enrolled, seen, torn>>

--------------------------------------------------------------------------------
\* The inviters (process_request_join of GroupProtocol): each enrols us once and
\* refuses from then on; one whose invitation is spent refuses at once.

Accept(r) ==
    /\ r.code \notin enrolled
    /\ enrolled' = enrolled \cup {r.code}
    /\ replies' = replies \cup {[type |-> "accepted", code |-> r.code, kem |-> r.kem]}
    /\ UNCHANGED <<flash, pending, lock, app, loop, attempts, requests, seen, history>>

Reject(r) ==
    /\ r.code \in enrolled \/ "reject" \in Ops
    /\ \A m \in replies : m.code = r.code => m.kem # r.kem
    /\ replies' = replies \cup {[type |-> "rejected", code |-> r.code, kem |-> r.kem]}
    /\ mishap' = (mishap \/ r.code \notin enrolled)
    /\ UNCHANGED <<flash, pending, lock, app, loop, attempts, requests, enrolled, seen, torn>>

--------------------------------------------------------------------------------
\* process_handshake on the event loop, for the frames that name us

\* Take the frame m; go on with step, or drop it
Take(l, m, step) ==
    /\ loop[l].pc = "idle"
    /\ m \in replies \ seen[l]
    /\ seen' = [seen EXCEPT ![l] = @ \cup {m}]
    /\ loop' = [loop EXCEPT ![l] = step]

\* JoinRejected: the secret cached for the code is wiped.
ReceiveRejected(l, m) ==
    /\ m.type = "rejected"
    /\ Take(l, m, LoopIdle)
    /\ pending' = [pending EXCEPT ![m.code] = 0]
    /\ UNCHANGED <<flash, lock, app, attempts, network, history>>

\* on_join_accepted looks for a receipt to learn whose signature to expect;
\* without one the frame is dropped.
OnJoinAccepted(l, m) ==
    /\ m.type = "accepted"
    /\ lock = None
    /\ Take(l, m, IF receipt = None THEN LoopIdle
                  ELSE [pc |-> "take", expected |-> receipt, kem |-> 0, frame |-> {m}])
    /\ UNCHANGED <<flash, pending, lock, app, attempts, network, history>>

TheFrame(l) == CHOOSE m \in loop[l].frame : TRUE

\* Mutant: the receipt is given up together with the secret.
TakeBoth(l) ==
    LET c == TheFrame(l).code IN
    /\ loop[l].pc = "take"
    /\ loop' = [loop EXCEPT ![l] = IF pending[c] = 0 THEN LoopIdle
                                   ELSE [@ EXCEPT !.pc = "install", !.kem = pending[c]]]
    /\ pending' = [pending EXCEPT ![c] = 0]
    /\ receipt' = IF pending[c] = 0 THEN receipt ELSE None
    /\ UNCHANGED <<group, secret, lock, app, attempts, network, seen, history>>

\* Mutant: the secret is looked up and stays in the map.
TakeCopy(l) ==
    LET c == TheFrame(l).code IN
    /\ loop[l].pc = "take"
    /\ loop' = [loop EXCEPT ![l] = IF pending[c] = 0 THEN LoopIdle
                                   ELSE [@ EXCEPT !.pc = "install", !.kem = pending[c]]]
    /\ UNCHANGED <<flash, pending, lock, app, attempts, network, seen, history>>

\* Mutant: no error without a pending secret.
TakeNothing(l) ==
    LET c == TheFrame(l).code IN
    /\ loop[l].pc = "take"
    /\ loop' = [loop EXCEPT ![l].pc = "install", ![l].kem = pending[c]]
    /\ pending' = [pending EXCEPT ![c] = 0]
    /\ UNCHANGED <<flash, lock, app, attempts, network, seen, history>>

\* take_pending_kyber_secret: gone from the map whatever comes of it.
TakeSecret(l) ==
    LET c == TheFrame(l).code IN
    /\ loop[l].pc = "take"
    /\ loop' = [loop EXCEPT ![l] = IF pending[c] = 0 THEN LoopIdle
                                   ELSE [@ EXCEPT !.pc = "install", !.kem = pending[c]]]
    /\ pending' = [pending EXCEPT ![c] = 0]
    /\ UNCHANGED <<flash, lock, app, attempts, network, seen, history>>

\* The signature is the expected inviter's and the secret opens the wrapped key.
Verifies(l) == TheFrame(l).code = loop[l].expected /\ TheFrame(l).kem = loop[l].kem

\* process_join_accepted takes GROUP_MANAGER and returns an error,
FailInstall(l) ==
    /\ loop[l].pc = "install"
    /\ lock = None
    /\ ~Verifies(l)
    /\ loop' = [loop EXCEPT ![l] = LoopIdle]
    /\ UNCHANGED <<flash, pending, lock, app, attempts, network, seen, history>>

\* or goes on to confirm_external_invite_acceptance, which deletes the receipt,
DeleteReceipt(l) ==
    /\ loop[l].pc = "install"
    /\ lock = None
    /\ Verifies(l)
    /\ lock' = l
    /\ receipt' = None
    /\ loop' = [loop EXCEPT ![l].pc = "store"]
    /\ UNCHANGED <<group, secret, pending, app, attempts, network, seen, history>>

\* Mutant: the lock is given back before the secret is kept.
StoreGroupAndUnlock(l) ==
    /\ loop[l].pc = "store"
    /\ group' = loop[l].kem
    /\ lock' = None
    /\ loop' = [loop EXCEPT ![l].pc = "keep"]
    /\ UNCHANGED <<receipt, secret, pending, app, attempts, network, seen, history>>

\* stores the record with the key,
StoreGroup(l) ==
    /\ loop[l].pc = "store"
    /\ group' = loop[l].kem
    /\ loop' = [loop EXCEPT ![l].pc = "keep"]
    /\ UNCHANGED <<receipt, secret, pending, lock, app, attempts, network, seen, history>>

\* and back in process_join_accepted to store_my_kyber_secret.
KeepSecret(l) ==
    /\ loop[l].pc = "keep"
    /\ secret' = loop[l].kem
    /\ lock' = None
    /\ loop' = [loop EXCEPT ![l] = LoopIdle]
    /\ UNCHANGED <<receipt, group, pending, app, attempts, network, seen, history>>

--------------------------------------------------------------------------------
\* Mishaps

\* prune_pending_kems
ExpirePending(c) ==
    /\ "ttl" \in Ops
    /\ pending[c] # 0
    /\ pending' = [pending EXCEPT ![c] = 0]
    /\ mishap' = TRUE
    /\ UNCHANGED <<flash, lock, app, loop, attempts, network, seen, torn>>

\* The process dies and is started again: the map and the threads are gone.
Die ==
    /\ "die" \in Ops
    /\ pending' = [c \in Code |-> 0]
    /\ app' = [t \in Thread |-> AppIdle]
    /\ loop' = [l \in Loop |-> LoopIdle]
    /\ torn' = (torn \/ lock # None)
    /\ lock' = None
    /\ mishap' = TRUE
    /\ UNCHANGED <<flash, attempts, network, seen>>

--------------------------------------------------------------------------------

AppStep(t) == StashSecret(t) \/ PublishRequest(t)

Inviter(r) == Accept(r) \/ Reject(r)

LoopStep(l) ==
    \/ \E m \in replies : ReceiveRejected(l, m) \/ OnJoinAccepted(l, m)
    \/ TakeSecret(l)
    \/ FailInstall(l)
    \/ DeleteReceipt(l)
    \/ StoreGroup(l)
    \/ KeepSecret(l)

Next ==
    \/ \E t \in Thread, c \in Code : RecordAcceptance(t, c)
    \/ \E t \in Thread : AppStep(t)
    \/ \E r \in requests : Inviter(r)
    \/ \E l \in Loop : LoopStep(l)
    \/ \E c \in Code : ExpirePending(c)
    \/ Die

\* Threads and event loops go on, and an inviter that is online answers.  Nobody
\* has to accept an invitation.
Spec ==
    /\ Init /\ [][Next]_vars
    /\ \A t \in Thread : WF_vars(AppStep(t))
    /\ \A l \in Loop : WF_vars(LoopStep(l))
    /\ \A r \in Request : WF_vars(r \in requests /\ Inviter(r))

--------------------------------------------------------------------------------
\* Properties

\* An invitation the user accepted is listed by nativeListAcceptedInvites until the group is there:
\* whatever is refused, expires or fails to verify in between, the app never loses sight of it, unless the
\* process died between delete_key and store_group_securely.
\* This holds after a JoinRejected as well: the comment there says "Drop the pending receipt", but the code
\* (jni_api.rs, process_handshake) wipes the Kyber secret only, so a refused invitation stays listed.
ReceiptOrGroup == attempts > 0 /\ lock = None /\ ~torn => receipt # None \/ group # 0

\* The record and the Kyber secret for its rotations stem from the same acceptance, although two event
\* loops may install two acceptances at once: process_join_accepted does all of it under GROUP_MANAGER.
SecretFitsGroup ==
    ~torn /\ (\A l \in Loop : loop[l].pc # "keep") => secret = group

\* The keypairs that are in the map or in the hands of a loop that has not stored the group yet, and
\* those an acceptance was wrapped for
Waiting ==
    ({pending[c] : c \in Code}
     \cup {loop[l].kem : l \in {k \in Loop : loop[k].pc \in {"install", "store"}}}) \ {0}

Accepted == {m.kem : m \in {n \in replies : n.type = "accepted"}}

Once == INSTANCE JoinOnce WITH drawn <- attempts, waiting <- Waiting, accepted <- Accepted

\* An acceptance is installed at most once and only with its own keypair, although every event loop gets
\* a copy of it: take_pending_kyber_secret removes the secret before process_join_accepted is entered.
InstalledOnce == Once!Spec

\* publish_request_join stashes the secret first: no acceptance can overtake it.  A single attempt that
\* nothing goes wrong with ends in the group.
JoinCompletes == requests # {} /\ attempts = 1 ~> group # 0 \/ mishap \/ attempts > 1
================================================================================
