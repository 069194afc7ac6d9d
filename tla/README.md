# Qubee in TLA+

Qubee is a peer-to-peer messenger: a Rust core (`src/src`) with the group protocol, the keystore and a libp2p node, and an
Android application (`src/app`) that keeps messages and contacts in a Room database and calls the core over JNI. This
directory models the parts in which several devices, or several coroutines of one device, act on shared state. TLC checks
the modules on small instances, TLAPS proves the most important properties for every instance.

## 1. The system

| Component | State | Operations | How it interacts | What is hard |
|---|---|---|---|---|
| Group record, `groups/group_manager.rs`, `group_permissions.rs` | per group: members with role, status and Kyber public key, a version; invitations and receipts in the keystore | create, add, remove, promote, transfer, apply a peer's change, mint and use invitations | called under one mutex by the JNI layer and the inbound handlers | every device has its own copy; frames arrive late, twice, out of order or never |
| Handshake, `groups/group_handshake.rs`, `handshake_handlers.rs` | pending Kyber secrets, long-lived Kyber secret per group | RequestJoin, JoinAccepted, JoinRejected, MemberAdded, KeyRotation, RoleChange, OwnershipTransfer, MessageAck, state sync | signed frames on one gossipsub topic per group | a handler may fail half-way; a reply meets a request that is gone |
| Group messages, `groups/group_message.rs`, `group_crypto.rs` | symmetric group key in memory | encrypt, decrypt, acknowledge | generation of the record gates decryption | key and version have to agree on all devices |
| JNI bridge, `jni_api.rs` | the group manager, the P2P node, pending join secrets, each behind a lock | the entry points of the app, dispatch of inbound frames | Kotlin on one side, the event loop on the other | locks released between sub-steps, commands dropped when the channel is full |
| P2P node, `network/p2p_node.rs` | subscriptions, command channel of 32 | publish, subscribe, deliver | libp2p | loss, duplication, reordering |
| Messages, `ChatViewModel`, `MessageService`, `MessageDao` | message rows: status, wire bytes, attempts, next retry, ackers | send, retry, apply an acknowledgement, receive | coroutines over Room, callbacks from the core | read-modify-write across suspension points, process death |
| Contacts and trust, `ContactRepository`, `TrustStatePolicy`, verification view models | contact rows with key, peer id and trust level | observe a key, verify, block | the same database | whole rows written back after a suspension |
| Keystore and database key, `storage/secure_keystore.rs`, `SqlCipherKeyProvider` | a file of sealed keys, a file with the master key; a wrapped key in preferences | store, delete, expire, rotate, migrate | used by everything that persists | crash between two files |
| Calls, `calling/*` | call table, signalling clients, peer connections, cached ICE candidates | initiate, accept, reject, end, toggle tracks, negotiate | async tasks over three tables, each behind a lock of its own; not enabled in any build | locks released between sub-steps, a ring timeout, candidates before descriptions |
| Identity, onboarding, invite links, files, audio, random numbers, locked memory | none that changes concurrently | cryptography and encoding | | |

`PROJECT.json` lists under `hazards` what can go wrong at which line.

## 2. The modules

**GroupPermissions** is the default role matrix. **GroupView** is one device's record of a group and GroupManager's operations
as operators from record to record; a member map is a total function whose missing entries are `NoRow`, names, clocks and
identity keys are left out.

**GroupProtocol** composes the devices. Its variables are the persisted record, the group key in memory, the Kyber secrets,
invitations and receipts of each device, the frames published so far, and what was dispatched to the app. Each JNI operation and
each handler is one action, with the filters `jni_api.rs` puts in front of it, the error paths that change something
(`FailJoinAccepted`, `MissRotation`, `LearnOwnRemoval`) included. A published frame stays in `msgs` and any device may handle it at
any time, again, or never. Keys are numbers: a keypair is the count of those its owner generated, a group key is drawn from
`nextKey`, and what is wrapped for a keypair is opened by the holder of that keypair only. A signature is the `from` field.

**GroupFifo** puts the same actions on a network that delivers every frame to every subscriber exactly once and in one order.
What fails there fails on the program's own logic, and liveness can be stated. A frame that no handler does anything with
(`~Handles`) is dropped. `FifoSpec` is shown to implement GroupProtocol.

**GroupSync** extends GroupProtocol by the state-sync exchange (`RequestStateSync`, `StateSyncResponse`) and the two operations that change a
record without telling anybody, `leave_group` and `update_group_settings`. It starts from a group whose founders have joined and
converged. The receiving side is live in the program; so far only `tests/group_message_e2e.rs` starts an exchange or calls the two
operations. A response may be handled at any time and any number of times, as nothing in it refers to a request.

**JoinThreads** takes the joiner's half of the handshake apart: `nativeAcceptInvite` on threads of the app, `on_join_accepted` on the event
loops (every `nativeStartNetwork` spawns one), one step per lock and per write to the keystore. The inviters answer as GroupProtocol's
do. `mishap` and `torn` are history variables: that something went wrong that the program does not control, and that the process died
between the two writes of an installation. **JoinOnce** is what the joiner promises about the keypairs of its requests whatever its
threads and loops do: an acceptance is installed only with the keypair it was wrapped for, while the joiner has it, and at most
once; keypairs may be lost at any time. `JoinThreads` is shown to implement it: the keypairs that wait are those in the pending map and
those in the hands of a loop that has not stored the group yet.

**Calls** is the calling subsystem: CallManager's table, the signalling clients, WebRTCManager's connections and its ICE cache. An
action is what a task does under one lock. A track may refuse to change after the participant's flag was changed (`FailTrack`), and
webrtc-rs may refuse a candidate while the cache is applied, which loses those behind it (`FailCandidates`). `stray` and `accepted` are
history variables: the tracks whose flag and state the program lets drift apart (two toggles overlapped, or one reported that the
track was not turned off) until the next toggle that runs alone, and the candidates that were taken without an error. **CallPhases** is what a call promises whatever the interleaving: it is set up, rings, is
active and is over, in this order; it is answered once; it has at most one connection, which does not come back. `Calls` is shown to
implement it, with `Phase`, `joined` and `Link` as the refinement mapping.

**Outbox** is the sender's side of a chat message in the Android app: `sendMessage`, the retry loop of `MessageService` and
`applyAckTransactional`, one step per Room call, with refused sends, a cancelled view model and a dying process. Time is counted in
units of 30 seconds, as time left or age, so that behaviours of any length have finitely many states.

**CoreKeystore** is what a device keeps on disk: the identity and the group keystore, each a file of sealed entries and a file with
the master key, and the passphrase that wraps both, kept in preferences under a key of the Android Keystore. The coroutines that
call `QubeeManager.initialize`, the one that resets the identity and the operations on the two stores interleave lock by lock, a
file write is truncation and filling, a rotation of the master key is two of them with a gap in between, preferences reach the flash later than `apply()` returns, and the process dies anywhere. A
store that is dropped or replaced saves itself once more, as its `Drop` does; this includes the half-built store of an opening that
fails over a torn file of entries, which is overwritten with an empty one (`DiscardStore`), so that the next launch opens. `kept`,
`raced` and `erased` are history variables: the keys a store has to keep, whether a coroutine replaced the alias or the passphrase
that another one had just stored, and which random values a completed reset has erased.

**MCGroup**, **MCFifo**, **MCSync**, **MCOutbox**, **MCKeystore** and **MCCalls** are the instances for TLC; JoinThreads is run as it is. The proofs
of a component are in a module of their own: **GroupView_proofs** (the lemmas about GroupManager's operations), **GroupProtocol_proofs**,
**GroupFifo_proofs**, **GroupSync_proofs**, **JoinThreads_proofs**, **Outbox_proofs**, **Calls_proofs** and **CoreKeystore_proofs**.

Simplifications, besides the abstraction of data: one group and one invitation per inviter, its code is the inviter; writes to
the keystore succeed; the age limit of handshake frames is not modelled (a replay falls within it); in GroupProtocol
`on_join_accepted` and `nativeAcceptInvite` are one step (JoinThreads has them lock by lock); a callback is registered when a
frame is dispatched (`MessageService` registers it before it starts the node); in Outbox a batch of the retry loop takes no time
and has at most 32 rows; in CoreKeystore reads, writes and removals of files succeed, what the process wrote survives its death,
`load_groups_from_storage` and the eager identity load only read, `rotate_master_key` and `cleanup_expired_keys` may happen at
any time although only tests call them, and `nativeCleanup` and `SqlCipherKeyProvider.clear`, which have no caller in the
program, are left out. Calls is modelled as it reads: the feature `calling` is not enabled and does not compile today (the
`toggle_*` functions use a value after the guard it borrows from was dropped). Of webrtc-rs,
the creation and the closing of a connection, a change of a track and the adding of a candidate may fail; every candidate is
refused as long as there is no remote description.

## 3. The runs

| Run | Question | Result |
|---|---|---|
| GroupJoin | repeated, lost and late join frames, expiring invitations and secrets, restarts | an invitation admits at most `max_uses`; nobody is in a roster whom no inviter admitted |
| GroupRoles | role changes, transfers and two admins admitting at once, four devices for three seats | every record has one Active Owner and respects the cap |
| GroupKeys | removals and rotations by several members, chat | the key of a rotation does not reach the member it removed; a recorded removal is final; a receipt stands for a message that was read |
| FifoAgree | one administrator, perfect network, invitations that run out, joiners that ask twice | settled members agree on version, key and roles; whoever asks to join gets the group or its inviter has refused somebody's request with that invitation |
| GroupSync | two founders and a joiner that invite, remove, transfer, leave and change settings, one request and one response of any age | no record is without an Active Owner; a response handled twice is one handled once; a member that applies a response its sender has not outgrown reads the sender again |
| JoinThreads | two invitations accepted on two threads, two event loops, refusals, expiry, lost frames, a dying process | the accepted invitation is listed until the group is there; the record and its Kyber secret belong together; an acceptance is installed at most once, although both loops get it (JoinOnce); an undisturbed attempt succeeds |
| CallSetup | three calls, two callers, a limit of one, two participants, clients that come and go | every call implements CallPhases; the limit is exceeded only by the checks that were on their way |
| CallMedia | one call, hang-ups, rejections and lost events at any point, overlapping and failing toggles, descriptions and candidates in any order, refused candidates | CallPhases again; a muted participant is silent unless its toggles overlapped or reported a failure; candidates reach the connection unless an error gave them up; no call rings for ever |
| OutboxRetry | one message, two peers, one process death | no acknowledged row is picked up, the budget holds, no acknowledgement is lost, a sent row is retried until it is acknowledged or the budget is used up |
| KeystoreLife | fresh or legacy installation, two initialising coroutines, two keys per store, expiry, rotations of the master key, resets, two deaths at any step | a stored key is readable at the next launch unless the process died while that store was written or its passphrase was not on flash yet, or a rotation failed over an entry it could not open, or one coroutine replaced what the other had just stored; nothing from before a completed reset is on disk or in memory |

Runs that are expected to find a violation show where the code does not do what a comment or a message of the repository says:

| Run | What TLC shows |
|---|---|
| KickedRegainsKey | A roster snapshot carries no status, so a later joiner takes a removed member for Active and wraps the next key for it. |
| FirstLaunchRace | MainViewModel, OnboardingViewModel and MessageService initialise the core at the same time; two of them draw a passphrase, and the keystores end up wrapped under the one that the preferences do not hold (`KeysReadable`, which KeystoreLife checks except for this race). |

Further behaviour the models show and no run is about:

* Groups. `process_key_rotation` does not raise the version to the generation it installed, so an older rotation that arrives late
  replaces the newer key (`KeyRotationBody.generation` says such a rotation is ignored). A `JoinRejected` drops the pending secret of
  whoever has one for that code, also when it is about somebody else's request: when b asks again and is refused as enrolled, and c
  handles that refusal before its own acceptance, c ignores the acceptance and gets neither the group nor a refusal of its own. This
  is why `JoinAnswered` says `Refused`: some request with that invitation was. `process_member_added` looks at the role of the adder
  and not at its status, so a removed admin is still believed. A second `nativeAcceptInvite` replaces the secret that
  the acceptance on its way was wrapped for, and the inviter refuses the second request because the joiner is enrolled. A member that
  leaves draws the new key on its own device and keeps it. A repeated copy of an ownership transfer is applied again after ownership
  came back.
* State sync. A snapshot taken before a removal revives the removed member, and hands it the key when the receiver rotates. A snapshot
  taken before a transfer may leave a removed former Owner with the role Owner, so that `OneOwner` does not hold with state sync;
  `NeverOwnerless` does. `apply_state_sync` keeps the higher version even where it takes the older roster, and does not look at the cap. The roster is merged before the key is unwrapped, so a response whose key the receiver cannot open leaves
  its record ahead of its key.
* Joining. A process that dies between the deletion of the receipt and the storing of the group has lost both. On a `JoinRejected` the
  comment (`jni_api.rs:1345`) says "Drop the pending receipt"; the code wipes the cached Kyber secret only, so that a refused
  invitation stays listed by `nativeListAcceptedInvites` and can be tried again. `ReceiptOrGroup` states what the code does.
* Messages. From the third attempt on, a retried frame is older than receivers accept. A message whose first send was refused is
  FAILED, which the retry query does not select; nor does it select the row that a dying process leaves in SENDING.
* Keystore. A reset drops the stores, waits for a running initialisation, and then removes the files of the stores that this one
  opened; an initialisation that starts in between opens what is about to be removed. A torn file of entries makes one launch fail and
  is replaced by an empty one on the way: the next launch opens a store without keys. `rotate_master_key` writes the entries before the master key: a death in between makes all of them unreadable, and the next
  rotation, which stops at the first entry that does not open, then takes entries with it that were still good.
* Calls. A hang-up while the invitations go out is overwritten by Ringing. Only the first to accept gets in, any participant that
  leaves ends the call for all, and the initiator's hang-up leaves the connections of the others open. An end before a pending
  connection is inserted leaves a connection on a call that is over. An invitation that fails leaves the call Initiating. Two toggles
  of one participant at once may reach the track in the wrong order, and a track that refuses to be turned off goes on under a flag
  that says muted; the next toggle that runs alone and succeeds puts both right. A cached candidate that webrtc-rs refuses takes those
  behind it along, after the description was installed. `create_answer` does not apply the cached candidates;
  candidates that arrive after a close are cached for good.

Bounds. `MaxVersion` stops local operations at a version, `MaxAttempts` the keypairs of a device, `MaxSends` the chat messages,
`Ops` selects which operations an instance performs; all appear in guards of local operations only, never in a handler. Three
devices are an actor, a target and a bystander; two rotations, two joins and a promotion fit below the versions used. GroupRoles
uses a fourth device because two inviters that race for the last seat need two joiners. Outbox uses the program's own constants
(five attempts, an age of ten units, backoffs of 1, 4, 20, 60 and 240 units). `MaxDraws` of CoreKeystore suffices for a legacy
installation, a reset and a second passphrase after a lost one; two deaths let a second one hit the recovery from the first.
With `Overlap` FALSE a reset and an initialisation do not overlap; KeystoreLife and FirstLaunchRace have two callers each.
KeystoreLife's constraint `LastLaunchAlone` has them initialise one after the other once the process died for the last time; without
it the run takes half as long again (3.3 million states) and finds nothing either.
FifoAgree lets every device ask to join twice; its constraint `RetryOrChange` does not go on where somebody asked twice and a member
was removed or changed its role. It cuts local operations off, which no fairness condition requires, and leaves every delivery in
place, so that what is explored is exact for the liveness property too.
`Founders`, `MaxRequests` and `MaxResponses` of GroupSync let a response be taken before a transfer, a removal and a join and be
handled after them; two attempts, two codes, two threads and two event loops in JoinThreads are the least with which two
acceptances are installed at once. With a limit of one and two callers it takes three calls to exceed the limit by more than the
checks on their way, which CallSetup has; to stay small nobody hangs up there. CallMedia has all operations on one call with one
participant, two tasks, so that two toggles overlap, and two candidates, so that one is refused before the other. Its constraint
`OneAspect` does not go on from a state with both tracks and session descriptions in it: no operation reads both, and the ringing
timer, the only fair action, depends on neither. The devices other than the creator are interchangeable and no checked property of the symmetric runs is a liveness
property.

Deadlock is not checked: users may stop, and with the bounds they do.

Fairness. `FifoSpec` assumes that the event loop of a running device goes on handling frames; `Outbox` that the foreground
service's loop and the clock go on; `JoinThreads` that threads and event loops go on and that an inviter which got a request answers it;
`Calls` that the runtime fires its timers. Nobody has to invite, send, receive or acknowledge.

## 4. The proofs

TLAPS proves the results below for every value of the constants that satisfies the named assumptions of the modules. These say that sets
TLC enumerates are finite where something is counted (devices, callers, threads), that `None` and the like are no members of the sets they
are kept apart from, and that bounds are numbers; the keystore's `MaxDraws` is at least 2 because the installation of an earlier build
comes with two master keys. Where a theorem has a hypothesis of its own, it is written `ASSUME ... PROVE` and named here.
TLC checked every inductive invariant before it was proved.

**Groups** (GroupProtocol_proofs, on the lemmas of GroupView_proofs)

* `TypeCorrect`: the type invariant.
* `SingleOwner`: `OneOwner`, provided no caller asks `promote_member` for the role Owner; the JNI entry point accepts that role and
  the app's role picker does not offer it. `OneOwner` is not inductive: a joiner adopts the snapshot of a frame and a receiver the
  role in a frame, so the invariant adds that every snapshot on the wire has one Active Owner and that no RoleChange carries Owner.
* `RotatedOut`: `RotatedOutCannotRead`. The invariant adds that every key in use was drawn (`KeysDrawn`), that two rotations never
  carry the same key (`RotationsDistinct`), that a rotation has no copy for the member it removes (`RemovedNotWrapped`), and that
  whoever holds the key of a rotation made it, was sent a copy, or was admitted with it (`HoldersExplained`).
* `RemovalIsFinal`: the action property `RemovedStaysRemoved`, from a lemma that every step changes a record by one of GroupManager's
  operations, none of which touches the status Removed, or by joining.
* `ReceiptsTrue`: `NoFalseReceipts`, from the invariant that an acknowledgement on the wire is of a message its sender dispatched.
* `OnlyAdmitted`: `RosterWasAdmitted`. Snapshots and announcements on the wire name admitted members only as well (`AdmissionInv`); one
  lemma (`RosterStep`) says in which ways a step can change a roster.
* `CapIsRespected`: `CapRespected`, with the same for every snapshot on the wire; counting lemmas say by how much an operation of
  GroupManager changes the number of Active members.
* `InviteLimitHolds`: `InviteLimit`. The use counter of an invitation is at least the number of distinct members it admitted
  (`UsesCount`), as a repeated request of a member is refused before the counter.

**Perfect network** (GroupFifo_proofs, on the lemmas of GroupProtocol_proofs)

* `FifoIsProtocol`: `FifoSpec` implements the specification of GroupProtocol, so every theorem above holds for it.
* `MembersAgree`: `SettledMembersAgree`, for every number of devices, joins, removals and role changes, under the hypothesis
  `OneAdministrator`: roles are assigned from Member and Observer only, and neither a transfer nor a restart is among the operations.
  Without it the property is not claimed: two administrators number their changes independently, and a restarted process has no
  group key. FifoAgree satisfies the hypothesis. The property only speaks of quiet states, so the invariant has to say what is on its
  way in all others. `AdminInv`: nobody but the Creator can change anything, in any record or snapshot. `LogInv`: the change frames
  form a log, numbered without gap or repetition up to the Creator's version, and the Creator's roles and key are what the log
  says at that version. `ChanInv`: a member's record is what the log says at the member's version, and the frames in its channel
  that are newer are the whole rest of the log, in order; behind an acceptance that a joiner has not handled yet come exactly the
  changes since. With an empty channel the member is at the end of the log.

**State sync** (GroupSync_proofs, on the lemmas of GroupProtocol_proofs)

* `SyncTypeCorrect`: the type invariant with the exchange added.
* `SyncIsIdempotent`: `SyncIdempotent`, from a lemma about `apply_state_sync` alone (`ApplyTwice`).
* `AlwaysOwned`: `NeverOwnerless`. Unlike `SingleOwner` it has no hypothesis on the roles; the invariant is that every record and
  every snapshot, state-sync responses included, has an Active Owner.
* `SyncRestores`: the action property `SyncRestoresChat`; a response names its sender (`ResponderNamed`).

**Joining** (JoinThreads_proofs)

* `TypeCorrect`; the count of keypairs stays within its bound because a thread that was let in and has none yet is counted (`AttemptsLeft`).
* `InSight` and `SecretBelongs`: `ReceiptOrGroup` and `SecretFitsGroup`. The invariant says that a loop between the two writes
  of an installation holds the lock (`LockInv`), that the group it stored is still the stored one (`KeepInv`), and that from
  the recording of an acceptance on it is listed or its group is there whenever no installation is under way (`SightInv`).
* `AcceptancesOnce`: JoinThreads implements JoinOnce. Every step is a step of JoinOnce or a stutter; storing the group is `Install`. The
  invariant says that a keypair is in one place at most, under one code of the map or with one loop (`OnePlace`), so that storing
  the group with it leaves no second copy; that requests name keypairs that were drawn, that a loop works on acceptances only, and
  that behind the check of the signature its frame was wrapped for the keypair in its hands (`Traced`).

**Messages** (Outbox_proofs)

* `TypeCorrect`, `BudgetKept` (`RetryBudget`), `AckedNotRetried` (`NoRetryOfAcked`), `NoAckLost` (`AckersKept`). The retry loop writes
  the attempt it read in an earlier query plus one; the invariant `LoopFresh` says that this is still what the row says.
  `CopiesCounted` accounts for every copy handed over: the first send, counted attempts, the one being worked on, and one per death
  of the process. `AckedIsRetired` ties the ackers of a row to its bytes.

**Calls** (Calls_proofs)

* `TypeCorrect`, `OverrunIsBounded`.
* `MutedStaysSilent`: `MutedIsSilent`, without a hypothesis: toggles overlap and fail. The invariant `MediaInv` says that a track that is not
  `stray` has at most one toggle on its way, which carries what the table says, and that a track the table does not allow is about
  to be turned off.
* `CandidatesDoArrive`: `CandidatesArrive`, refused candidates included. `CandInv`: what was accepted is in the cache or with the connection,
  and with the connection once its offer was answered.
* `CallsHavePhases`: Calls implements CallPhases. Every step is a step of CallPhases or a stutter under the mapping of `Phase`,
  `joined` and `Link`. The invariant `CInv` says who can be at work on a call: one task sets it up, only while nobody has answered,
  and one task connects whoever answered, only while there is no connection. `LimitInv` counts the callers past their check.

**Keystore** (CoreKeystore_proofs)

* `TypeCorrect`, which includes that an open store has a master key; with any number of callers and overlapping resets.
* `ResetForgets`: `ResetErases`, for any number of callers, provided no initialisation overlaps the reset (`~Overlap`). The
  invariant says which stores are closed and which files are gone at each step of the reset (`Staged`), that nobody is inside
  `initialize` meanwhile (`Apart`), and that whatever is on disk, in memory or in the hands of `nativeInitialize` was drawn after the
  last reset (`AllYoung`).
* `KeysDoSurvive`: `KeysSurvive`, for any number of callers, with `~Overlap` as its only hypothesis. `KeysSurvive` promises nothing once one
  caller has replaced the alias or passphrase that another had just stored (`raced`), which FirstLaunchRace shows to lose keys; the
  invariant `RInv` accordingly keeps `KInv` only until then. `OnePassphrase` says that a passphrase is in the preferences before
  anything is sealed under it, and that callers who hold one hold the same; it is the part that the race breaks. `InTurn` says that a store is not used while it
  is opened, `FitsStore` and `FitsOpening` relate files to memory, and `Kept` says where a key is at every step of a write, a migration,
  a rotation and a replacement of a store.

Model-checked only:

* liveness (`JoinAnswered`, `JoinCompletes`, `RetriedUntilDone`, `RingingEnds`), which is out of the prover's reach;
* that the violations of section 3 occur: these are counterexamples.

## 5. Plan

1. Proofs: the joiner of GroupProtocol shown to implement JoinOnce as well, which JoinThreads does, so that both say the same of it.
2. Contacts and trust: the policy, and whole rows written back by concurrent coroutines.
3. The inbound path of MessageService: duplicates of a retried frame, contacts created on the way.
4. The SQLCipher database beside CoreKeystore: its own key, the wiping of a legacy file, and the race for the Keystore alias.

## 6. Not modelled

Identity keys, the onboarding bundle, invite links, file chunks, audio and the random number generator are functions of their
arguments. The double ratchet and `signal_protocol.rs` are not compiled. Screens and themes have no state of interest.
Of calls, quality statistics, devices, codecs and media encryption are left out: they are counters and configuration, or change no state
that another task reads. `join_group_with_invitation` and the event log of GroupManager have no caller and no reader. Contacts and the
inbound path of MessageService are in the plan.
