--------------------------- MODULE JoinThreads_proofs ---------------------------
(***************************************************************************)
(* Theorems about JoinThreads, for every number of invitations, threads,   *)
(* event loops and attempts.                                               *)
(***************************************************************************)
EXTENDS JoinThreads, FiniteSetTheorems, TLAPS

--------------------------------------------------------------------------------
\* Type correctness

\* Threads that have recorded an acceptance and not generated a keypair yet
Stashing == {t \in Thread : app[t].pc = "stash"}

\* RecordAcceptance leaves room for the keypair that StashSecret generates.
AttemptsLeft == attempts + Cardinality(Stashing) <= MaxAttempts

\* The types, with what StashSecret needs to stay within its bound and LoopStep
\* to have a frame in hand.
TInv ==
    /\ TypeOK
    /\ AttemptsLeft
    /\ \A t \in Thread : app[t].pc = "stash" => app[t].code \in Code
    /\ \A l \in Loop : loop[l].pc # "idle" => loop[l].frame # {}

\* A set of threads is finite.
LEMMA ThreadsCount ==
    ASSUME NEW S \in SUBSET Thread
    PROVE  IsFiniteSet(S) /\ Cardinality(S) \in Nat
BY ThreadAssumption, FS_Subset, FS_CardinalityType

\* The frame a loop works on is one of the inviters' frames.
LEMMA FrameType ==
    ASSUME TypeOK, NEW l \in Loop, loop[l].frame # {}
    PROVE  TheFrame(l) \in replies /\ TheFrame(l).code \in Code
<1>1. loop[l].frame \subseteq replies
    BY DEF TypeOK
<1>2. TheFrame(l) \in loop[l].frame
    BY DEF TheFrame
<1>3. QED
    BY <1>1, <1>2 DEF TypeOK, Reply

\* The initial states.
LEMMA InitTInv == Init => TInv
<1>1. SUFFICES ASSUME Init PROVE TInv
    OBVIOUS
<1>2. Stashing = {}
    BY <1>1 DEF Init, AppIdle, Stashing
<1>3. Cardinality(Stashing) = 0
    BY <1>2, FS_EmptySet
<1>4. TypeOK
  <2>1. AppIdle \in [pc : {"idle", "stash"}, code : Code \cup {None}]
    BY DEF AppIdle
  <2>2. /\ LoopIdle \in [pc : {"idle", "take", "install", "store", "keep"},
                         expected : Code \cup {None}, kem : 0..0, frame : SUBSET {}]
        /\ LoopIdle.pc = "idle"
    BY DEF LoopIdle
  <2>3. mishap \in BOOLEAN /\ torn \in BOOLEAN
    BY <1>1 DEF Init
  <2>4. QED
    BY <1>1, <2>1, <2>2, <2>3, AttemptsAssumption DEF Init, TypeOK
<1>5. QED
    BY <1>1, <1>2, <1>3, <1>4, AttemptsAssumption DEF Init, TInv, AttemptsLeft, AppIdle, LoopIdle

\* A step that leaves the threads of the app and their keypairs alone leaves
\* room for the same keypairs.
LEMMA AppUnchanged ==
    ASSUME AttemptsLeft, UNCHANGED <<app, attempts>>
    PROVE  AttemptsLeft'
BY DEF AttemptsLeft, Stashing

\* nativeAcceptInvite keeps the types and the bound on keypairs.
LEMMA AppTInv ==
    ASSUME TInv, NEW t \in Thread,
           AppStep(t) \/ \E c \in Code : RecordAcceptance(t, c)
    PROVE  TInv'
<1> USE DEF TInv
<1>1. CASE \E c \in Code : RecordAcceptance(t, c)
  <2>1. PICK c \in Code : RecordAcceptance(t, c)
    BY <1>1
  <2>2. Stashing' = Stashing \cup {t} /\ t \notin Stashing
    BY <2>1 DEF RecordAcceptance, Stashing, TypeOK
  <2>3. Cardinality(Stashing') = Cardinality(Stashing) + 1
    BY <2>2, ThreadsCount, FS_AddElement DEF Stashing
  <2>4. Cardinality(Stashing) \in Nat
    BY ThreadsCount DEF Stashing
  <2>5. AttemptsLeft'
    BY <2>1, <2>3, <2>4, AttemptsAssumption DEF RecordAcceptance, AttemptsLeft, TypeOK, Stashing
  <2>6. TypeOK'
    BY <2>1 DEF RecordAcceptance, TypeOK, network, history
  <2>7. QED
    BY <2>1, <2>5, <2>6 DEF RecordAcceptance, TypeOK, network, history
<1>2. CASE StashSecret(t)
  <2>1. Stashing' = Stashing \ {t} /\ t \in Stashing
    BY <1>2 DEF StashSecret, Stashing, TypeOK
  <2>2. Cardinality(Stashing') = Cardinality(Stashing) - 1
    BY <2>1, ThreadsCount, FS_RemoveElement DEF Stashing
  <2>3. Cardinality(Stashing) \in Nat /\ Cardinality(Stashing') \in Nat
    BY <2>1, ThreadsCount DEF Stashing
  <2>4. attempts \in Nat /\ attempts' = attempts + 1 /\ attempts' \in 0..MaxAttempts
    BY <1>2, <2>2, <2>3, AttemptsAssumption DEF StashSecret, AttemptsLeft, TypeOK
  <2>5. AttemptsLeft'
    BY <2>2, <2>3, <2>4, AttemptsAssumption DEF AttemptsLeft
  <2>6. TypeOK'
    <3>1. app[t].code \in Code
      BY <1>2 DEF StashSecret
    <3>2. app' \in [Thread -> [pc : {"idle", "stash"}, code : Code \cup {None}]
                             \cup [pc : {"publish"}, code : Code, kem : 1..attempts']]
      BY <1>2, <2>4, <3>1 DEF StashSecret, TypeOK
    <3>3. pending' \in [Code -> 0..attempts'] /\ {group, secret} \subseteq 0..attempts'
      BY <1>2, <2>4, <3>1 DEF StashSecret, TypeOK
    <3>4. loop \in [Loop -> [pc : {"idle", "take", "install", "store", "keep"},
                          expected : Code \cup {None}, kem : 0..attempts', frame : SUBSET replies]]
      BY <2>4 DEF TypeOK
    <3>5. QED
      BY <1>2, <2>4, <3>2, <3>3, <3>4 DEF StashSecret, TypeOK, flash, network, history
  <2>7. QED
    BY <1>2, <2>5, <2>6 DEF StashSecret, TypeOK
<1>3. CASE PublishRequest(t)
  <2>1. Stashing' = Stashing
    BY <1>3 DEF PublishRequest, Stashing, AppIdle, TypeOK
  <2>2. AttemptsLeft'
    BY <1>3, <2>1 DEF PublishRequest, AttemptsLeft
  <2>3. requests' \subseteq Request
    <3>1. app[t] \in [pc : {"publish"}, code : Code, kem : 1..attempts]
      BY <1>3 DEF PublishRequest, TypeOK
    <3>2. [code |-> app[t].code, kem |-> app[t].kem] \in Request
      BY <3>1, AttemptsAssumption DEF TypeOK, Request
    <3>3. QED
      BY <1>3, <3>2 DEF PublishRequest, TypeOK
  <2>4. TypeOK'
    BY <1>3, <2>3 DEF PublishRequest, TypeOK, flash, AppIdle
  <2>5. QED
    BY <1>3, <2>2, <2>4 DEF PublishRequest, AppIdle, TypeOK
<1>4. QED
    BY <1>1, <1>2, <1>3 DEF AppStep

\* The inviters keep the types.
LEMMA InviterTInv ==
    ASSUME TInv, NEW r \in requests, Inviter(r)
    PROVE  TInv'
<1>1. r \in Request
    BY DEF TInv, TypeOK
<1>2. replies \subseteq replies' /\ replies' \subseteq Reply
    BY <1>1 DEF Inviter, Accept, Reject, TInv, TypeOK, Request, Reply
<1>3. UNCHANGED <<receipt, group, secret, pending, lock, app, loop, attempts, requests, seen, torn>>
    BY DEF Inviter, Accept, Reject, flash, history
<1>4. enrolled' \subseteq Code /\ mishap' \in BOOLEAN
    BY <1>1 DEF Inviter, Accept, Reject, TInv, TypeOK, Request, history
<1>5. loop \in [Loop -> [pc : {"idle", "take", "install", "store", "keep"},
                        expected : Code \cup {None}, kem : 0..attempts, frame : SUBSET replies']]
      /\ seen \in [Loop -> SUBSET replies']
    BY <1>2 DEF TInv, TypeOK
<1>6. TypeOK'
    BY <1>2, <1>3, <1>4, <1>5 DEF TInv, TypeOK
<1>7. QED
    BY <1>3, <1>6, AppUnchanged DEF TInv

\* on_join_accepted and the receipt of a rejection keep the types.
LEMMA LoopTInv ==
    ASSUME TInv, NEW l \in Loop, LoopStep(l)
    PROVE  TInv'
<1> DEFINE LoopType == [pc : {"idle", "take", "install", "store", "keep"},
                        expected : Code \cup {None}, kem : 0..attempts, frame : SUBSET replies]
<1>1. /\ AttemptsLeft'
      /\ UNCHANGED <<app, attempts, requests, replies, enrolled, mishap, torn>>
    BY AppUnchanged DEF LoopStep, ReceiveRejected, OnJoinAccepted, TakeSecret, FailInstall,
                        DeleteReceipt, StoreGroup, KeepSecret, network, history, TInv
<1>2. /\ LoopIdle \in LoopType /\ loop[l] \in LoopType
      /\ loop \in [Loop -> LoopType]
      /\ loop[l].pc # "idle" => TheFrame(l) \in replies /\ TheFrame(l).code \in Code
    BY FrameType DEF TInv, TypeOK, LoopIdle
<1>3. SUFFICES /\ receipt' \in Code \cup {None} /\ {group', secret'} \subseteq 0..attempts
               /\ pending' \in [Code -> 0..attempts]
               /\ lock' \in Loop \cup {None}
               /\ seen' \in [Loop -> SUBSET replies]
               /\ \E s \in LoopType :
                     /\ loop' = [loop EXCEPT ![l] = s]
                     /\ s.pc \in {"install", "store", "keep"} => s.kem # 0
                     /\ s.pc # "idle" => s.frame # {}
    BY <1>1, <1>2 DEF TInv, TypeOK

<1>4. CASE \E m \in replies : ReceiveRejected(l, m)
  <2>1. PICK m \in replies : ReceiveRejected(l, m)
    BY <1>4
  <2>2. m.code \in Code
    BY DEF TInv, TypeOK, Reply
  <2>3. QED
    BY <1>2, <2>1, <2>2 DEF ReceiveRejected, Take, TInv, TypeOK, flash, LoopIdle
<1>5. CASE \E m \in replies : OnJoinAccepted(l, m)
  <2>1. PICK m \in replies : OnJoinAccepted(l, m)
    BY <1>5
  <2> DEFINE s == [pc |-> "take", expected |-> receipt, kem |-> 0, frame |-> {m}]
  <2>2. s \in LoopType
    BY DEF TInv, TypeOK
  <2>3. loop' = [loop EXCEPT ![l] = LoopIdle] \/ loop' = [loop EXCEPT ![l] = s]
    BY <2>1 DEF OnJoinAccepted, Take
  <2>4. QED
    BY <1>2, <2>1, <2>2, <2>3 DEF OnJoinAccepted, Take, TInv, TypeOK, flash, LoopIdle
<1>6. CASE TakeSecret(l)
  <2> DEFINE k == pending[TheFrame(l).code]
             s == [loop[l] EXCEPT !.pc = "install", !.kem = k]
  <2>1. loop[l].pc = "take" /\ TheFrame(l).code \in Code /\ k \in 0..attempts
    BY <1>2, <1>6 DEF TakeSecret, TInv, TypeOK
  <2>2. s \in LoopType /\ s.pc = "install" /\ s.kem = k /\ s.frame # {}
    BY <1>2, <2>1 DEF TInv
  <2>3. loop' = [loop EXCEPT ![l] = IF k = 0 THEN LoopIdle ELSE s]
    BY <1>6 DEF TakeSecret
  <2> HIDE DEF s
  <2>4. QED
    BY <1>2, <1>6, <2>1, <2>2, <2>3 DEF TakeSecret, TInv, TypeOK, flash, LoopIdle
<1>7. CASE FailInstall(l)
    BY <1>2, <1>7 DEF FailInstall, TInv, TypeOK, flash, LoopIdle
<1>8. CASE DeleteReceipt(l)
  <2>1. [loop[l] EXCEPT !.pc = "store"] \in LoopType
    BY <1>2
  <2>2. QED
    BY <1>2, <1>8, <2>1 DEF DeleteReceipt, TInv, TypeOK
<1>9. CASE StoreGroup(l)
  <2>1. [loop[l] EXCEPT !.pc = "keep"] \in LoopType
    BY <1>2
  <2>2. QED
    BY <1>2, <1>9, <2>1 DEF StoreGroup, TInv, TypeOK
<1>10. CASE KeepSecret(l)
    BY <1>2, <1>10 DEF KeepSecret, TInv, TypeOK, LoopIdle
<1>11. QED
    BY <1>4, <1>5, <1>6, <1>7, <1>8, <1>9, <1>10 DEF LoopStep

\* Every step keeps the types.
LEMMA StepTInv == TInv /\ [Next]_vars => TInv'
<1>1. SUFFICES ASSUME TInv, [Next]_vars PROVE TInv'
    OBVIOUS
<1>2. ASSUME NEW c \in Code, ExpirePending(c) PROVE TInv'
    BY <1>1, <1>2, AppUnchanged DEF ExpirePending, TInv, TypeOK, flash, network
<1>3. CASE Die
  <2>1. Stashing' = {} /\ Cardinality(Stashing') = 0
    BY <1>3, FS_EmptySet DEF Die, AppIdle, Stashing
  <2>2. AttemptsLeft'
    BY <1>1, <1>3, <2>1, AttemptsAssumption DEF Die, AttemptsLeft, TInv, TypeOK
  <2>3. QED
    BY <1>1, <1>3, <2>2 DEF Die, TInv, TypeOK, flash, network, AppIdle, LoopIdle
<1>4. CASE UNCHANGED vars
    BY <1>1, <1>4, AppUnchanged DEF vars, TInv, TypeOK
<1>5. QED
    BY <1>1, <1>2, <1>3, <1>4, AppTInv, InviterTInv, LoopTInv DEF Next

\* The state of the joiner stays well typed, and no more keypairs are generated
\* than threads were let in for, in every interleaving and through every death of
\* the process.
THEOREM TypeCorrect == Spec => []TypeOK
<1>1. Spec => []TInv
    BY InitTInv, StepTInv, PTL DEF Spec
<1>2. TInv => TypeOK
    BY DEF TInv
<1>3. QED
    BY <1>1, <1>2, PTL

--------------------------------------------------------------------------------
\* The accepted invitation, the group and its secret

\* GROUP_MANAGER is held exactly from the deletion of the receipt to the storing
\* of the secret.
LockInv == \A l \in Loop : loop[l].pc \in {"store", "keep"} <=> lock = l

\* Between the two stores the record is the one the loop works on.
KeepInv == \A l \in Loop : loop[l].pc = "keep" => group = loop[l].kem

\* ReceiptOrGroup from the recording of the acceptance on, and not only from the
\* first keypair
SightInv ==
    lock = None /\ ~torn /\ (attempts > 0 \/ Stashing # {}) => receipt # None \/ group # 0

JInv == LockInv /\ KeepInv /\ SightInv /\ SecretFitsGroup

\* The initial states.
LEMMA InitJInv == Init => JInv
BY NobodyAssumption DEF Init, JInv, LockInv, KeepInv, SightInv, SecretFitsGroup, AppIdle, LoopIdle, Stashing

\* A step that leaves the loops, the lock and what is on flash alone keeps the
\* invariant, provided it starts no attempt.
LEMMA ElsewhereJInv ==
    ASSUME TInv, JInv,
           UNCHANGED <<receipt, group, secret, lock, loop, torn>>,
           attempts' > 0 \/ Stashing' # {} => attempts > 0 \/ Stashing # {}
    PROVE  JInv'
BY DEF JInv, LockInv, KeepInv, SightInv, SecretFitsGroup

\* Every step keeps the invariant.
LEMMA StepJInv == TInv /\ JInv /\ [Next]_vars => JInv'
<1>1. SUFFICES ASSUME TInv, JInv, [Next]_vars PROVE JInv'
    OBVIOUS
<1>2. ASSUME NEW t \in Thread, NEW c \in Code, RecordAcceptance(t, c) PROVE JInv'
    BY <1>1, <1>2, NobodyAssumption
       DEF RecordAcceptance, JInv, LockInv, KeepInv, SightInv, SecretFitsGroup, history
<1>3. ASSUME NEW t \in Thread, AppStep(t) PROVE JInv'
  <2>1. UNCHANGED <<receipt, group, secret, lock, loop, torn>>
    BY <1>3 DEF AppStep, StashSecret, PublishRequest, flash, history
  <2>2. CASE StashSecret(t)
    <3>1. t \in Stashing
      BY <2>2 DEF StashSecret, Stashing
    <3>2. QED
      BY <1>1, <2>1, <3>1, ElsewhereJInv
  <2>3. CASE PublishRequest(t)
    <3>1. Stashing' \subseteq Stashing /\ attempts' = attempts
      BY <1>1, <2>3 DEF PublishRequest, Stashing, AppIdle, TInv, TypeOK
    <3>2. QED
      BY <1>1, <2>1, <3>1, ElsewhereJInv
  <2>4. QED
    BY <1>3, <2>2, <2>3 DEF AppStep
<1>4. ASSUME NEW r \in requests, Inviter(r) PROVE JInv'
  <2>1. UNCHANGED <<receipt, group, secret, lock, loop, torn, app, attempts>>
    BY <1>4 DEF Inviter, Accept, Reject, flash, history
  <2>2. QED
    BY <1>1, <2>1, ElsewhereJInv DEF Stashing
<1>5. ASSUME NEW l \in Loop, LoopStep(l) PROVE JInv'
  <2>1. /\ UNCHANGED <<app, attempts, torn>> /\ Stashing' = Stashing
        /\ loop \in [Loop -> [pc : {"idle", "take", "install", "store", "keep"},
                          expected : Code \cup {None}, kem : 0..attempts, frame : SUBSET replies]]
    BY <1>1, <1>5 DEF LoopStep, ReceiveRejected, OnJoinAccepted, TakeSecret, FailInstall, DeleteReceipt,
                      StoreGroup, KeepSecret, history, TInv, TypeOK, Stashing
  <2>2. CASE \/ \E m \in replies : ReceiveRejected(l, m) \/ OnJoinAccepted(l, m)
             \/ TakeSecret(l) \/ FailInstall(l)
    <3>1. /\ UNCHANGED <<receipt, group, secret, lock>>
          /\ loop[l].pc \notin {"store", "keep"} /\ loop'[l].pc \notin {"store", "keep"}
          /\ \A k \in Loop : k # l => loop'[k] = loop[k]
      <4>1. CASE \E m \in replies : ReceiveRejected(l, m) \/ OnJoinAccepted(l, m)
        BY <2>1, <4>1 DEF ReceiveRejected, OnJoinAccepted, Take, flash, LoopIdle
      <4>2. CASE TakeSecret(l)
        BY <2>1, <4>2 DEF TakeSecret, flash, LoopIdle
      <4>3. CASE FailInstall(l)
        BY <2>1, <4>3 DEF FailInstall, flash, LoopIdle
      <4>4. QED
        BY <2>2, <4>1, <4>2, <4>3
    <3>2. QED
      BY <1>1, <2>1, <3>1 DEF JInv, LockInv, KeepInv, SightInv, SecretFitsGroup
  <2>3. CASE DeleteReceipt(l)
    <3>1. /\ lock = None /\ lock' = l /\ UNCHANGED <<group, secret>>
          /\ loop[l].pc = "install" /\ loop'[l].pc = "store"
          /\ \A k \in Loop : k # l => loop'[k] = loop[k]
      BY <2>1, <2>3 DEF DeleteReceipt
    <3>2. QED
      BY <1>1, <2>1, <3>1, NobodyAssumption DEF JInv, LockInv, KeepInv, SightInv, SecretFitsGroup
  <2>4. CASE StoreGroup(l)
    <3>1. /\ UNCHANGED <<receipt, secret, lock>> /\ group' = loop[l].kem
          /\ loop[l].pc = "store" /\ loop'[l].pc = "keep" /\ loop'[l].kem = loop[l].kem
          /\ \A k \in Loop : k # l => loop'[k] = loop[k]
      BY <2>1, <2>4 DEF StoreGroup
    <3>2. QED
      BY <1>1, <2>1, <3>1, NobodyAssumption DEF JInv, LockInv, KeepInv, SightInv, SecretFitsGroup
  <2>5. CASE KeepSecret(l)
    <3>1. /\ UNCHANGED <<receipt, group>> /\ secret' = loop[l].kem /\ lock' = None
          /\ loop[l].pc = "keep" /\ loop'[l].pc = "idle" /\ loop[l].kem # 0
          /\ \A k \in Loop : k # l => loop'[k] = loop[k]
      BY <1>1, <2>1, <2>5 DEF KeepSecret, LoopIdle, TInv, TypeOK
    <3>2. QED
      BY <1>1, <2>1, <3>1, NobodyAssumption DEF JInv, LockInv, KeepInv, SightInv, SecretFitsGroup
  <2>6. QED
    BY <1>5, <2>2, <2>3, <2>4, <2>5 DEF LoopStep
<1>6. ASSUME NEW c \in Code, ExpirePending(c) PROVE JInv'
    BY <1>1, <1>6, ElsewhereJInv DEF ExpirePending, flash, Stashing
<1>7. CASE Die
  <2>1. /\ UNCHANGED <<receipt, group, secret, attempts>> /\ lock' = None
        /\ \A l \in Loop : loop'[l].pc = "idle"
        /\ \A t \in Thread : app'[t].pc = "idle"
    BY <1>7 DEF Die, flash, AppIdle, LoopIdle
  <2>2. ~torn' => ~torn /\ lock = None
    BY <1>7 DEF Die
  <2>3. Stashing' = {}
    BY <2>1 DEF Stashing
  <2>4. lock = None => \A l \in Loop : loop[l].pc # "keep"
    BY <1>1, NobodyAssumption DEF JInv, LockInv
  <2>5. ~torn' => secret' = group'
    BY <1>1, <2>1, <2>2, <2>4 DEF JInv, SecretFitsGroup
  <2>6. LockInv' /\ KeepInv'
    BY <2>1, NobodyAssumption DEF LockInv, KeepInv
  <2>7. SightInv'
    BY <1>1, <2>1, <2>2, <2>3 DEF JInv, SightInv
  <2>8. QED
    BY <2>5, <2>6, <2>7 DEF JInv, SecretFitsGroup
<1>8. CASE UNCHANGED vars
    BY <1>1, <1>8, ElsewhereJInv DEF vars, Stashing
<1>9. QED
    BY <1>1, <1>2, <1>3, <1>4, <1>5, <1>6, <1>7, <1>8 DEF Next

\* The invariants hold in every reachable state.
LEMMA Invariants == Spec => [](TInv /\ JInv)
BY InitTInv, StepTInv, InitJInv, StepJInv, PTL DEF Spec

\* An accepted invitation stays in sight until its group is there, however many
\* threads accept and event loops answer, unless the process died between the
\* deletion of the receipt and the storing of the group.
THEOREM InSight == Spec => []ReceiptOrGroup
<1>1. JInv => ReceiptOrGroup
    BY DEF JInv, SightInv, ReceiptOrGroup
<1>2. QED
    BY Invariants, <1>1, PTL

\* The record of the group and the Kyber secret on flash stem from one
\* acceptance, whichever loops install how many of them.
THEOREM SecretBelongs == Spec => []SecretFitsGroup
<1>1. JInv => SecretFitsGroup
    BY DEF JInv
<1>2. QED
    BY Invariants, <1>1, PTL

--------------------------------------------------------------------------------
\* An acceptance is installed at most once

\* The loops that have taken a secret and not stored the group with it yet
Holds(l) == loop[l].pc \in {"install", "store"}

\* A keypair is in one place at most: under one code of the map or in the hands
\* of one loop, so that the loop that stores the group leaves no second copy.
OnePlace ==
    /\ \A c, d \in Code : pending[c] = pending[d] /\ pending[c] # 0 => c = d
    /\ \A l \in Loop, c \in Code : Holds(l) => loop[l].kem # pending[c]
    /\ \A l, k \in Loop : Holds(l) /\ Holds(k) /\ loop[l].kem = loop[k].kem => l = k

\* The requests name keypairs that were drawn, a loop works on acceptances only,
\* and behind confirm_external_invite_acceptance on the one its secret opens.
Traced ==
    /\ \A r \in requests : r.kem \in 1..attempts
    /\ \A l \in Loop : loop[l].pc # "idle" => \A m \in loop[l].frame : m.type = "accepted"
    /\ \A l \in Loop : loop[l].pc = "store" => \E m \in loop[l].frame : m.kem = loop[l].kem

OInv == OnePlace /\ Traced

\* The initial states.
LEMMA InitOInv == Init => OInv
BY DEF Init, OInv, OnePlace, Traced, Holds, LoopIdle

\* What is in Waiting, place by place.
LEMMA WaitingOf ==
    \A n : n \in Waiting <=> /\ n # 0
                             /\ \/ \E c \in Code : n = pending[c]
                                \/ \E l \in Loop : Holds(l) /\ n = loop[l].kem
BY DEF Waiting, Holds

\* The same of the next state.
LEMMA WaitingOfNext ==
    \A n : n \in Waiting' <=> /\ n # 0
                              /\ \/ \E c \in Code : n = pending'[c]
                                 \/ \E l \in Loop : Holds(l)' /\ n = loop'[l].kem
BY DEF Waiting, Holds
\* Where secrets are only wiped and loops only let go of theirs, no keypair gets
\* a second place and none begins to wait.
LEMMA FewerPlaces ==
    ASSUME TInv, OnePlace,
           \A c \in Code : pending'[c] \in {pending[c], 0},
           \A l \in Loop : Holds(l)' => Holds(l) /\ loop'[l].kem = loop[l].kem
    PROVE  OnePlace' /\ Waiting' \subseteq Waiting
<1>1. \A l \in Loop : Holds(l) => loop[l].kem # 0
    BY DEF TInv, TypeOK, Holds
<1>2. \A c, d \in Code : pending'[c] = pending'[d] /\ pending'[c] # 0 => c = d
    BY DEF OnePlace
<1>3. \A l \in Loop, c \in Code : Holds(l)' => loop'[l].kem # pending'[c]
    BY <1>1 DEF OnePlace
<1>4. \A l, k \in Loop : Holds(l)' /\ Holds(k)' /\ loop'[l].kem = loop'[k].kem => l = k
    BY DEF OnePlace
<1>5. OnePlace'
    BY <1>2, <1>3, <1>4 DEF OnePlace
<1>6. ASSUME NEW n \in Waiting' PROVE n \in Waiting
  <2>1. n # 0
    BY <1>6, WaitingOfNext
  <2>2. CASE \E c \in Code : n = pending'[c]
    BY <2>1, <2>2, WaitingOf
  <2>3. CASE \E l \in Loop : Holds(l)' /\ n = loop'[l].kem
    BY <2>1, <2>3, WaitingOf
  <2>4. QED
    BY <1>6, <2>2, <2>3, WaitingOfNext
<1>7. QED
    BY <1>5, <1>6

\* nativeAcceptInvite up to the receipt and its publication touch no secret.
LEMMA AppOnce ==
    ASSUME TInv, OInv, NEW t \in Thread,
           PublishRequest(t) \/ \E c \in Code : RecordAcceptance(t, c)
    PROVE  OInv' /\ Once!Lose
<1>1. UNCHANGED <<group, pending, loop, attempts, replies>>
    BY DEF PublishRequest, RecordAcceptance, flash, network
<1>2. \A r \in requests' : r.kem \in 1..attempts
  <2>1. CASE PublishRequest(t)
    <3>1. app[t].kem \in 1..attempts
      BY <2>1 DEF PublishRequest, TInv, TypeOK
    <3>2. \A r \in requests' : r \in requests \/ r = [code |-> app[t].code, kem |-> app[t].kem]
      BY <2>1 DEF PublishRequest
    <3>3. QED
      BY <3>1, <3>2 DEF OInv, Traced
  <2>2. CASE \E c \in Code : RecordAcceptance(t, c)
    BY <2>2 DEF RecordAcceptance, network, OInv, Traced
  <2>3. QED
    BY <2>1, <2>2
<1>3. Traced'
    BY <1>1, <1>2 DEF OInv, Traced
<1>4. OnePlace' /\ Waiting' = Waiting /\ Accepted' = Accepted
    BY <1>1 DEF OInv, OnePlace, Holds, Waiting, Accepted
<1>5. QED
    BY <1>1, <1>3, <1>4 DEF OInv, Once!Lose

\* publish_request_join draws a keypair that is nowhere yet.
LEMMA StashOnce ==
    ASSUME TInv, OInv, NEW t \in Thread, StashSecret(t)
    PROVE  OInv' /\ Once!Draw
<1>1. PICK a \in Code : a = app[t].code
    BY DEF StashSecret, TInv
<1>2. /\ UNCHANGED <<group, loop, replies, requests>>
      /\ attempts \in Nat /\ attempts' = attempts + 1
      /\ pending \in [Code -> 0..attempts]
      /\ pending' = [pending EXCEPT ![a] = attempts + 1]
    BY <1>1 DEF StashSecret, flash, network, TInv, TypeOK
<1>3. /\ pending'[a] = attempts + 1
      /\ \A c \in Code : pending[c] \in 0..attempts
      /\ \A c \in Code : c # a => pending'[c] = pending[c]
    BY <1>2
<1>4. /\ \A l \in Loop : loop[l].kem \in 0..attempts
      /\ \A l \in Loop : Holds(l)' <=> Holds(l)
    BY <1>2 DEF TInv, TypeOK, Holds
<1>5. OnePlace'
  <2>1. \A c, d \in Code : pending'[c] = pending'[d] /\ pending'[c] # 0 => c = d
    BY <1>2, <1>3 DEF OInv, OnePlace
  <2>2. \A l \in Loop, c \in Code : Holds(l)' => loop'[l].kem # pending'[c]
    BY <1>2, <1>3, <1>4 DEF OInv, OnePlace
  <2>3. \A l, k \in Loop : Holds(l)' /\ Holds(k)' /\ loop'[l].kem = loop'[k].kem => l = k
    BY <1>2, <1>4 DEF OInv, OnePlace
  <2>4. QED
    BY <2>1, <2>2, <2>3 DEF OnePlace
<1>6. Traced'
    BY <1>2 DEF OInv, Traced
<1>7. attempts + 1 \in Waiting'
    BY <1>2, <1>3, WaitingOfNext
<1>8. ASSUME NEW n \in Waiting' PROVE n \in Waiting \cup {attempts + 1}
  <2>1. n # 0
    BY <1>8, WaitingOfNext
  <2>2. CASE \E c \in Code : n = pending'[c]
    BY <1>3, <2>1, <2>2, WaitingOf
  <2>3. CASE \E l \in Loop : Holds(l)' /\ n = loop'[l].kem
    BY <1>2, <1>4, <2>1, <2>3, WaitingOf
  <2>4. QED
    BY <1>8, <2>2, <2>3, WaitingOfNext
<1>9. Accepted' = Accepted
    BY <1>2 DEF Accepted
<1>10. QED
    BY <1>2, <1>5, <1>6, <1>7, <1>8, <1>9 DEF OInv, Once!Draw

\* An inviter wraps the key for the keypair of the request it answers.
LEMMA InviterOnce ==
    ASSUME TInv, OInv, NEW r \in requests, Inviter(r)
    PROVE  OInv' /\ (Once!Accept \/ Once!Lose)
<1>1. UNCHANGED <<group, pending, loop, attempts, requests>>
    BY DEF Inviter, Accept, Reject, flash
<1>2. r.kem \in 1..attempts
    BY DEF OInv, Traced
<1>3. OInv' /\ Waiting' = Waiting
    BY <1>1 DEF OInv, OnePlace, Traced, Holds, Waiting
<1>4. CASE Accept(r)
  <2>1. replies' = replies \cup {[type |-> "accepted", code |-> r.code, kem |-> r.kem]}
    BY <1>4 DEF Accept
  <2>2. PICK m : m = [type |-> "accepted", code |-> r.code, kem |-> r.kem]
    OBVIOUS
  <2>3. m.type = "accepted" /\ m.kem = r.kem /\ replies' = replies \cup {m}
    BY <2>1, <2>2
  <2>4. \A n : n \in Accepted' <=> \E f \in replies' : f.type = "accepted" /\ n = f.kem
    BY DEF Accepted
  <2>5. \A n : n \in Accepted <=> \E f \in replies : f.type = "accepted" /\ n = f.kem
    BY DEF Accepted
  <2>6. Accepted' = Accepted \cup {r.kem}
    BY <2>3, <2>4, <2>5
  <2>7. QED
    BY <1>1, <1>2, <1>3, <2>6 DEF Once!Accept
<1>5. CASE Reject(r)
  <2>1. replies' = replies \cup {[type |-> "rejected", code |-> r.code, kem |-> r.kem]}
    BY <1>5 DEF Reject
  <2>2. Accepted' = Accepted
    BY <2>1 DEF Accepted
  <2>3. QED
    BY <1>1, <1>3, <2>2 DEF Once!Lose
<1>6. QED
    BY <1>4, <1>5 DEF Inviter

\* A loop that goes on with one it has, or lets go of it: the frame is an
\* acceptance, and no secret changes hands.
LEMMA PassOnce ==
    ASSUME TInv, OInv, NEW l \in Loop,
           \/ \E m \in replies : ReceiveRejected(l, m) \/ OnJoinAccepted(l, m)
           \/ FailInstall(l) \/ DeleteReceipt(l) \/ KeepSecret(l)
    PROVE  OInv' /\ Once!Lose
<1>1. /\ UNCHANGED <<group, attempts, replies, requests>>
      /\ pending \in [Code -> 0..attempts] /\ replies \subseteq Reply
    BY DEF ReceiveRejected, OnJoinAccepted, FailInstall, DeleteReceipt, KeepSecret, flash, network, TInv, TypeOK
<1>2. loop \in [Loop -> [pc : {"idle", "take", "install", "store", "keep"},
                         expected : Code \cup {None}, kem : 0..attempts, frame : SUBSET replies]]
    BY DEF TInv, TypeOK
<1>3. \A c \in Code : pending'[c] \in {pending[c], 0}
    BY <1>1 DEF ReceiveRejected, OnJoinAccepted, FailInstall, DeleteReceipt, KeepSecret, Reply
<1>4. /\ \A k \in Loop : k # l => loop'[k] = loop[k]
      /\ loop'[l].pc = "store" => loop[l].pc = "install" /\ loop'[l].kem = loop[l].kem
      /\ loop'[l].pc # "install"
      /\ loop'[l].pc # "idle" => \A m \in loop'[l].frame : m.type = "accepted"
      /\ loop'[l].pc = "store" => \E m \in loop'[l].frame : m.kem = loop'[l].kem
  <2>1. CASE \E m \in replies : ReceiveRejected(l, m)
    BY <1>2, <2>1 DEF ReceiveRejected, Take, LoopIdle
  <2>2. CASE \E m \in replies : OnJoinAccepted(l, m)
    BY <1>2, <2>2 DEF OnJoinAccepted, Take, LoopIdle
  <2>3. CASE FailInstall(l)
    BY <1>2, <2>3 DEF FailInstall, LoopIdle
  <2>4. CASE DeleteReceipt(l)
    <3>1. loop[l].pc = "install" /\ TheFrame(l).kem = loop[l].kem
      BY <2>4 DEF DeleteReceipt, Verifies
    <3>2. TheFrame(l) \in loop[l].frame
      BY <3>1 DEF TInv, TheFrame
    <3>3. \A m \in loop[l].frame : m.type = "accepted"
      BY <3>1 DEF OInv, Traced
    <3>4. /\ loop'[l].pc = "store" /\ loop'[l].kem = loop[l].kem /\ loop'[l].frame = loop[l].frame
          /\ \A k \in Loop : k # l => loop'[k] = loop[k]
      BY <1>2, <2>4 DEF DeleteReceipt
    <3>5. QED
      BY <3>1, <3>2, <3>3, <3>4
  <2>5. CASE KeepSecret(l)
    BY <1>2, <2>5 DEF KeepSecret, LoopIdle
  <2>6. QED
    BY <2>1, <2>2, <2>3, <2>4, <2>5
<1>5. \A k \in Loop : Holds(k)' => Holds(k) /\ loop'[k].kem = loop[k].kem
  <2>1. TAKE k \in Loop
  <2>2. Holds(k)' => loop'[k].pc \in {"install", "store"}
    BY DEF Holds
  <2>3. QED
    BY <1>4, <2>2 DEF Holds
<1>6. OnePlace' /\ Waiting' \subseteq Waiting
    BY <1>3, <1>5, FewerPlaces DEF OInv
<1>7. Traced'
    BY <1>1, <1>4 DEF OInv, Traced
<1>8. Accepted' = Accepted
    BY <1>1 DEF Accepted
<1>9. QED
    BY <1>1, <1>6, <1>7, <1>8 DEF OInv, Once!Lose

\* take_pending_kyber_secret: the secret leaves the map for the hands of the
\* loop, and the other loops find none.
LEMMA TakeOnce ==
    ASSUME TInv, OInv, NEW l \in Loop, TakeSecret(l)
    PROVE  OInv' /\ Once!Lose
<1>1. loop[l].pc = "take"
    BY DEF TakeSecret
<1>2. PICK a \in Code : a = TheFrame(l).code
    BY <1>1, FrameType DEF TInv
<1>3. /\ UNCHANGED <<group, attempts, replies, requests>>
      /\ pending \in [Code -> 0..attempts]
      /\ pending' = [pending EXCEPT ![a] = 0]
    BY <1>2 DEF TakeSecret, flash, network, TInv, TypeOK
<1>4. pending'[a] = 0 /\ \A c \in Code : c # a => pending'[c] = pending[c]
    BY <1>3
<1>5. loop \in [Loop -> [pc : {"idle", "take", "install", "store", "keep"},
                         expected : Code \cup {None}, kem : 0..attempts, frame : SUBSET replies]]
    BY DEF TInv, TypeOK
<1>6. Accepted' = Accepted
    BY <1>3 DEF Accepted
<1>7. \A k \in Loop : k # l => loop'[k] = loop[k]
    BY <1>5 DEF TakeSecret
<1>8. \A k \in Loop : k # l => (Holds(k)' <=> Holds(k))
    BY <1>7 DEF Holds
<1>9. CASE pending[a] = 0
  <2>1. loop'[l].pc = "idle"
    BY <1>2, <1>5, <1>9 DEF TakeSecret, LoopIdle
  <2>2. \A k \in Loop : Holds(k)' => Holds(k) /\ loop'[k].kem = loop[k].kem
    BY <1>7, <2>1 DEF Holds
  <2>3. OnePlace' /\ Waiting' \subseteq Waiting
    BY <1>4, <2>2, FewerPlaces DEF OInv
  <2>4. Traced'
    BY <1>3, <1>7, <2>1 DEF OInv, Traced
  <2>5. QED
    BY <1>3, <1>6, <2>3, <2>4 DEF OInv, Once!Lose
<1>10. CASE pending[a] # 0
  <2>1. loop'[l].pc = "install" /\ loop'[l].kem = pending[a] /\ loop'[l].frame = loop[l].frame
    BY <1>2, <1>5, <1>10 DEF TakeSecret
  <2>2. OnePlace'
    <3>1. \A c, d \in Code : pending'[c] = pending'[d] /\ pending'[c] # 0 => c = d
      BY <1>4 DEF OInv, OnePlace
    <3>2. \A k \in Loop, c \in Code : Holds(k) /\ k # l => loop[k].kem # pending'[c]
      <4>1. \A k \in Loop : Holds(k) => loop[k].kem # 0
        BY DEF TInv, TypeOK, Holds
      <4>2. QED
        BY <1>4, <4>1 DEF OInv, OnePlace
    <3>3. \A c \in Code : pending[a] # pending'[c]
      BY <1>4, <1>10 DEF OInv, OnePlace
    <3>4. \A k \in Loop, c \in Code : Holds(k)' => loop'[k].kem # pending'[c]
      BY <1>7, <1>8, <2>1, <3>2, <3>3
    <3>5. \A k, j \in Loop : Holds(k)' /\ Holds(j)' /\ loop'[k].kem = loop'[j].kem => k = j
      BY <1>7, <1>8, <2>1 DEF OInv, OnePlace
    <3>6. QED
      BY <3>1, <3>4, <3>5 DEF OnePlace
  <2>3. ASSUME NEW n \in Waiting' PROVE n \in Waiting
    <3>1. n # 0
      BY <2>3, WaitingOfNext
    <3>2. CASE \E c \in Code : n = pending'[c]
      BY <1>4, <3>1, <3>2, WaitingOf
    <3>3. CASE \E k \in Loop : Holds(k)' /\ n = loop'[k].kem
      BY <1>7, <1>8, <2>1, <3>1, <3>3, WaitingOf
    <3>4. QED
      BY <2>3, <3>2, <3>3, WaitingOfNext
  <2>4. Traced'
    BY <1>1, <1>3, <1>7, <2>1 DEF OInv, Traced
  <2>5. QED
    BY <1>3, <1>6, <2>2, <2>3, <2>4 DEF OInv, Once!Lose
<1>11. QED
    BY <1>9, <1>10

\* The group is stored with the keypair of the acceptance, and that keypair was
\* nowhere else.
LEMMA StoreOnce ==
    ASSUME TInv, OInv, NEW l \in Loop, StoreGroup(l)
    PROVE  OInv' /\ Once!Install
<1>1. /\ UNCHANGED <<pending, attempts, replies, requests>>
      /\ loop[l].pc = "store" /\ group' = loop[l].kem /\ loop[l].kem # 0
    BY DEF StoreGroup, network, TInv, TypeOK
<1>2. loop \in [Loop -> [pc : {"idle", "take", "install", "store", "keep"},
                         expected : Code \cup {None}, kem : 0..attempts, frame : SUBSET replies]]
    BY DEF TInv, TypeOK
<1>3. /\ loop'[l].pc = "keep" /\ loop'[l].frame = loop[l].frame
      /\ \A k \in Loop : k # l => loop'[k] = loop[k]
    BY <1>2 DEF StoreGroup
<1>4. /\ Holds(l) /\ ~Holds(l)'
      /\ \A k \in Loop : k # l => (Holds(k)' <=> Holds(k))
    BY <1>1, <1>3 DEF Holds
<1>5. OnePlace' /\ Waiting' \subseteq Waiting
    BY <1>1, <1>3, <1>4, FewerPlaces DEF OInv
<1>6. Traced'
    BY <1>1, <1>3 DEF OInv, Traced
<1>7. group' \in Waiting
    BY <1>1, <1>4, WaitingOf
<1>8. group' \in Accepted
  <2>1. PICK m \in loop[l].frame : m.kem = loop[l].kem
    BY <1>1 DEF OInv, Traced
  <2>2. m.type = "accepted" /\ m \in replies
    BY <1>1, <1>2, <2>1 DEF OInv, Traced
  <2>3. QED
    BY <1>1, <2>1, <2>2 DEF Accepted
<1>9. group' \notin Waiting'
  <2>1. \A c \in Code : pending'[c] # group'
    BY <1>1, <1>4 DEF OInv, OnePlace
  <2>2. \A k \in Loop : Holds(k)' => loop'[k].kem # group'
    BY <1>1, <1>3, <1>4 DEF OInv, OnePlace
  <2>3. QED
    BY <2>1, <2>2, WaitingOfNext
<1>10. ASSUME NEW n \in Waiting, n # group' PROVE n \in Waiting'
  <2>1. n # 0
    BY <1>10, WaitingOf
  <2>2. CASE \E c \in Code : n = pending[c]
    BY <1>1, <2>1, <2>2, WaitingOfNext
  <2>3. CASE \E k \in Loop : Holds(k) /\ n = loop[k].kem
    BY <1>1, <1>3, <1>4, <1>10, <2>1, <2>3, WaitingOfNext
  <2>4. QED
    BY <1>10, <2>2, <2>3, WaitingOf
<1>11. Waiting' = Waiting \ {group'}
    BY <1>5, <1>9, <1>10
<1>12. Accepted' = Accepted
    BY <1>1 DEF Accepted
<1>13. QED
    BY <1>1, <1>5, <1>6, <1>7, <1>8, <1>11, <1>12 DEF OInv, Once!Install

\* The mishaps only lose secrets.
LEMMA MishapOnce ==
    ASSUME TInv, OInv, Die \/ \E c \in Code : ExpirePending(c)
    PROVE  OInv' /\ Once!Lose
<1>1. UNCHANGED <<group, attempts, replies, requests>> /\ pending \in [Code -> 0..attempts]
    BY DEF Die, ExpirePending, flash, network, TInv, TypeOK
<1>2. \A c \in Code : pending'[c] \in {pending[c], 0}
    BY <1>1 DEF Die, ExpirePending
<1>3. \A l \in Loop : loop'[l] = loop[l] \/ loop'[l] = LoopIdle
    BY DEF Die, ExpirePending
<1>4. \A l \in Loop : Holds(l)' => Holds(l) /\ loop'[l].kem = loop[l].kem
    BY <1>3 DEF Holds, LoopIdle
<1>5. OnePlace' /\ Waiting' \subseteq Waiting
    BY <1>2, <1>4, FewerPlaces DEF OInv
<1>6. Traced'
    BY <1>1, <1>3 DEF OInv, Traced, LoopIdle
<1>7. Accepted' = Accepted
    BY <1>1 DEF Accepted
<1>8. QED
    BY <1>1, <1>5, <1>6, <1>7 DEF OInv, Once!Lose

\* Every step keeps the keypairs in one place and is a step of JoinOnce.
LEMMA StepOnce == TInv /\ OInv /\ [Next]_vars => OInv' /\ [Once!Next]_(Once!vars)
<1>1. SUFFICES ASSUME TInv, OInv, [Next]_vars PROVE OInv' /\ [Once!Next]_(Once!vars)
    OBVIOUS
<1>2. CASE \E t \in Thread, c \in Code : RecordAcceptance(t, c)
    BY <1>1, <1>2, AppOnce DEF Once!Next
<1>3. CASE \E t \in Thread : AppStep(t)
    BY <1>1, <1>3, AppOnce, StashOnce DEF AppStep, Once!Next
<1>4. CASE \E r \in requests : Inviter(r)
    BY <1>1, <1>4, InviterOnce DEF Once!Next
<1>5. CASE \E l \in Loop : LoopStep(l)
    BY <1>1, <1>5, PassOnce, TakeOnce, StoreOnce DEF LoopStep, Once!Next
<1>6. CASE Die \/ \E c \in Code : ExpirePending(c)
    BY <1>1, <1>6, MishapOnce DEF Once!Next
<1>7. CASE UNCHANGED vars
  <2>1. UNCHANGED <<group, pending, loop, attempts, replies, requests>>
    BY <1>7 DEF vars
  <2>2. OInv'
    BY <1>1, <2>1 DEF OInv, OnePlace, Traced, Holds
  <2>3. UNCHANGED Once!vars
    BY <2>1 DEF Once!vars, Waiting, Accepted
  <2>4. QED
    BY <2>2, <2>3
<1>8. QED
    BY <1>1, <1>2, <1>3, <1>4, <1>5, <1>6, <1>7 DEF Next

\* The joiner implements JoinOnce: however many event loops get a copy of an
\* acceptance, and wherever the process dies, the group is installed only with
\* the keypair the acceptance was wrapped for, and never twice with the same.
THEOREM AcceptancesOnce == Spec => InstalledOnce
<1>1. Init => Once!Init
  <2>1. SUFFICES ASSUME Init PROVE Once!Init
    OBVIOUS
  <2>2. Waiting = {} /\ Accepted = {}
    BY <2>1 DEF Init, Waiting, Accepted, LoopIdle
  <2>3. QED
    BY <2>1, <2>2 DEF Init, Once!Init
<1>2. QED
    BY <1>1, InitTInv, StepTInv, InitOInv, StepOnce, PTL DEF Spec, InstalledOnce, Once!Spec
================================================================================
