----------------------------- MODULE Outbox_proofs -----------------------------
(***************************************************************************)
(* Proofs about the outbound messages: the types, the retry budget, that   *)
(* an acknowledged row is never picked up again and that no                *)
(* acknowledgement is lost, for any messages, peers, budget and delays.    *)
(*                                                                         *)
(* What the retry loop remembers of a row is what the row still says,      *)
(* because the loop is the only writer of the attempt column of a saved    *)
(* row; that makes the write of a stale attempt + 1 the right one.         *)
(***************************************************************************)
EXTENDS Outbox, FiniteSetTheorems, TLAPS

\* A message that was not sent yet has no row and was never handed over.
Unsent ==
    \A m \in Msg : sending[m] = "idle" => row[m] = NoRow /\ published[m] = 0

\* An acknowledged row has no bytes left to send again.
AckedIsRetired == \A m \in Msg : row[m].ackers # {} => ~row[m].wire

\* What the retry loop holds of a row agrees with the row, is within the budget,
\* and no message is in its hands twice.
LoopFresh ==
    /\ \A b \in batch \cup current :
          /\ b.attempt = row[b.msg].attempt
          /\ b.attempt < MaxAttempts
          /\ sending[b.msg] # "idle"
    /\ \A b \in batch, c \in current : b.msg # c.msg
    /\ \A c, d \in current : c = d

\* The first send of m, and the one the retry loop has not counted yet
FirstSend(m) == IF sending[m] \in {"idle", "saved"} THEN 0 ELSE 1
Uncounted(m) == IF \E c \in current : c.msg = m THEN 1 ELSE 0

\* Every copy of m is the first send, a counted attempt, the attempt being
\* worked on, or one whose count died with the process.
CopiesCounted ==
    \A m \in Msg :
        published[m] <= FirstSend(m) + row[m].attempt + kills + Uncounted(m)

OInv == TypeOK /\ Unsent /\ AckedIsRetired /\ LoopFresh /\ CopiesCounted

--------------------------------------------------------------------------------

\* retryBackoffMs is a delay.
LEMMA BackoffType == ASSUME NEW n \in Nat PROVE Backoff(n) \in Nat
BY DEF Backoff

\* The row of a message that was never sent
LEMMA NoRowType == NoRow \in Row /\ NoRow.ackers = {} /\ NoRow.attempt = 0
BY AttemptsAssumption DEF NoRow, Row, Never

\* A change of one field keeps a row a row.
LEMMA RowField ==
    ASSUME NEW r \in Row
    PROVE  /\ \A s \in {"None", "SENDING", "SENT", "FAILED", "DELIVERED"} :
                 [r EXCEPT !.status = s] \in Row
           /\ \A n \in Nat \cup {Never} : [r EXCEPT !.left = n] \in Row
           /\ \A n \in 0..MaxAttempts, k \in Nat \cup {Never} :
                 [r EXCEPT !.attempt = n, !.left = k] \in Row
           /\ \A p \in Peer : RecordAck(r, p) \in Row
BY DEF Row, RecordAck

\* The loop works on at most one row at a time.
LEMMA AtMostOne ==
    ASSUME current' = {} \/ \E c : current' = {c}
    PROVE  Cardinality(current') <= 1
<1>1. CASE current' = {}
    BY <1>1, FS_EmptySet
<1>2. CASE \E c : current' = {c}
    BY <1>2, FS_Singleton
<1>3. QED
    BY <1>1, <1>2

\* The count keeps up when no step adds more copies than it accounts for.
LEMMA CountedStep ==
    ASSUME OInv, TypeOK',
           \A n \in Msg : published'[n] + FirstSend(n) + row[n].attempt + kills + Uncounted(n)
               <= published[n] + FirstSend(n)' + row'[n].attempt + kills' + Uncounted(n)'
    PROVE  CopiesCounted'
<1>1. SUFFICES ASSUME NEW n \in Msg
               PROVE  published'[n] <= FirstSend(n)' + row'[n].attempt + kills' + Uncounted(n)'
    BY DEF CopiesCounted
<1>2. /\ row[n].attempt \in Nat /\ kills \in Nat /\ published[n] \in Nat
      /\ row'[n].attempt \in Nat /\ kills' \in Nat /\ published'[n] \in Nat
    BY AttemptsAssumption DEF OInv, TypeOK, Row
<1>3. FirstSend(n) \in Nat /\ FirstSend(n)' \in Nat /\ Uncounted(n) \in Nat /\ Uncounted(n)' \in Nat
    BY DEF FirstSend, Uncounted
<1>4. published[n] <= FirstSend(n) + row[n].attempt + kills + Uncounted(n)
    BY DEF OInv, CopiesCounted
<1>5. QED
    BY <1>2, <1>3, <1>4

\* The initial states
LEMMA InitOInv == Init => OInv
<1>1. SUFFICES ASSUME Init PROVE OInv
    OBVIOUS
<1>2. TypeOK
  <2>1. Cardinality(current) <= 1
    BY <1>1, FS_EmptySet DEF Init
  <2>2. QED
    BY <1>1, <2>1, NoRowType, TimeAssumption DEF Init, TypeOK
<1>3. Unsent /\ AckedIsRetired
    BY <1>1, NoRowType DEF Init, Unsent, AckedIsRetired
<1>4. LoopFresh
    BY <1>1 DEF Init, LoopFresh
<1>5. CopiesCounted
    BY <1>1, NoRowType DEF Init, CopiesCounted, FirstSend, Uncounted
<1>6. QED
    BY <1>2, <1>3, <1>4, <1>5 DEF OInv

\* encryptMessage fails, or the row is saved.
LEMMA NewRowOInv ==
    ASSUME OInv, NEW m \in Msg, EncryptFails(m) \/ SaveMessage(m)
    PROVE  OInv'
<1> DEFINE r == IF EncryptFails(m) THEN [NoRow EXCEPT !.status = "FAILED"]
                ELSE [status |-> "SENDING", wire |-> TRUE, attempt |-> 0,
                      left |-> InitialDelay, ackers |-> {}]
           s == IF EncryptFails(m) THEN "done" ELSE "saved"
<1>1. r \in Row /\ r.attempt = 0 /\ r.ackers = {}
  <2>1. [NoRow EXCEPT !.status = "FAILED"] \in Row
    BY NoRowType, RowField
  <2>2. /\ [NoRow EXCEPT !.status = "FAILED"].attempt = 0
        /\ [NoRow EXCEPT !.status = "FAILED"].ackers = {}
    BY DEF NoRow
  <2>3. QED
    BY <2>1, <2>2, AttemptsAssumption, TimeAssumption DEF Row
<1>2. row' = [row EXCEPT ![m] = r] /\ sending' = [sending EXCEPT ![m] = s]
  <2>1. CASE EncryptFails(m)
    BY <2>1 DEF EncryptFails
  <2>2. CASE ~EncryptFails(m)
    BY <2>2 DEF SaveMessage
  <2>3. QED
    BY <2>1, <2>2
<1>3. s \in {"saved", "done"}
    OBVIOUS
<1> HIDE DEF r, s
<1>4. /\ sending[m] = "idle"
      /\ UNCHANGED <<batch, current, age, air, acks, published, kills>>
    BY DEF EncryptFails, SaveMessage
<1>5. TypeOK'
    BY <1>1, <1>2, <1>3, <1>4 DEF OInv, TypeOK
<1>6. Unsent' /\ AckedIsRetired'
    BY <1>1, <1>2, <1>3, <1>4 DEF OInv, TypeOK, Unsent, AckedIsRetired
<1>7. LoopFresh'
    BY <1>1, <1>2, <1>3, <1>4 DEF OInv, TypeOK, LoopFresh, Snapshot
<1>8. CopiesCounted'
  <2>1. SUFFICES ASSUME NEW n \in Msg
                 PROVE  published'[n] <= FirstSend(n)' + row'[n].attempt + kills' + Uncounted(n)'
    BY DEF CopiesCounted
  <2>2. CASE n = m
    BY <1>1, <1>2, <1>3, <1>4, <2>2, NoRowType DEF OInv, TypeOK, Unsent, FirstSend, Uncounted
  <2>3. CASE n # m
    BY <1>1, <1>2, <1>3, <1>4, <2>3 DEF OInv, TypeOK, CopiesCounted, FirstSend, Uncounted
  <2>4. QED
    BY <2>2, <2>3
<1>9. QED
    BY <1>5, <1>6, <1>7, <1>8 DEF OInv

\* A copy is handed to the network, or refused.
LEMMA HandOverType ==
    ASSUME TypeOK, NEW m \in Msg, NEW ok \in BOOLEAN, HandOver(m, ok)
    PROVE  /\ air' \in [Msg -> SUBSET Peer]
           /\ published' \in [Msg -> Nat]
           /\ \A n \in Msg : n # m => published'[n] = published[n]
           /\ published'[m] <= published[m] + 1
BY DEF HandOver, TypeOK

\* The first send of a saved message
LEMMA SendOInv ==
    ASSUME OInv, NEW m \in Msg, SendP2PMessage(m)
    PROVE  OInv'
<1> PICK s \in {"ok", "failed"} : sending' = [sending EXCEPT ![m] = s]
    BY DEF SendP2PMessage
<1>1. /\ sending[m] = "saved"
      /\ UNCHANGED <<row, batch, current, age, acks, kills>>
    BY DEF SendP2PMessage
<1>2. /\ air' \in [Msg -> SUBSET Peer]
      /\ published' \in [Msg -> Nat]
      /\ \A n \in Msg : n # m => published'[n] = published[n]
      /\ published'[m] <= published[m] + 1
  <2>1. PICK ok \in BOOLEAN : HandOver(m, ok)
    BY DEF SendP2PMessage
  <2>2. QED
    BY <2>1, HandOverType DEF OInv
<1>3. TypeOK'
    BY <1>1, <1>2 DEF OInv, TypeOK
<1>4. Unsent' /\ AckedIsRetired'
    BY <1>1, <1>2 DEF OInv, TypeOK, Unsent, AckedIsRetired
<1>5. LoopFresh'
    BY <1>1 DEF OInv, TypeOK, LoopFresh, Snapshot
<1>6. CopiesCounted'
  <2>1. SUFFICES ASSUME NEW n \in Msg
                 PROVE  published'[n] + FirstSend(n) <= published[n] + FirstSend(n)'
    <3>1. \A k \in Msg : Uncounted(k)' = Uncounted(k) /\ Uncounted(k) \in Nat
      BY <1>1 DEF Uncounted
    <3>2. \A k \in Msg : /\ row'[k].attempt = row[k].attempt /\ row[k].attempt \in Nat
                        /\ kills' = kills /\ kills \in Nat
                        /\ published[k] \in Nat /\ published'[k] \in Nat
      <4>1. \A k \in Msg : row[k].attempt \in Nat
        BY AttemptsAssumption DEF OInv, TypeOK, Row
      <4>2. \A k \in Msg : published[k] \in Nat /\ published'[k] \in Nat
        BY <1>3 DEF OInv, TypeOK
      <4>3. kills \in Nat
        BY TimeAssumption DEF OInv, TypeOK
      <4>4. QED
        BY <1>1, <4>1, <4>2, <4>3
    <3>3. \A k \in Msg : FirstSend(k) \in Nat /\ FirstSend(k)' \in Nat
      BY DEF FirstSend
    <3>4. QED
      BY <1>3, <3>1, <3>2, <3>3, CountedStep
  <2>2. CASE n = m
    <3>1. FirstSend(n) = 0 /\ FirstSend(n)' = 1
      BY <1>1, <2>2 DEF FirstSend, OInv, TypeOK
    <3>2. published'[n] <= published[n] + 1
      BY <1>2, <2>2
    <3>3. published[n] \in Nat /\ published'[n] \in Nat
      BY <1>3 DEF OInv, TypeOK
    <3>4. QED
      BY <3>1, <3>2, <3>3
  <2>3. CASE n # m
    <3>1. FirstSend(n)' = FirstSend(n) /\ FirstSend(n) \in Nat
      BY <1>1, <2>3 DEF FirstSend, OInv, TypeOK
    <3>2. QED
      BY <1>2, <2>3, <3>1 DEF OInv, TypeOK
  <2>4. QED
    BY <2>2, <2>3
<1>7. QED
    BY <1>3, <1>4, <1>5, <1>6 DEF OInv

\* A step that publishes nothing, keeps the hands of the retry loop and the
\* attempts, and writes only rows of messages that were sent
LEMMA QuietOInv ==
    ASSUME OInv, TypeOK',
           UNCHANGED <<batch, current, published, kills>>,
           \A m \in Msg : /\ row'[m].attempt = row[m].attempt
                          /\ sending[m] = "idle" <=> sending'[m] = "idle"
                          /\ sending[m] \in {"idle", "saved"} \/ sending'[m] \notin {"idle", "saved"}
                          /\ sending[m] = "idle" => row'[m] = row[m],
           AckedIsRetired'
    PROVE  OInv'
<1>1. Unsent'
    BY DEF OInv, Unsent
<1>2. LoopFresh'
    BY DEF OInv, TypeOK, LoopFresh, Snapshot
<1>3. \A m \in Msg : Uncounted(m)' = Uncounted(m) /\ Uncounted(m) \in Nat
    BY DEF Uncounted
<1>4. \A m \in Msg : FirstSend(m) <= FirstSend(m)' /\ FirstSend(m) \in Nat /\ FirstSend(m)' \in Nat
    BY DEF FirstSend
<1>5. \A m \in Msg : row[m].attempt \in Nat /\ published[m] \in Nat /\ kills \in Nat
    BY AttemptsAssumption, TimeAssumption DEF OInv, TypeOK, Row
<1>6. CopiesCounted'
    BY <1>3, <1>4, <1>5, CountedStep
<1>7. QED
    BY <1>1, <1>2, <1>6 DEF OInv

\* The status sendMessage writes last, or a coroutine that is cancelled
LEMMA UpdateOInv ==
    ASSUME OInv, NEW m \in Msg, UpdateMessageStatus(m) \/ LeaveChat(m)
    PROVE  OInv'
<1>1. /\ sending[m] \notin {"idle"}
      /\ sending' = [sending EXCEPT ![m] = "done"]
      /\ UNCHANGED <<batch, current, age, air, acks, published, kills>>
    BY DEF UpdateMessageStatus, LeaveChat
<1>2. PICK s \in {"None", "SENDING", "SENT", "FAILED", "DELIVERED"} :
          row' = [row EXCEPT ![m] = [row[m] EXCEPT !.status = s]]
  <2>1. row[m] = [row[m] EXCEPT !.status = row[m].status]
        /\ row[m].status \in {"None", "SENDING", "SENT", "FAILED", "DELIVERED"}
    BY DEF OInv, TypeOK, Row
  <2>2. row = [row EXCEPT ![m] = row[m]]
    BY DEF OInv, TypeOK
  <2>3. CASE UpdateMessageStatus(m)
    BY <2>3 DEF UpdateMessageStatus
  <2>4. CASE LeaveChat(m)
    BY <2>1, <2>2, <2>4 DEF LeaveChat
  <2>5. QED
    BY <2>3, <2>4
<1>3. /\ row' \in [Msg -> Row]
      /\ \A n \in Msg : /\ row'[n].attempt = row[n].attempt /\ row'[n].ackers = row[n].ackers
                        /\ row'[n].wire = row[n].wire
                        /\ n # m => row'[n] = row[n]
    BY <1>2 DEF OInv, TypeOK, Row
<1>4. TypeOK'
    BY <1>1, <1>3 DEF OInv, TypeOK
<1>5. AckedIsRetired'
    BY <1>3 DEF OInv, AckedIsRetired
<1>6. \A n \in Msg : /\ sending[n] = "idle" <=> sending'[n] = "idle"
                     /\ sending[n] \in {"idle", "saved"} \/ sending'[n] \notin {"idle", "saved"}
    BY <1>1 DEF OInv, TypeOK
<1>7. QED
    BY <1>1, <1>3, <1>4, <1>5, <1>6, QuietOInv

\* A peer receives a copy, and an acknowledgement reaches its row.
LEMMA AckOInv ==
    ASSUME OInv, NEW m \in Msg, NEW p \in Peer, PeerReceives(m, p) \/ ApplyAck(m, p)
    PROVE  OInv'
<1>1. CASE PeerReceives(m, p)
  <2>1. TypeOK'
    BY <1>1 DEF PeerReceives, OInv, TypeOK
  <2>2. AckedIsRetired'
    BY <1>1 DEF PeerReceives, OInv, AckedIsRetired
  <2>3. QED
    BY <1>1, <2>1, <2>2, QuietOInv DEF PeerReceives
<1>2. CASE ApplyAck(m, p)
  <2>1. RecordAck(row[m], p) \in Row
    BY RowField DEF OInv, TypeOK
  <2>2. /\ row' = [row EXCEPT ![m] = RecordAck(row[m], p)]
        /\ UNCHANGED <<sending, batch, current, age, air, acks, published, kills>>
    BY <1>2 DEF ApplyAck
  <2>3. TypeOK'
    BY <2>1, <2>2 DEF OInv, TypeOK
  <2>4. \A n \in Msg : n # m => row'[n] = row[n]
    BY <2>2 DEF OInv, TypeOK
  <2>5. row'[m].attempt = row[m].attempt /\ ~row'[m].wire
    BY <2>2 DEF OInv, TypeOK, Row, RecordAck
  <2>6. AckedIsRetired'
    BY <2>4, <2>5 DEF OInv, AckedIsRetired
  <2>7. sending[m] # "idle"
    BY <1>2 DEF ApplyAck, OInv, Unsent, NoRow
  <2>8. QED
    BY <2>2, <2>3, <2>4, <2>5, <2>6, <2>7, QuietOInv
<1>3. QED
    BY <1>1, <1>2

\* Time passes.
LEMMA TickOInv == ASSUME OInv, Tick PROVE OInv'
<1>1. \A m \in Msg : /\ row'[m] \in Row
                     /\ row'[m].attempt = row[m].attempt /\ row'[m].ackers = row[m].ackers
                     /\ row'[m].wire = row[m].wire
                     /\ sending[m] = "idle" => row'[m] = row[m]
  <2>1. SUFFICES ASSUME NEW m \in Msg
                 PROVE  /\ row'[m] \in Row
                        /\ row'[m].attempt = row[m].attempt /\ row'[m].ackers = row[m].ackers
                        /\ row'[m].wire = row[m].wire
                        /\ sending[m] = "idle" => row'[m] = row[m]
    OBVIOUS
  <2>2. row[m] \in Row
    BY DEF OInv, TypeOK
  <2>3. CASE row[m].left > 0
    <3>1. row'[m] = [row[m] EXCEPT !.left = row[m].left - 1]
      BY <2>3 DEF Tick
    <3>2. row[m].left - 1 \in Nat
      BY <2>2, <2>3 DEF Row, Never
    <3>3. sending[m] # "idle"
      <4>1. NoRow.left = -1
        BY DEF NoRow, Never
      <4>2. sending[m] = "idle" => row[m] = NoRow
        BY DEF OInv, Unsent
      <4>3. QED
        BY <2>3, <4>1, <4>2
    <3>4. row'[m] \in Row
      BY <2>2, <3>1, <3>2 DEF Row
    <3>5. QED
      BY <2>2, <3>1, <3>3, <3>4 DEF Row
  <2>4. CASE ~(row[m].left > 0)
    BY <2>2, <2>4 DEF Tick
  <2>5. QED
    BY <2>3, <2>4
<1>2. row' \in [Msg -> Row]
    BY <1>1 DEF Tick
<1>3. age' \in [Msg -> 0..(MaxAge + 1)]
    BY TimeAssumption DEF Tick, OInv, TypeOK
<1>4. TypeOK'
    BY <1>2, <1>3 DEF Tick, OInv, TypeOK
<1>5. AckedIsRetired'
    BY <1>1 DEF OInv, AckedIsRetired
<1>6. QED
    BY <1>1, <1>4, <1>5, QuietOInv DEF Tick

\* The query of a tick
LEMMA ReadDueOInv == ASSUME OInv, ReadDue PROVE OInv'
<1>1. /\ batch' = {[msg |-> m, attempt |-> row[m].attempt] : m \in Due}
      /\ current = {}
      /\ UNCHANGED <<row, sending, current, age, air, acks, published, kills>>
    BY DEF ReadDue
<1>2. \A b \in batch' : /\ b \in Snapshot /\ b.attempt = row[b.msg].attempt
                        /\ b.attempt < MaxAttempts
                        /\ row[b.msg].wire
  <2>1. SUFFICES ASSUME NEW m \in Due
                 PROVE  /\ [msg |-> m, attempt |-> row[m].attempt] \in Snapshot
                        /\ row[m].attempt < MaxAttempts /\ row[m].wire
    BY <1>1
  <2>2. m \in Msg /\ row[m].attempt < MaxAttempts /\ row[m].wire
    BY DEF Due
  <2>3. row[m].attempt \in 0..MaxAttempts
    BY <2>2 DEF OInv, TypeOK, Row
  <2>4. QED
    BY <2>2, <2>3 DEF Snapshot
<1>3. TypeOK'
    BY <1>1, <1>2 DEF OInv, TypeOK
<1>4. ~NoRow.wire
    BY DEF NoRow
<1>5. LoopFresh'
  <2>1. \A b \in batch' : b.msg \in Msg /\ sending[b.msg] # "idle"
    BY <1>2, <1>4 DEF OInv, Unsent, Snapshot
  <2>2. QED
    BY <1>1, <1>2, <2>1 DEF LoopFresh
<1>6. Unsent' /\ AckedIsRetired'
    BY <1>1 DEF OInv, Unsent, AckedIsRetired
<1>7. CopiesCounted'
    BY <1>1 DEF OInv, CopiesCounted, FirstSend, Uncounted
<1>8. QED
    BY <1>3, <1>5, <1>6, <1>7 DEF OInv

\* A row of the batch is handed over again, counted or not.
LEMMA RepublishOInv == ASSUME OInv, Republish PROVE OInv'
<1>1. PICK b \in batch, ok \in BOOLEAN :
          /\ HandOver(b.msg, ok)
          /\ batch' = batch \ {b}
          /\ current' = {[msg |-> b.msg, attempt |-> b.attempt, ok |-> ok]}
    BY DEF Republish
<1>2. current = {} /\ UNCHANGED <<row, sending, age, acks, kills>>
    BY DEF Republish
<1> DEFINE c == [msg |-> b.msg, attempt |-> b.attempt, ok |-> ok]
<1>3. /\ c.msg = b.msg /\ c.attempt = b.attempt
      /\ b \in Snapshot /\ b.msg \in Msg
      /\ c \in [msg : Msg, attempt : 0..MaxAttempts, ok : BOOLEAN]
      /\ current' = {c} /\ batch' = batch \ {b}
    BY <1>1 DEF OInv, TypeOK, Snapshot
<1> HIDE DEF c
<1>4. /\ air' \in [Msg -> SUBSET Peer]
      /\ published' \in [Msg -> Nat]
      /\ \A n \in Msg : n # b.msg => published'[n] = published[n]
      /\ published'[b.msg] <= published[b.msg] + 1
    BY <1>1, <1>3, HandOverType DEF OInv
<1>5. Cardinality(current') <= 1
    BY <1>3, AtMostOne
<1>6. TypeOK'
    BY <1>2, <1>3, <1>4, <1>5 DEF OInv, TypeOK
<1>7. AckedIsRetired'
    BY <1>2 DEF OInv, AckedIsRetired
<1>8. sending[b.msg] # "idle"
    BY DEF OInv, LoopFresh
<1>9. Unsent'
    BY <1>2, <1>3, <1>4, <1>8 DEF OInv, Unsent
<1>10. LoopFresh'
  <2>1. \A a \in batch : a.msg = b.msg => a = b
    BY <1>3 DEF OInv, TypeOK, LoopFresh, Snapshot
  <2>2. QED
    BY <1>2, <1>3, <2>1 DEF OInv, LoopFresh
<1>11. CopiesCounted'
  <2>1. \A n \in Msg : /\ Uncounted(n) = 0
                       /\ Uncounted(n)' = IF n = b.msg THEN 1 ELSE 0
    BY <1>2, <1>3 DEF Uncounted
  <2>2. \A n \in Msg : FirstSend(n)' = FirstSend(n) /\ FirstSend(n) \in Nat
    BY <1>2 DEF FirstSend
  <2>3. \A n \in Msg : row[n].attempt \in Nat
    BY AttemptsAssumption DEF OInv, TypeOK, Row
  <2>4. \A n \in Msg : published[n] \in Nat /\ published'[n] \in Nat
    BY <1>4 DEF OInv, TypeOK
  <2>5. kills \in Nat
    BY TimeAssumption DEF OInv, TypeOK
  <2>6. \A n \in Msg : published'[n] + Uncounted(n) <= published[n] + Uncounted(n)'
    BY <1>3, <1>4, <2>1, <2>4
  <2>7. \A n \in Msg : Uncounted(n) \in Nat /\ Uncounted(n)' \in Nat
    BY <2>1
  <2>8. QED
    BY <1>2, <1>6, <2>2, <2>3, <2>4, <2>5, <2>6, <2>7, CountedStep
<1>12. QED
    BY <1>6, <1>7, <1>9, <1>10, <1>11 DEF OInv

\* The attempt is counted and the next one scheduled.
LEMMA ScheduleOInv == ASSUME OInv, ScheduleNextRetry PROVE OInv'
<1>1. PICK c \in current : Reschedule(c)
    BY DEF ScheduleNextRetry
<1>2. current' = {} /\ UNCHANGED <<sending, batch, age, air, acks, published, kills>>
    BY DEF ScheduleNextRetry
<1> DEFINE k == IF ~c.ok \/ c.attempt + 1 < MaxAttempts THEN Backoff(c.attempt + 1) ELSE Never
<1>3. /\ c.msg \in Msg /\ c.attempt \in Nat /\ c.attempt < MaxAttempts
      /\ c.attempt + 1 \in 0..MaxAttempts
      /\ c.attempt = row[c.msg].attempt /\ sending[c.msg] # "idle"
    BY AttemptsAssumption DEF OInv, TypeOK, LoopFresh
<1>4. k \in Nat \cup {Never}
    BY <1>3, BackoffType
<1>5. row' = [row EXCEPT ![c.msg] = [row[c.msg] EXCEPT !.attempt = c.attempt + 1, !.left = k]]
    BY <1>1, <1>3 DEF Reschedule, OInv, TypeOK, Row
<1> HIDE DEF k
<1>6. /\ row' \in [Msg -> Row]
      /\ \A n \in Msg : n # c.msg => row'[n] = row[n]
      /\ row'[c.msg].attempt = row[c.msg].attempt + 1
      /\ row'[c.msg].ackers = row[c.msg].ackers /\ row'[c.msg].wire = row[c.msg].wire
  <2>1. [row[c.msg] EXCEPT !.attempt = c.attempt + 1, !.left = k] \in Row
    BY <1>3, <1>4, RowField DEF OInv, TypeOK
  <2>2. QED
    BY <1>3, <1>5, <2>1 DEF OInv, TypeOK, Row
<1>7. TypeOK'
    BY <1>2, <1>6, AtMostOne DEF OInv, TypeOK
<1>8. AckedIsRetired' /\ Unsent'
    BY <1>2, <1>3, <1>6 DEF OInv, AckedIsRetired, Unsent
<1>9. LoopFresh'
    BY <1>2, <1>3, <1>6 DEF OInv, TypeOK, LoopFresh, Snapshot
<1>10. CopiesCounted'
  <2>1. \A n \in Msg : /\ Uncounted(n)' = 0
                       /\ Uncounted(n) = IF n = c.msg THEN 1 ELSE 0
    BY <1>2 DEF Uncounted, OInv, LoopFresh
  <2>2. \A n \in Msg : FirstSend(n)' = FirstSend(n) /\ FirstSend(n) \in Nat
    BY <1>2 DEF FirstSend
  <2>3. \A n \in Msg : row[n].attempt \in Nat
    BY AttemptsAssumption DEF OInv, TypeOK, Row
  <2>4. \A n \in Msg : published'[n] = published[n] /\ published[n] \in Nat
    BY <1>2 DEF OInv, TypeOK
  <2>5. kills \in Nat
    BY TimeAssumption DEF OInv, TypeOK
  <2>6. \A n \in Msg : row[n].attempt + Uncounted(n) = row'[n].attempt + Uncounted(n)'
    BY <1>3, <1>6, <2>1, <2>3
  <2>7. \A n \in Msg : Uncounted(n) \in Nat /\ Uncounted(n)' \in Nat /\ row'[n].attempt \in Nat
    BY <1>6, <2>1, <2>3
  <2>8. QED
    BY <1>2, <1>7, <2>2, <2>3, <2>4, <2>5, <2>6, <2>7, CountedStep
<1>11. QED
    BY <1>7, <1>8, <1>9, <1>10 DEF OInv

\* The process dies: what was in the hands of the loop is forgotten.
LEMMA KillOInv == ASSUME OInv, Kill PROVE OInv'
<1>1. /\ kills < MaxKills /\ kills' = kills + 1
      /\ sending' = [m \in Msg |-> IF sending[m] = "idle" THEN "idle" ELSE "done"]
      /\ batch' = {} /\ current' = {}
      /\ UNCHANGED <<row, age, air, acks, published>>
    BY DEF Kill
<1>2. TypeOK'
    BY <1>1, AtMostOne, TimeAssumption DEF OInv, TypeOK
<1>3. Unsent' /\ AckedIsRetired' /\ LoopFresh'
    BY <1>1 DEF OInv, Unsent, AckedIsRetired, LoopFresh
<1>4. CopiesCounted'
  <2>1. \A n \in Msg : Uncounted(n)' = 0 /\ Uncounted(n) \in 0..1
    BY <1>1 DEF Uncounted
  <2>2. \A n \in Msg : FirstSend(n) <= FirstSend(n)' /\ FirstSend(n) \in Nat /\ FirstSend(n)' \in Nat
    BY <1>1 DEF FirstSend
  <2>3. \A n \in Msg : row[n].attempt \in Nat
    BY AttemptsAssumption DEF OInv, TypeOK, Row
  <2>4. \A n \in Msg : published[n] \in Nat
    BY DEF OInv, TypeOK
  <2>5. kills \in Nat
    BY TimeAssumption DEF OInv, TypeOK
  <2>6. QED
    BY <1>1, <1>2, <2>1, <2>2, <2>3, <2>4, <2>5, CountedStep
<1>5. QED
    BY <1>2, <1>3, <1>4 DEF OInv

\* Every step keeps the invariant.
LEMMA StepOInv == OInv /\ [Next]_vars => OInv'
<1>1. SUFFICES ASSUME OInv, [Next]_vars PROVE OInv'
    OBVIOUS
<1>2. CASE UNCHANGED vars
    BY <1>1, <1>2 DEF vars, OInv, TypeOK, Unsent, AckedIsRetired, LoopFresh, CopiesCounted,
                      FirstSend, Uncounted
<1>3. CASE \E m \in Msg : \/ EncryptFails(m) \/ SaveMessage(m) \/ SendP2PMessage(m)
                          \/ UpdateMessageStatus(m) \/ LeaveChat(m)
                          \/ \E p \in Peer : PeerReceives(m, p) \/ ApplyAck(m, p)
    BY <1>1, <1>3, NewRowOInv, SendOInv, UpdateOInv, AckOInv
<1>4. CASE RetryLoop
    BY <1>1, <1>4, ReadDueOInv, RepublishOInv, ScheduleOInv DEF RetryLoop
<1>5. CASE Tick \/ Kill
    BY <1>1, <1>5, TickOInv, KillOInv
<1>6. QED
    BY <1>1, <1>2, <1>3, <1>4, <1>5 DEF Next

LEMMA AlwaysOInv == Spec => []OInv
BY InitOInv, StepOInv, PTL DEF Spec

--------------------------------------------------------------------------------

\* The rows, the hands of the retry loop and the network have their types; the
\* loop works on at most one row at a time.
THEOREM TypeCorrect == Spec => []TypeOK
<1>1. OInv => TypeOK
    BY DEF OInv
<1>2. QED
    BY <1>1, AlwaysOInv, PTL

\* However sends, acknowledgements, retries and deaths of the process
\* interleave, a message goes out at most once when sent, MaxAttempts times
\* after that and once more for every time the process died.
THEOREM BudgetKept == Spec => []RetryBudget
<1>1. OInv => RetryBudget
  <2>1. SUFFICES ASSUME OInv, NEW m \in Msg
                 PROVE  published[m] <= 1 + MaxAttempts + kills
    BY DEF RetryBudget
  <2>2. published[m] <= FirstSend(m) + row[m].attempt + kills + Uncounted(m)
    BY <2>1 DEF OInv, CopiesCounted
  <2>3. /\ FirstSend(m) \in 0..1 /\ Uncounted(m) \in 0..1
    BY DEF FirstSend, Uncounted
  <2>4. row[m].attempt \in 0..MaxAttempts /\ kills \in Nat /\ published[m] \in Nat
    BY <2>1, AttemptsAssumption, TimeAssumption DEF OInv, TypeOK, Row
  <2>5. Uncounted(m) = 1 => row[m].attempt < MaxAttempts
    BY <2>1 DEF OInv, LoopFresh, Uncounted
  <2>6. QED
    BY <2>2, <2>3, <2>4, <2>5, AttemptsAssumption
<1>2. QED
    BY <1>1, AlwaysOInv, PTL

\* A tick never picks up a row a peer has acknowledged: the acknowledgement
\* took its bytes away in the same transaction, and nothing puts them back.
THEOREM AckedNotRetried == Spec => NoRetryOfAcked
<1>1. OInv /\ [Next]_vars => [\A b \in batch' \ batch : row[b.msg].ackers = {}]_vars
  <2>1. SUFFICES ASSUME OInv, Next, NEW b \in batch' \ batch
                 PROVE  row[b.msg].ackers = {}
    BY DEF vars
  <2>2. ReadDue
    BY <2>1 DEF Next, EncryptFails, SaveMessage, SendP2PMessage, UpdateMessageStatus, LeaveChat,
                PeerReceives, ApplyAck, RetryLoop, Republish, ScheduleNextRetry, Tick, Kill
  <2>3. b.msg \in Msg /\ row[b.msg].wire
    BY <2>1, <2>2 DEF ReadDue, Due
  <2>4. QED
    BY <2>1, <2>3 DEF OInv, AckedIsRetired
<1>2. QED
    BY <1>1, AlwaysOInv, PTL DEF Spec, NoRetryOfAcked

\* No write of a row by sendMessage or by the retry loop takes an
\* acknowledgement away.
THEOREM NoAckLost == Spec => AckersKept
<1>1. OInv /\ [Next]_vars => [\A m \in Msg : row[m].ackers \subseteq row'[m].ackers]_vars
  <2>1. SUFFICES ASSUME OInv, Next, NEW m \in Msg
                 PROVE  row[m].ackers \subseteq row'[m].ackers
    BY DEF vars
  <2>2. row[m] \in Row /\ row \in [Msg -> Row]
    BY <2>1 DEF OInv, TypeOK
  <2>3. ASSUME NEW n \in Msg, EncryptFails(n) \/ SaveMessage(n)
        PROVE  row[m].ackers \subseteq row'[m].ackers
    <3>1. row[n].ackers = {}
      BY <2>1, <2>3 DEF EncryptFails, SaveMessage, OInv, Unsent, NoRow
    <3>2. n # m => row'[m] = row[m]
      BY <2>2, <2>3 DEF EncryptFails, SaveMessage
    <3>3. QED
      BY <3>1, <3>2
  <2>4. ASSUME NEW n \in Msg, UpdateMessageStatus(n) PROVE row[m].ackers \subseteq row'[m].ackers
    BY <2>2, <2>4 DEF UpdateMessageStatus, Row
  <2>5. ASSUME NEW n \in Msg, NEW p \in Peer, ApplyAck(n, p)
        PROVE  row[m].ackers \subseteq row'[m].ackers
    BY <2>2, <2>5 DEF ApplyAck, RecordAck, Row
  <2>6. CASE ScheduleNextRetry
    BY <2>2, <2>6 DEF ScheduleNextRetry, Reschedule, Row
  <2>7. CASE Tick
    BY <2>2, <2>7 DEF Tick, Row
  <2>8. CASE UNCHANGED row
    BY <2>8
  <2>9. QED
    BY <2>1, <2>3, <2>4, <2>5, <2>6, <2>7, <2>8
       DEF Next, SendP2PMessage, LeaveChat, PeerReceives, RetryLoop, ReadDue, Republish, Kill
<1>2. QED
    BY <1>1, AlwaysOInv, PTL DEF Spec, AckersKept
================================================================================
