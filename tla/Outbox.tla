--------------------------------- MODULE Outbox ---------------------------------
(***************************************************************************)
(* The outbound messages of one device: ChatViewModel.sendMessage, the     *)
(* retry loop of MessageService and the acknowledgements that              *)
(* MessageDao.applyAckTransactional records, all working on the rows of    *)
(* the messages table from coroutines of their own.                        *)
(*                                                                         *)
(* Every Room call is one step; what happens between two of them is        *)
(* interleaved with everything else.  Time is counted in units of 30       *)
(* seconds, the interval of the retry loop.  A time stamp in the future is *)
(* the number of units left, and an age stops growing once it exceeds      *)
(* MaxAge, so behaviours of any length have finitely many states.          *)
(***************************************************************************)
EXTENDS Integers, FiniteSets

CONSTANTS Msg,           \* the messages the user sends
          Peer,          \* the other members of the group
          MaxAttempts,   \* OFFLINE_RETRY_MAX_ATTEMPTS
          InitialDelay,  \* INITIAL_RETRY_DELAY_MS
          MaxAge,        \* GROUP_MESSAGE_MAX_AGE_SECS
          MaxKills       \* bound: how often the process dies

ASSUME AttemptsAssumption == MaxAttempts \in Nat \ {0}
ASSUME TimeAssumption == {InitialDelay, MaxAge, MaxKills} \subseteq Nat

VARIABLES
    row,        \* row[m]: the row of m in the messages table
    sending,    \* sending[m]: how far sendMessage got with m
    batch,      \* rows the retry loop has read and not yet republished
    current,    \* the row it republished and has not yet rescheduled, or {}
    age,        \* age[m]: time since m was encrypted and signed
    air,        \* air[m]: peers that a published copy of m may still reach
    acks,       \* the acknowledgements published so far
    published,  \* published[m]: how often m was handed to the network
    kills       \* how often the process died

vars == <<row, sending, batch, current, age, air, acks, published, kills>>

--------------------------------------------------------------------------------

\* nextRetryAt = null
Never == -1

\* retryBackoffMs
Backoff(attempt) ==
    CASE attempt = 1 -> 1
      [] attempt = 2 -> 4
      [] attempt = 3 -> 20
      [] attempt = 4 -> 60
      [] OTHER       -> 240

\* The columns of a Message that the outbound path writes.  wire says whether
\* wireBytes is set, left is the time until nextRetryAt.
NoRow == [status |-> "None", wire |-> FALSE, attempt |-> 0, left |-> Never,
          ackers |-> {}]

Row == [status : {"None", "SENDING", "SENT", "FAILED", "DELIVERED"},
        wire : BOOLEAN, attempt : 0..MaxAttempts, left : Nat \cup {Never},
        ackers : SUBSET Peer]

\* What a tick of the retry loop remembers of a row
Snapshot == [msg : Msg, attempt : 0..MaxAttempts]

TypeOK ==
    /\ row \in [Msg -> Row]
    /\ sending \in [Msg -> {"idle", "saved", "ok", "failed", "done"}]
    /\ batch \subseteq Snapshot
    /\ current \subseteq [msg : Msg, attempt : 0..MaxAttempts, ok : BOOLEAN]
    /\ Cardinality(current) <= 1
    /\ age \in [Msg -> 0..(MaxAge + 1)]
    /\ air \in [Msg -> SUBSET Peer]
    /\ acks \subseteq (Msg \X Peer)
    /\ published \in [Msg -> Nat]
    /\ kills \in 0..MaxKills

Init ==
    /\ row = [m \in Msg |-> NoRow]
    /\ sending = [m \in Msg |-> "idle"]
    /\ batch = {}
    /\ current = {}
    /\ age = [m \in Msg |-> 0]
    /\ air = [m \in Msg |-> {}]
    /\ acks = {}
    /\ published = [m \in Msg |-> 0]
    /\ kills = 0

--------------------------------------------------------------------------------
\* ChatViewModel.sendMessage

\* encryptMessage returns null: a FAILED row, and that is all.
EncryptFails(m) ==
    /\ sending[m] = "idle"
    /\ row' = [row EXCEPT ![m] = [NoRow EXCEPT !.status = "FAILED"]]
    /\ sending' = [sending EXCEPT ![m] = "done"]
    /\ UNCHANGED <<batch, current, age, air, acks, published, kills>>

\* Encrypt, then saveMessage
SaveMessage(m) ==
    /\ sending[m] = "idle"
    /\ row' = [row EXCEPT ![m] = [status |-> "SENDING", wire |-> TRUE, attempt |-> 0,
                                  left |-> InitialDelay, ackers |-> {}]]
    /\ sending' = [sending EXCEPT ![m] = "saved"]
    /\ UNCHANGED <<batch, current, age, air, acks, published, kills>>

\* nativeSendP2PMessage: the command goes into the channel of the P2P node, or
\* is refused when there is no node or the channel is full.
HandOver(m, ok) ==
    IF ok THEN /\ air' = [air EXCEPT ![m] = Peer]
               /\ published' = [published EXCEPT ![m] = @ + 1]
          ELSE UNCHANGED <<air, published>>

SendP2PMessage(m) ==
    /\ sending[m] = "saved"
    /\ \E ok \in BOOLEAN :
          /\ HandOver(m, ok)
          /\ sending' = [sending EXCEPT ![m] = IF ok THEN "ok" ELSE "failed"]
    /\ UNCHANGED <<row, batch, current, age, acks, kills>>

\* updateMessageStatus, whatever the status has become by now
UpdateMessageStatus(m) ==
    /\ sending[m] \in {"ok", "failed"}
    /\ row' = [row EXCEPT ![m].status = IF sending[m] = "ok" THEN "SENT" ELSE "FAILED"]
    /\ sending' = [sending EXCEPT ![m] = "done"]
    /\ UNCHANGED <<batch, current, age, air, acks, published, kills>>

\* The user leaves the chat: viewModelScope is cancelled with the coroutine.
LeaveChat(m) ==
    /\ sending[m] \in {"saved", "ok", "failed"}
    /\ sending' = [sending EXCEPT ![m] = "done"]
    /\ UNCHANGED <<row, batch, current, age, air, acks, published, kills>>

--------------------------------------------------------------------------------
\* MessageService.runOfflineRetryTick

\* Mutant: the query does not look at the attempt budget.
DueOverBudget == {m \in Msg : /\ row[m].status = "SENT"
                              /\ row[m].wire
                              /\ row[m].left = 0}

\* getRetryableOutbound
Due == {m \in Msg : /\ row[m].status = "SENT"
                    /\ row[m].wire
                    /\ row[m].left = 0
                    /\ row[m].attempt < MaxAttempts}

\* dueForRetry; the batch limit of 32 rows is not reached.
ReadDue ==
    /\ batch = {} /\ current = {}
    /\ Due # {}
    /\ batch' = {[msg |-> m, attempt |-> row[m].attempt] : m \in Due}
    /\ UNCHANGED <<row, sending, current, age, air, acks, published, kills>>

\* sendP2PMessage of the bytes that were read, whatever the row has become
Republish ==
    /\ current = {}
    /\ \E b \in batch, ok \in BOOLEAN :
          /\ HandOver(b.msg, ok)
          /\ batch' = batch \ {b}
          /\ current' = {[msg |-> b.msg, attempt |-> b.attempt, ok |-> ok]}
    /\ UNCHANGED <<row, sending, age, acks, kills>>

\* Mutant: the row is written back as the tick read it.
RescheduleWholeRow(c) ==
    LET next == c.attempt + 1
    IN row' = [row EXCEPT ![c.msg] =
                 [status |-> "SENT", wire |-> TRUE, attempt |-> next,
                  left |-> IF ~c.ok \/ next < MaxAttempts THEN Backoff(next) ELSE Never,
                  ackers |-> {}]]

\* Mutant: the attempt is not counted.
RescheduleUncounted(c) ==
    LET next == c.attempt + 1
    IN row' = [row EXCEPT ![c.msg].attempt = c.attempt,
                          ![c.msg].left = IF ~c.ok \/ next < MaxAttempts
                                          THEN Backoff(next) ELSE Never]

\* Mutant: a send that failed retires the row.
RescheduleGivesUp(c) ==
    LET next == c.attempt + 1
    IN row' = [row EXCEPT ![c.msg].attempt = next,
                          ![c.msg].left = IF c.ok /\ next < MaxAttempts
                                          THEN Backoff(next) ELSE Never]

\* scheduleNextRetry, updateRetrySchedule: two columns of the row
Reschedule(c) ==
    LET next == c.attempt + 1
    IN row' = [row EXCEPT ![c.msg].attempt = next,
                          ![c.msg].left = IF ~c.ok \/ next < MaxAttempts
                                          THEN Backoff(next) ELSE Never]

ScheduleNextRetry ==
    /\ \E c \in current : Reschedule(c)
    /\ current' = {}
    /\ UNCHANGED <<sending, batch, age, air, acks, published, kills>>

--------------------------------------------------------------------------------
\* The peers and their acknowledgements

\* handle_inbound_group_message at a peer: a frame older than MaxAge does not
\* verify.  A frame that fails another gate is one that is never received.
PeerReceives(m, p) ==
    /\ p \in air[m]
    /\ age[m] <= MaxAge
    /\ air' = [air EXCEPT ![m] = @ \ {p}]
    /\ acks' = acks \cup {<<m, p>>}
    /\ UNCHANGED <<row, sending, batch, current, age, published, kills>>

\* Mutant: the retry columns are left alone.
RecordAckKeepsWire(r, p) ==
    [r EXCEPT !.ackers = @ \cup {p}, !.status = "DELIVERED"]

\* The row applyAckTransactional writes for a new acker
RecordAck(r, p) ==
    [r EXCEPT !.ackers = @ \cup {p}, !.status = "DELIVERED",
              !.wire = FALSE, !.left = Never]

\* onMessageAcked, applyAckTransactional: late and repeated acks included
ApplyAck(m, p) ==
    /\ <<m, p>> \in acks
    /\ row[m].status # "None"
    /\ p \notin row[m].ackers
    /\ row' = [row EXCEPT ![m] = RecordAck(@, p)]
    /\ UNCHANGED <<sending, batch, current, age, air, acks, published, kills>>

--------------------------------------------------------------------------------
\* Time and failures

\* 30 seconds pass.  A batch is a few calls of a channel and takes no time.
Tick ==
    /\ batch = {} /\ current = {}
    /\ age' = [m \in Msg |-> IF sending[m] # "idle" /\ age[m] <= MaxAge
                             THEN age[m] + 1 ELSE age[m]]
    /\ row' = [m \in Msg |-> IF row[m].left > 0
                             THEN [row[m] EXCEPT !.left = @ - 1] ELSE row[m]]
    /\ UNCHANGED <<sending, batch, current, air, acks, published, kills>>

\* The process dies: every coroutine is gone, START_STICKY brings the service
\* and its loop back.
Kill ==
    /\ kills < MaxKills
    /\ kills' = kills + 1
    /\ sending' = [m \in Msg |-> IF sending[m] = "idle" THEN "idle" ELSE "done"]
    /\ batch' = {}
    /\ current' = {}
    /\ UNCHANGED <<row, age, air, acks, published>>

--------------------------------------------------------------------------------

RetryLoop == ReadDue \/ Republish \/ ScheduleNextRetry

Next ==
    \/ \E m \in Msg : \/ EncryptFails(m)
                      \/ SaveMessage(m)
                      \/ SendP2PMessage(m)
                      \/ UpdateMessageStatus(m)
                      \/ LeaveChat(m)
                      \/ \E p \in Peer : PeerReceives(m, p) \/ ApplyAck(m, p)
    \/ RetryLoop
    \/ Tick
    \/ Kill

\* The loop of the foreground service and the clock go on; nobody has to send,
\* receive or acknowledge anything.
Spec == Init /\ [][Next]_vars /\ WF_vars(RetryLoop) /\ WF_vars(Tick)

--------------------------------------------------------------------------------
\* Properties

\* The retry loop never picks up a row that a peer has acknowledged, not even
\* when sendMessage wrote SENT over DELIVERED: applyAckTransactional clears the
\* retry columns together with the status ("so a concurrent retry tick can't
\* observe the half-updated state").
NoRetryOfAcked ==
    [][\A b \in batch' \ batch : row[b.msg].ackers = {}]_vars

\* A message goes out at most once when sent and MaxAttempts times after that;
\* only a process that died between a send and its rescheduling repeats one
\* ("Bounded retry budget per outbound row").
RetryBudget == \A m \in Msg : published[m] <= 1 + MaxAttempts + kills

\* No acknowledgement is lost to a concurrent write of the row by sendMessage
\* or by the retry loop, which holds an older copy of it ("can't lose one to a
\* stale-read race").
AckersKept == [][\A m \in Msg : row[m].ackers \subseteq row'[m].ackers]_vars

\* A message that was handed over is retried until someone acknowledges it or
\* the budget is used up, send failures and dead processes included.
RetriedUntilDone ==
    \A m \in Msg :
        row[m].status = "SENT" ~> row[m].ackers # {} \/ row[m].attempt = MaxAttempts
================================================================================
