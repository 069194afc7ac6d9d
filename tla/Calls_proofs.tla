------------------------------ MODULE Calls_proofs ------------------------------
(***************************************************************************)
(* Proofs about calls, for any calls, identities, tasks and candidates:    *)
(* the types, the bound on how far max_concurrent_calls is overrun, the    *)
(* silence of muted participants, the arrival of ICE candidates, and that  *)
(* the call stack implements CallPhases.                                   *)
(*                                                                         *)
(* The invariant CInv says who can be at work on a call: one task sets it  *)
(* up, only while nobody has answered; one task connects whoever answered, *)
(* only while there is no connection.                                      *)
(***************************************************************************)
EXTENDS Calls, FiniteSetTheorems, TLAPS

SettingUp(t) == task[t].op \in {"store", "invite", "ring"}

\* A task at work has a call and an identity, and only callers set up calls.
TaskInv ==
    \A t \in Task : /\ task[t].op # "idle" => task[t].call \in Call /\ task[t].who \in Id
                    /\ SettingUp(t) => t \in Caller

\* A call is set up by one task.
SetupInv ==
    \A t, u \in Task : SettingUp(t) /\ SettingUp(u) /\ task[t].call = task[u].call => t = u

\* Nothing is known of a call before it is stored, and it is stored once.
FreshInv ==
    /\ \A c \in Call : calls[c].state = "None" => calls[c] = NoCall
    /\ \A t \in Task : task[t].op # "idle" =>
          (calls[task[t].call].state = "None" <=> task[t].op = "store")

\* A call rings only after its setup, and somebody answers only while it rings.
AnswerInv ==
    /\ \A c \in Call : Pending(c) => calls[c].state \notin {"Ringing", "Active"}
    /\ \A c \in Call : Pending(c) \/ calls[c].state \in {"None", "Initiating", "Ringing"}
                       => calls[c].joined = {}
    /\ \A c \in Call, p \in Id : calls[c].part[p] = "Connecting" => p \in calls[c].joined
    /\ \A c \in Call : \A p, q \in calls[c].joined : p = q

\* Who answered is connected by one task, when there is no connection yet.
ConnectInv ==
    /\ \A c \in Call, p \in Id : conn[c][p].open => p \in calls[c].joined
    /\ \A t \in Task : task[t].op = "connect" =>
          /\ task[t].who \in calls[task[t].call].joined
          /\ \A p \in Id : ~conn[task[t].call][p].open
    /\ \A t, u \in Task : task[t].op = "connect" /\ task[u].op = "connect"
                          /\ task[t].call = task[u].call => t = u

CInv == TypeOK /\ TaskInv /\ SetupInv /\ FreshInv /\ AnswerInv /\ ConnectInv

--------------------------------------------------------------------------------
\* Types of the records

LEMMA IdleType == Idle \in TaskRecord /\ Idle.op = "idle" /\ Idle.call = None
BY DEF Idle, TaskRecord

LEMMA NoCallType == /\ NoCall \in CallRecord /\ NoCall.state = "None" /\ NoCall.joined = {}
                    /\ \A p \in Id : NoCall.part[p] = "None"
BY DEF NoCall, CallRecord, CallState, ParticipantState

LEMMA StateType ==
    ASSUME NEW r \in CallRecord, NEW s \in CallState
    PROVE  [r EXCEPT !.state = s] \in CallRecord
BY DEF CallRecord

LEMMA ConnType ==
    /\ NoConn \in ConnRecord /\ ~NoConn.open /\ ~NoConn.audio /\ ~NoConn.video
    /\ ~NoConn.answered /\ NoConn.cands = {}
    /\ NewConn \in ConnRecord /\ NewConn.open /\ ~NewConn.audio /\ ~NewConn.video
    /\ ~NewConn.answered /\ NewConn.cands = {}
BY DEF NoConn, NewConn, ConnRecord

\* One cell of a table with two indices changes.
LEMMA Cell ==
    ASSUME NEW C, NEW I, NEW S, NEW f \in [C -> [I -> S]], NEW c \in C, NEW p \in I, NEW v \in S
    PROVE  /\ [f EXCEPT ![c][p] = v] \in [C -> [I -> S]]
           /\ [f EXCEPT ![c][p] = v][c][p] = v
           /\ \A d \in C, q \in I : d # c \/ q # p => [f EXCEPT ![c][p] = v][d][q] = f[d][q]
OBVIOUS

\* The changes of a connection keep its type, and whether it is open.
LEMMA ConnChange ==
    ASSUME NEW k \in ConnRecord, NEW on \in BOOLEAN, NEW xs \in SUBSET Candidate
    PROVE  /\ WithAudio(k, on) \in ConnRecord /\ WithAudio(k, on).open = k.open
           /\ WithVideo(k, on) \in ConnRecord /\ WithVideo(k, on).open = k.open
           /\ WithScreen(k) \in ConnRecord /\ WithScreen(k).open = k.open
           /\ WithOffer(k) \in ConnRecord /\ WithOffer(k).open = k.open
           /\ WithAnswer(k) \in ConnRecord /\ WithAnswer(k).open = k.open
           /\ WithRemote(k) \in ConnRecord /\ WithRemote(k).open = k.open
           /\ WithCandidates(k, xs) \in ConnRecord /\ WithCandidates(k, xs).open = k.open
BY DEF ConnRecord, WithAudio, WithVideo, WithScreen, WithOffer, WithAnswer, WithRemote, WithCandidates

--------------------------------------------------------------------------------
\* Steps after which less can happen to a call

\* The operations that neither set up a call nor connect anybody
Aftermath == {"close", "audio", "video", "screen"}

\* Tasks return or begin what neither sets up nor connects, calls end, and
\* connections close.
Less ==
    /\ \A t \in Task : \/ task'[t] = task[t]
                       \/ task'[t] = Idle
                       \/ /\ task'[t].op \in Aftermath
                          /\ task'[t].call \in Call /\ task'[t].who \in Id
                          /\ calls[task'[t].call].state # "None"
    /\ \A c \in Call :
          /\ calls'[c].joined = calls[c].joined
          /\ \/ calls'[c].state = calls[c].state
             \/ calls[c].state # "None" /\ calls'[c].state \in Over
          /\ calls[c].state = "None" => calls'[c] = calls[c]
          /\ \A p \in Id : /\ calls'[c].part[p] = "Connecting" => calls[c].part[p] = "Connecting"
                           /\ conn'[c][p].open => conn[c][p].open

LEMMA LessCInv == ASSUME CInv, TypeOK', Less PROVE CInv'
<1>1. \A t \in Task : SettingUp(t)' => SettingUp(t) /\ task'[t] = task[t]
    BY IdleType DEF Less, SettingUp, Aftermath
<1>2. \A t \in Task : task'[t].op = "connect" => task'[t] = task[t]
    BY IdleType DEF Less, Aftermath
<1>3. \A c \in Call : Pending(c)' => Pending(c)
    BY <1>1 DEF Pending, SettingUp
<1>4. TaskInv'
    BY <1>1, IdleType DEF Less, CInv, TaskInv, SettingUp, Aftermath
<1>5. SetupInv'
    BY <1>1 DEF CInv, SetupInv
<1>6. FreshInv'
  <2>1. \A c \in Call : calls'[c].state = "None" <=> calls[c].state = "None"
    BY DEF Less, Over
  <2>2. \A t \in Task : task'[t].op # "idle" =>
           (calls'[task'[t].call].state = "None" <=> task'[t].op = "store")
    BY <2>1, IdleType DEF Less, CInv, TaskInv, FreshInv, Aftermath
  <2>3. QED
    BY <2>1, <2>2 DEF Less, CInv, FreshInv
<1>7. AnswerInv'
    BY <1>3 DEF Less, CInv, AnswerInv, Over
<1>8. ConnectInv'
  <2>1. \A c \in Call, p \in Id : conn'[c][p].open => p \in calls'[c].joined
    BY DEF Less, CInv, ConnectInv
  <2>2. \A t \in Task : task'[t].op = "connect" => task[t].op = "connect" /\ task[t].call \in Call
    BY <1>2 DEF CInv, TaskInv
  <2>3. QED
    BY <1>2, <2>1, <2>2 DEF Less, CInv, ConnectInv
<1>9. QED
    BY <1>4, <1>5, <1>6, <1>7, <1>8 DEF CInv

\* A task that returns
LEMMA ReturnTask ==
    ASSUME TypeOK, NEW t \in Task, Return(t)
    PROVE  /\ task' \in [Task -> TaskRecord] /\ task'[t] = Idle
           /\ \A u \in Task : u # t => task'[u] = task[u]
BY IdleType DEF Return, TypeOK

\* A task that begins an operation
LEMMA BeginTask ==
    ASSUME TypeOK, NEW t \in Task, NEW c \in Call, NEW p \in Id,
           NEW op \in {"connect", "close"}, Begin(t, op, c, p)
    PROVE  /\ task' \in [Task -> TaskRecord] /\ task[t] = Idle
           /\ task'[t].op = op /\ task'[t].call = c /\ task'[t].who = p
           /\ \A u \in Task : u # t => task'[u] = task[u]
BY DEF Begin, Idle, TypeOK, TaskRecord

\* The clients of the signalling server and the receiver of events
LEMMA SignalLess ==
    ASSUME CInv, (\E p \in Id : RegisterClient(p) \/ DropClient(p)) \/ StopListening
    PROVE  TypeOK' /\ Less /\ UNCHANGED <<calls, timers, task, media>>
<1>1. /\ UNCHANGED <<calls, timers, task, media>>
      /\ client' \subseteq Id /\ listening' \in BOOLEAN
  <2>1. CASE \E p \in Id : RegisterClient(p) \/ DropClient(p)
    BY <2>1 DEF RegisterClient, DropClient, CInv, TypeOK
  <2>2. CASE StopListening
    BY <2>2 DEF StopListening, CInv, TypeOK
  <2>3. QED
    BY <2>1, <2>2
<1>2. TypeOK'
    BY <1>1 DEF CInv, TypeOK, media
<1>3. QED
    BY <1>1, <1>2 DEF Less, media

\* The ring timeout
LEMMA TimeoutLess ==
    ASSUME CInv, NEW c \in Call, RingTimeout(c)
    PROVE  /\ TypeOK' /\ Less /\ UNCHANGED <<task, media>>
           /\ calls' \in [Call -> CallRecord]
           /\ \A d \in Call : \/ calls'[d] = calls[d]
                              \/ calls[d].state = "Ringing" /\ calls'[d] = [calls[d] EXCEPT !.state = "TimedOut"]
           /\ \A d \in Call : d # c => calls'[d] = calls[d]
<1>1. UNCHANGED <<signalling, task, media>> /\ timers' \subseteq Call
    BY DEF RingTimeout, CInv, TypeOK
<1>2. /\ calls' \in [Call -> CallRecord]
      /\ \A d \in Call : \/ calls'[d] = calls[d]
                         \/ calls[d].state = "Ringing" /\ calls'[d] = [calls[d] EXCEPT !.state = "TimedOut"]
      /\ \A d \in Call : d # c => calls'[d] = calls[d]
  <2>1. CASE calls[c].state = "Ringing"
    <3>1. [calls[c] EXCEPT !.state = "TimedOut"] \in CallRecord
      BY StateType DEF CInv, TypeOK, CallState, Over
    <3>2. calls' = [calls EXCEPT ![c] = [calls[c] EXCEPT !.state = "TimedOut"]]
      BY <2>1 DEF RingTimeout
    <3>3. QED
      BY <2>1, <3>1, <3>2 DEF CInv, TypeOK
  <2>2. CASE calls[c].state # "Ringing"
    BY <2>2 DEF RingTimeout, CInv, TypeOK
  <2>3. QED
    BY <2>1, <2>2
<1>3. TypeOK'
    BY <1>1, <1>2 DEF CInv, TypeOK, media, signalling
<1>4. \A d \in Call : /\ calls'[d].joined = calls[d].joined /\ calls'[d].part = calls[d].part
                      /\ \/ calls'[d] = calls[d]
                         \/ calls[d].state # "None" /\ calls'[d].state \in Over
    BY <1>2 DEF CInv, TypeOK, CallRecord, Over
<1>5. QED
    BY <1>1, <1>2, <1>3, <1>4 DEF Less, media

\* reject_call
LEMMA RejectLess ==
    ASSUME CInv, NEW c \in Call, NEW p \in Id, RejectCall(c, p)
    PROVE  /\ TypeOK' /\ Less /\ UNCHANGED <<task, media>>
           /\ calls' \in [Call -> CallRecord]
           /\ \A d \in Call : calls'[d].muted = calls[d].muted /\ calls'[d].video = calls[d].video
                              /\ calls'[d].sharing = calls[d].sharing
           /\ \A d \in Call : d # c => calls'[d] = calls[d]
<1> DEFINE part == [calls[c].part EXCEPT ![p] = "Left"]
           state == IF \E q \in Id : part[q] \in {"Invited", "Connecting"}
                    THEN calls[c].state ELSE "Rejected"
           r == [calls[c] EXCEPT !.part = part, !.state = state]
<1>1. UNCHANGED <<signalling, timers, task, media>>
    BY DEF RejectCall
<1>2. /\ calls[c] \in CallRecord /\ part \in [Id -> ParticipantState] /\ state \in CallState
      /\ state = calls[c].state \/ state \in Over
      /\ \A q \in Id : part[q] = "Connecting" => calls[c].part[q] = "Connecting"
    BY DEF CInv, TypeOK, CallRecord, ParticipantState, CallState, Over
<1>3. calls[c].state # "None"
    BY NoCallType DEF RejectCall, Participants, CInv, FreshInv
<1>4. calls' = [calls EXCEPT ![c] = r]
    BY DEF RejectCall, CInv, TypeOK, CallRecord
<1> HIDE DEF part, state
<1>5. /\ r \in CallRecord /\ r.joined = calls[c].joined /\ r.state = state /\ r.part = part
      /\ r.muted = calls[c].muted /\ r.video = calls[c].video /\ r.sharing = calls[c].sharing
    BY <1>2 DEF CallRecord
<1> HIDE DEF r
<1>6. calls' \in [Call -> CallRecord] /\ calls'[c] = r /\ \A d \in Call : d # c => calls'[d] = calls[d]
    BY <1>4, <1>5 DEF CInv, TypeOK
<1>7. TypeOK'
    BY <1>1, <1>6 DEF CInv, TypeOK, signalling, media
<1>8. QED
    BY <1>1, <1>2, <1>3, <1>5, <1>6, <1>7 DEF Less, media

\* end_call, in the table
LEMMA EndLess ==
    ASSUME CInv, NEW t \in Task, NEW c \in Call, NEW p \in Id, EndCall(t, c, p)
    PROVE  /\ TypeOK' /\ Less /\ UNCHANGED media
           /\ task'[t].op = "close" /\ \A u \in Task : u # t => task'[u] = task[u]
           /\ task[t] = Idle
           /\ \A d \in Call : calls'[d].muted = calls[d].muted /\ calls'[d].video = calls[d].video
                              /\ calls'[d].sharing = calls[d].sharing
           /\ \A d \in Call : d # c => calls'[d] = calls[d]
<1> DEFINE part == [calls[c].part EXCEPT
                       ![p] = IF p # calls[c].initiator /\ calls[c].part[p] # "None" THEN "Left"
                              ELSE calls[c].part[p]]
           r == [calls[c] EXCEPT !.part = part, !.state = "Ended"]
<1>1. UNCHANGED <<signalling, timers, media>> /\ Begin(t, "close", c, p) /\ calls[c].state # "None"
    BY DEF EndCall
<1>2. /\ task' \in [Task -> TaskRecord] /\ task[t] = Idle
      /\ task'[t].op = "close" /\ task'[t].call = c /\ task'[t].who = p
      /\ \A u \in Task : u # t => task'[u] = task[u]
    BY <1>1, BeginTask DEF CInv
<1>3. /\ calls[c] \in CallRecord /\ part \in [Id -> ParticipantState]
      /\ \A q \in Id : part[q] = "Connecting" => calls[c].part[q] = "Connecting"
    BY DEF CInv, TypeOK, CallRecord, ParticipantState
<1>4. calls' = [calls EXCEPT ![c] = r]
  <2>1. calls \in [Call -> CallRecord]
    BY DEF CInv, TypeOK
  <2>2. calls' = [calls EXCEPT ![c] = r]
    BY <1>3, <2>1 DEF EndCall, CallRecord
  <2>3. QED
    BY <2>2
<1> HIDE DEF part
<1>5. /\ r \in CallRecord /\ r.joined = calls[c].joined /\ r.state = "Ended" /\ r.part = part
      /\ r.muted = calls[c].muted /\ r.video = calls[c].video /\ r.sharing = calls[c].sharing
    BY <1>3 DEF CallRecord, CallState, Over
<1> HIDE DEF r
<1>6. calls' \in [Call -> CallRecord] /\ calls'[c] = r /\ \A d \in Call : d # c => calls'[d] = calls[d]
    BY <1>4, <1>5 DEF CInv, TypeOK
<1>7. TypeOK'
    BY <1>1, <1>2, <1>6 DEF CInv, TypeOK, signalling, media
<1>8. Less
  <2>1. \A d \in Call, q \in Id : conn'[d][q].open => conn[d][q].open
    BY <1>1 DEF media
  <2>2. QED
    BY <1>1, <1>2, <1>3, <1>5, <1>6, <2>1 DEF Less, Aftermath, Over
<1>9. QED
    BY <1>1, <1>2, <1>5, <1>6, <1>7, <1>8

\* end_call, on the connection
LEMMA DisconnectLess ==
    ASSUME CInv, NEW t \in Task, Disconnect(t)
    PROVE  /\ TypeOK' /\ Less /\ UNCHANGED <<calls, stray>>
           /\ task[t].op = "close" /\ task[t].call \in Call /\ task[t].who \in Id
           /\ task'[t] = Idle /\ \A u \in Task : u # t => task'[u] = task[u]
           /\ \A c \in Call, p \in Id :
                 IF c = task[t].call /\ p = task[t].who
                 THEN conn'[c][p] = NoConn /\ accepted'[c][p] = {}
                 ELSE conn'[c][p] = conn[c][p] /\ ice'[c][p] = ice[c][p] /\ accepted'[c][p] = accepted[c][p]
<1>1. task[t].op = "close" /\ task[t].call \in Call /\ task[t].who \in Id
    BY DEF Disconnect, At, CInv, TaskInv
<1> DEFINE c == task[t].call
           p == task[t].who
<1>2. /\ c \in Call /\ p \in Id
      /\ conn' = [conn EXCEPT ![c][p] = NoConn]
      /\ accepted' = [accepted EXCEPT ![c][p] = {}]
      /\ ice' = [ice EXCEPT ![c][p] = {}] \/ ice' = ice
      /\ Return(t) /\ UNCHANGED <<calls, signalling, timers, stray>>
    BY <1>1 DEF Disconnect, ClosePeerConnection
<1> HIDE DEF c, p
<1>3. task' \in [Task -> TaskRecord] /\ task'[t] = Idle /\ \A u \in Task : u # t => task'[u] = task[u]
    BY <1>2, ReturnTask DEF CInv
<1>4. /\ conn' \in [Call -> [Id -> ConnRecord]]
      /\ conn'[c][p] = NoConn
      /\ \A d \in Call, q \in Id : d # c \/ q # p => conn'[d][q] = conn[d][q]
    BY <1>2, ConnType DEF CInv, TypeOK
<1>5. /\ ice' \in [Call -> [Id -> SUBSET Candidate]]
      /\ \A d \in Call, q \in Id : d # c \/ q # p => ice'[d][q] = ice[d][q]
  <2>1. CASE ice' = [ice EXCEPT ![c][p] = {}]
    BY <1>2, <2>1 DEF CInv, TypeOK
  <2>2. CASE ice' = ice
    BY <2>2 DEF CInv, TypeOK
  <2>3. QED
    BY <1>2, <2>1, <2>2
<1>6. /\ accepted' \in [Call -> [Id -> SUBSET Candidate]]
      /\ accepted'[c][p] = {}
      /\ \A d \in Call, q \in Id : d # c \/ q # p => accepted'[d][q] = accepted[d][q]
    BY <1>2 DEF CInv, TypeOK
<1>7. TypeOK'
  <2>1. \A d \in Call, q \in Id : conn'[d][q].open \/ conn'[d][q] = NoConn
    BY <1>4 DEF CInv, TypeOK
  <2>2. QED
    BY <1>2, <1>3, <1>4, <1>5, <1>6, <2>1 DEF CInv, TypeOK, signalling
<1>8. Less
  <2>1. \A d \in Call, q \in Id : conn'[d][q].open => conn[d][q].open
    BY <1>4, ConnType
  <2>2. QED
    BY <1>2, <1>3, <2>1 DEF Less
<1>9. QED
    BY <1>1, <1>2, <1>3, <1>4, <1>5, <1>6, <1>7, <1>8 DEF c, p

\* What a change op of the tracks of p in c does to the tracks that are stray
StrayStep(op, c, p) ==
    /\ \A d \in Call, q \in Id : d # c \/ q # p => stray'[d][q] = stray[d][q]
    /\ \A track \in {"audio", "video"} :
          track \in stray'[c][p] <=> IF track = op THEN Toggling(c, p, op) ELSE track \in stray[c][p]

LEMMA ChangeStray ==
    ASSUME TypeOK, NEW t \in Task, NEW c \in Call, NEW p \in Id,
           NEW op \in {"audio", "video", "screen"}, NEW on, Change(t, c, p, op, on)
    PROVE  stray' \in [Call -> [Id -> SUBSET {"audio", "video"}]] /\ StrayStep(op, c, p)
<1> DEFINE s == IF Toggling(c, p, op) THEN stray[c][p] \cup Toggled(op) ELSE stray[c][p] \ Toggled(op)
<1>1. stray' = [stray EXCEPT ![c][p] = s] /\ stray \in [Call -> [Id -> SUBSET {"audio", "video"}]]
    BY DEF Change, TypeOK
<1>2. s \in SUBSET {"audio", "video"}
    BY <1>1 DEF Toggled
<1>3. \A track \in {"audio", "video"} :
         track \in s <=> IF track = op THEN Toggling(c, p, op) ELSE track \in stray[c][p]
    BY DEF Toggled
<1> HIDE DEF s
<1>4. /\ stray' \in [Call -> [Id -> SUBSET {"audio", "video"}]]
      /\ stray'[c][p] = s
      /\ \A d \in Call, q \in Id : d # c \/ q # p => stray'[d][q] = stray[d][q]
    BY <1>1, <1>2, Cell
<1>5. QED
    BY <1>3, <1>4 DEF StrayStep

\* A toggle, in the table
LEMMA ToggleLess ==
    ASSUME CInv, NEW t \in Task, NEW c \in Call, NEW p \in Id,
           NEW op \in {"audio", "video", "screen"}, \E on \in BOOLEAN : Change(t, c, p, op, on),
           calls' \in [Call -> CallRecord],
           \A d \in Call : /\ calls'[d].state = calls[d].state /\ calls'[d].joined = calls[d].joined
                           /\ calls'[d].part = calls[d].part
                           /\ d # c => calls'[d] = calls[d]
    PROVE  /\ TypeOK' /\ Less /\ UNCHANGED <<conn, ice, accepted>>
           /\ task[t] = Idle /\ StrayStep(op, c, p)
           /\ task'[t].op = op /\ task'[t].call = c /\ task'[t].who = p
           /\ \A u \in Task : u # t => task'[u] = task[u]
<1>1. /\ UNCHANGED <<signalling, timers, conn, ice, accepted>> /\ task[t] = Idle
      /\ p \in Participants(c)
    BY DEF Change
<1>2. /\ task' \in [Task -> TaskRecord]
      /\ task'[t].op = op /\ task'[t].call = c /\ task'[t].who = p
      /\ \A u \in Task : u # t => task'[u] = task[u]
  <2>1. PICK on \in BOOLEAN : Change(t, c, p, op, on)
    OBVIOUS
  <2>2. QED
    BY <2>1 DEF Change, CInv, TypeOK, Idle, TaskRecord
<1>3. calls[c].state # "None"
    BY <1>1, NoCallType DEF Participants, CInv, FreshInv
<1>4. stray' \in [Call -> [Id -> SUBSET {"audio", "video"}]] /\ StrayStep(op, c, p)
    BY ChangeStray DEF CInv
<1>5. TypeOK'
    BY <1>1, <1>2, <1>4 DEF CInv, TypeOK, signalling
<1>6. Less
  <2>1. \A d \in Call, q \in Id : conn'[d][q].open => conn[d][q].open
    BY <1>1
  <2>2. QED
    BY <1>2, <1>3, <2>1 DEF Less, Aftermath
<1>7. QED
    BY <1>1, <1>2, <1>4, <1>5, <1>6

\* The flag that Change leaves with the task
LEMMA ToggleOn ==
    ASSUME CInv, NEW t \in Task, NEW c \in Call, NEW p \in Id,
           NEW op \in {"audio", "video", "screen"}, NEW on \in BOOLEAN, Change(t, c, p, op, on)
    PROVE  task'[t].on <=> on
BY DEF Change, CInv, TypeOK, Idle, TaskRecord

\* The types of what is kept beside the connections
CacheTypes ==
    /\ ice \in [Call -> [Id -> SUBSET Candidate]]
    /\ accepted \in [Call -> [Id -> SUBSET Candidate]]
    /\ stray \in [Call -> [Id -> SUBSET {"audio", "video"}]]

\* Changes of one connection that keep it open
LEMMA SameLinksLess ==
    ASSUME CInv, NEW c \in Call, NEW p \in Id, NEW k \in ConnRecord,
           conn' = conn \/ (conn[c][p].open /\ k.open /\ conn' = [conn EXCEPT ![c][p] = k]),
           CacheTypes', task' \in [Task -> TaskRecord],
           \A t \in Task : task'[t] = task[t] \/ task'[t] = Idle,
           UNCHANGED <<calls, signalling, timers>>
    PROVE  /\ TypeOK' /\ Less
           /\ \A d \in Call, q \in Id : (conn'[d][q].open <=> conn[d][q].open)
           /\ \A d \in Call, q \in Id : conn'[d][q] = conn[d][q] \/ (d = c /\ q = p /\ conn'[d][q] = k)
<1>1. /\ conn' \in [Call -> [Id -> ConnRecord]]
      /\ \A d \in Call, q \in Id : /\ (conn'[d][q].open <=> conn[d][q].open)
                                   /\ conn'[d][q].open \/ conn'[d][q] = NoConn
                                   /\ conn'[d][q] = conn[d][q] \/ (d = c /\ q = p /\ conn'[d][q] = k)
  <2>1. CASE conn' = conn
    <3>1. conn' \in [Call -> [Id -> ConnRecord]]
      BY <2>1 DEF CInv, TypeOK
    <3>2. \A d \in Call, q \in Id : conn[d][q].open \/ conn[d][q] = NoConn
      BY DEF CInv, TypeOK
    <3>3. QED
      BY <2>1, <3>1, <3>2
  <2>2. CASE conn[c][p].open /\ k.open /\ conn' = [conn EXCEPT ![c][p] = k]
    <3>1. /\ conn' \in [Call -> [Id -> ConnRecord]] /\ conn'[c][p] = k
          /\ \A d \in Call, q \in Id : d # c \/ q # p => conn'[d][q] = conn[d][q]
      BY <2>2, Cell DEF CInv, TypeOK
    <3>2. \A d \in Call, q \in Id : conn[d][q].open \/ conn[d][q] = NoConn
      BY DEF CInv, TypeOK
    <3>3. QED
      BY <2>2, <3>1, <3>2
  <2>3. QED
    BY <2>1, <2>2
<1>2. TypeOK'
    BY <1>1 DEF CInv, TypeOK, CacheTypes, signalling
<1>3. QED
    BY <1>1, <1>2 DEF Less

\* A toggle, on the connection
LEMMA UpdateTrackLess ==
    ASSUME CInv, NEW t \in Task, UpdateTrack(t)
    PROVE  /\ TypeOK' /\ Less /\ UNCHANGED <<calls, ice, accepted, stray>>
           /\ task[t].op \in {"audio", "video", "screen"}
           /\ task[t].call \in Call /\ task[t].who \in Id
           /\ task'[t] = Idle /\ \A u \in Task : u # t => task'[u] = task[u]
           /\ \A d \in Call, q \in Id : (conn'[d][q].open <=> conn[d][q].open)
           /\ \A d \in Call, q \in Id :
                 IF d = task[t].call /\ q = task[t].who /\ conn[d][q].open
                 THEN conn'[d][q] = CASE task[t].op = "audio" -> WithAudio(conn[d][q], task[t].on)
                                      [] task[t].op = "video" -> WithVideo(conn[d][q], task[t].on)
                                      [] OTHER -> WithScreen(conn[d][q])
                 ELSE conn'[d][q] = conn[d][q]
<1> DEFINE c == task[t].call
           p == task[t].who
           k == CASE task[t].op = "audio" -> WithAudio(conn[c][p], task[t].on)
                  [] task[t].op = "video" -> WithVideo(conn[c][p], task[t].on)
                  [] OTHER -> WithScreen(conn[c][p])
<1>1. task[t].op \in {"audio", "video", "screen"} /\ c \in Call /\ p \in Id
    BY DEF UpdateTrack, At, CInv, TaskInv
<1>2. Return(t) /\ UNCHANGED <<calls, signalling, timers, ice, accepted, stray>>
    BY DEF UpdateTrack
<1>3. task' \in [Task -> TaskRecord] /\ task'[t] = Idle /\ \A u \in Task : u # t => task'[u] = task[u]
    BY <1>2, ReturnTask DEF CInv
<1>4. k \in ConnRecord /\ (k.open <=> conn[c][p].open)
  <2>1. conn[c][p] \in ConnRecord /\ task[t].on \in BOOLEAN
    BY <1>1 DEF CInv, TypeOK, TaskRecord
  <2>2. /\ WithAudio(conn[c][p], task[t].on) \in ConnRecord
        /\ WithVideo(conn[c][p], task[t].on) \in ConnRecord
        /\ WithScreen(conn[c][p]) \in ConnRecord
        /\ WithAudio(conn[c][p], task[t].on).open = conn[c][p].open
        /\ WithVideo(conn[c][p], task[t].on).open = conn[c][p].open
        /\ WithScreen(conn[c][p]).open = conn[c][p].open
    BY <2>1, ConnChange
  <2>3. QED
    BY <1>1, <2>2
<1>5. conn' = IF conn[c][p].open THEN [conn EXCEPT ![c][p] = k] ELSE conn
    BY <1>1 DEF UpdateTrack, At, SetAudioEnabled, SetVideoEnabled, StartScreenCapture
<1> HIDE DEF k
<1>6. CacheTypes'
    BY <1>2 DEF CInv, TypeOK, CacheTypes
<1>7. \A u \in Task : task'[u] = task[u] \/ task'[u] = Idle
    BY <1>3
<1>8. conn' = conn \/ (conn[c][p].open /\ k.open /\ conn' = [conn EXCEPT ![c][p] = k])
    BY <1>4, <1>5
<1>9. /\ TypeOK' /\ Less
      /\ \A d \in Call, q \in Id : (conn'[d][q].open <=> conn[d][q].open)
  <2> HIDE DEF c, p
  <2>1. UNCHANGED <<calls, signalling, timers>>
    BY <1>2
  <2>2. task' \in [Task -> TaskRecord] /\ k \in ConnRecord /\ c \in Call /\ p \in Id
    BY <1>1, <1>3, <1>4
  <2>3. QED
    BY <2>1, <2>2, <1>6, <1>7, <1>8, SameLinksLess
<1>10. \A d \in Call, q \in Id :
          IF d = c /\ q = p /\ conn[d][q].open THEN conn'[d][q] = k ELSE conn'[d][q] = conn[d][q]
  <2>1. CASE conn[c][p].open
    <3>1. conn' = [conn EXCEPT ![c][p] = k]
      BY <1>5, <2>1
    <3>2. /\ conn'[c][p] = k
          /\ \A d \in Call, q \in Id : d # c \/ q # p => conn'[d][q] = conn[d][q]
      BY <1>1, <1>4, <3>1, Cell DEF CInv, TypeOK
    <3>3. QED
      BY <2>1, <3>2
  <2>2. CASE ~conn[c][p].open
    BY <1>5, <2>2
  <2>3. QED
    BY <2>1, <2>2
<1>11. QED
    BY <1>1, <1>2, <1>3, <1>9, <1>10 DEF k

\* A track that cannot be changed
LEMMA FailTrackLess ==
    ASSUME CInv, NEW t \in Task, FailTrack(t)
    PROVE  /\ TypeOK' /\ Less /\ UNCHANGED <<calls, conn, ice, accepted>>
           /\ task[t].op \in {"audio", "video", "screen"}
           /\ task[t].call \in Call /\ task[t].who \in Id
           /\ task'[t] = Idle /\ \A u \in Task : u # t => task'[u] = task[u]
           /\ \A d \in Call, q \in Id : stray[d][q] \subseteq stray'[d][q]
           /\ ~task[t].on => Toggled(task[t].op) \subseteq stray'[task[t].call][task[t].who]
<1> DEFINE c == task[t].call
           p == task[t].who
<1>1. task[t].op \in {"audio", "video", "screen"} /\ c \in Call /\ p \in Id
    BY DEF FailTrack, CInv, TaskInv
<1>2. Return(t) /\ UNCHANGED <<calls, signalling, timers, conn, ice, accepted>>
    BY DEF FailTrack
<1>3. task' \in [Task -> TaskRecord] /\ task'[t] = Idle /\ \A u \in Task : u # t => task'[u] = task[u]
    BY <1>2, ReturnTask DEF CInv
<1>4. stray \in [Call -> [Id -> SUBSET {"audio", "video"}]]
    BY DEF CInv, TypeOK
<1>5. stray' = IF task[t].on THEN stray ELSE [stray EXCEPT ![c][p] = stray[c][p] \cup Toggled(task[t].op)]
    BY DEF FailTrack
<1>6. stray[c][p] \cup Toggled(task[t].op) \in SUBSET {"audio", "video"}
    BY <1>1, <1>4 DEF Toggled
<1> HIDE DEF c, p
<1>7. /\ stray' \in [Call -> [Id -> SUBSET {"audio", "video"}]]
      /\ \A d \in Call, q \in Id : stray[d][q] \subseteq stray'[d][q]
      /\ ~task[t].on => Toggled(task[t].op) \subseteq stray'[c][p]
  <2>1. CASE task[t].on
    BY <1>4, <1>5, <2>1
  <2>2. CASE ~task[t].on
    <3> DEFINE s == stray[c][p] \cup Toggled(task[t].op)
    <3>1. s \in SUBSET {"audio", "video"} /\ stray' = [stray EXCEPT ![c][p] = s]
      BY <1>5, <1>6, <2>2
    <3>2. stray[c][p] \subseteq s /\ Toggled(task[t].op) \subseteq s
      OBVIOUS
    <3> HIDE DEF s
    <3>3. /\ stray' \in [Call -> [Id -> SUBSET {"audio", "video"}]]
          /\ stray'[c][p] = s
          /\ \A d \in Call, q \in Id : d # c \/ q # p => stray'[d][q] = stray[d][q]
      BY <1>1, <1>4, <3>1, Cell
    <3>4. QED
      BY <3>2, <3>3
  <2>3. QED
    BY <2>1, <2>2
<1>8. TypeOK'
    BY <1>2, <1>3, <1>7 DEF CInv, TypeOK, signalling
<1>9. Less
    BY <1>2, <1>3 DEF Less
<1>10. QED
    BY <1>1, <1>2, <1>3, <1>7, <1>8, <1>9 DEF c, p

\* Session descriptions and candidates
LEMMA NegotiateLess ==
    ASSUME CInv, NEW c \in Call, NEW p \in Id,
           \/ CreateOffer(c, p) \/ CreateAnswer(c, p) \/ SetRemoteDescription(c, p)
           \/ \E xs \in SUBSET Candidate : FailCandidates(c, p, xs)
           \/ \E x \in Candidate : AddIceCandidate(c, p, x)
    PROVE  /\ TypeOK' /\ Less /\ UNCHANGED <<calls, task, timers, stray>>
           /\ \A d \in Call, q \in Id : /\ conn'[d][q].open <=> conn[d][q].open
                                        /\ conn'[d][q].audio <=> conn[d][q].audio
                                        /\ conn'[d][q].video <=> conn[d][q].video
<1>1. UNCHANGED <<calls, signalling, timers, task, stray>>
    BY DEF CreateOffer, CreateAnswer, SetRemoteDescription, FailCandidates, AddIceCandidate
<1>2. conn[c][p] \in ConnRecord /\ ice[c][p] \in SUBSET Candidate
    BY DEF CInv, TypeOK
<1>3. /\ ice' \in [Call -> [Id -> SUBSET Candidate]]
      /\ accepted' \in [Call -> [Id -> SUBSET Candidate]]
  <2>1. CASE CreateOffer(c, p) \/ CreateAnswer(c, p)
    BY <2>1 DEF CreateOffer, CreateAnswer, CInv, TypeOK
  <2>2. CASE SetRemoteDescription(c, p)
    BY <2>2 DEF SetRemoteDescription, CInv, TypeOK
  <2>3. ASSUME NEW x \in Candidate, AddIceCandidate(c, p, x)
        PROVE  /\ ice' \in [Call -> [Id -> SUBSET Candidate]]
               /\ accepted' \in [Call -> [Id -> SUBSET Candidate]]
    <3>1. ice \in [Call -> [Id -> SUBSET Candidate]] /\ accepted \in [Call -> [Id -> SUBSET Candidate]]
      BY DEF CInv, TypeOK
    <3>2. accepted' = [accepted EXCEPT ![c][p] = accepted[c][p] \cup {x}]
      BY <2>3 DEF AddIceCandidate
    <3>3. ice' = ice \/ ice' = [ice EXCEPT ![c][p] = ice[c][p] \cup {x}]
      BY <2>3 DEF AddIceCandidate
    <3>4. accepted[c][p] \cup {x} \in SUBSET Candidate /\ ice[c][p] \cup {x} \in SUBSET Candidate
      BY <3>1
    <3>5. accepted' \in [Call -> [Id -> SUBSET Candidate]]
      BY <3>1, <3>2, <3>4
    <3>6. ice' \in [Call -> [Id -> SUBSET Candidate]]
      <4>1. CASE ice' = [ice EXCEPT ![c][p] = ice[c][p] \cup {x}]
        BY <3>1, <3>4, <4>1
      <4>2. QED
        BY <3>1, <3>3, <4>1
    <3>7. QED
      BY <3>5, <3>6
  <2>4. ASSUME NEW xs \in SUBSET Candidate, FailCandidates(c, p, xs)
        PROVE  /\ ice' \in [Call -> [Id -> SUBSET Candidate]]
               /\ accepted' \in [Call -> [Id -> SUBSET Candidate]]
    <3>1. ice \in [Call -> [Id -> SUBSET Candidate]] /\ accepted \in [Call -> [Id -> SUBSET Candidate]]
      BY DEF CInv, TypeOK
    <3>2. /\ ice' = [ice EXCEPT ![c][p] = {}]
          /\ accepted' = [accepted EXCEPT ![c][p] = accepted[c][p] \ (ice[c][p] \ xs)]
      BY <2>4 DEF FailCandidates
    <3>3. accepted[c][p] \ (ice[c][p] \ xs) \in SUBSET Candidate
      BY <3>1
    <3>4. QED
      BY <3>1, <3>2, <3>3, Cell
  <2>5. QED
    BY <2>1, <2>2, <2>3, <2>4
<1>4. PICK k \in ConnRecord :
          /\ conn' = conn \/ (conn[c][p].open /\ k.open /\ conn' = [conn EXCEPT ![c][p] = k])
          /\ k.audio <=> conn[c][p].audio
          /\ k.video <=> conn[c][p].video
  <2>1. CASE CreateOffer(c, p)
    <3>1. WithOffer(conn[c][p]) \in ConnRecord
      BY <1>2, ConnChange
    <3>2. /\ WithOffer(conn[c][p]).open <=> conn[c][p].open
          /\ WithOffer(conn[c][p]).audio <=> conn[c][p].audio
          /\ WithOffer(conn[c][p]).video <=> conn[c][p].video
      BY <1>2 DEF WithOffer, ConnRecord
    <3>3. QED
      BY <2>1, <3>1, <3>2 DEF CreateOffer
  <2>2. CASE CreateAnswer(c, p)
    <3>1. WithAnswer(conn[c][p]) \in ConnRecord
      BY <1>2, ConnChange
    <3>2. /\ WithAnswer(conn[c][p]).open <=> conn[c][p].open
          /\ WithAnswer(conn[c][p]).audio <=> conn[c][p].audio
          /\ WithAnswer(conn[c][p]).video <=> conn[c][p].video
      BY <1>2 DEF WithAnswer, ConnRecord
    <3>3. QED
      BY <2>2, <3>1, <3>2 DEF CreateAnswer
  <2>3. CASE SetRemoteDescription(c, p)
    <3> DEFINE k == WithCandidates(WithRemote(conn[c][p]), ice[c][p])
    <3>1. k \in ConnRecord
      BY <1>2 DEF WithCandidates, WithRemote, ConnRecord
    <3>2. /\ k.open <=> conn[c][p].open
          /\ k.audio <=> conn[c][p].audio
          /\ k.video <=> conn[c][p].video
      BY <1>2 DEF WithCandidates, WithRemote, ConnRecord
    <3>3. QED
      BY <2>3, <3>1, <3>2 DEF SetRemoteDescription
  <2>4. ASSUME NEW x \in Candidate, AddIceCandidate(c, p, x)
        PROVE  \E k \in ConnRecord :
                 /\ conn' = conn \/ (conn[c][p].open /\ k.open /\ conn' = [conn EXCEPT ![c][p] = k])
                 /\ k.audio <=> conn[c][p].audio
                 /\ k.video <=> conn[c][p].video
    <3> DEFINE k == WithCandidates(conn[c][p], {x})
    <3>1. k \in ConnRecord
      BY <1>2 DEF WithCandidates, ConnRecord
    <3>2. /\ k.open <=> conn[c][p].open
          /\ k.audio <=> conn[c][p].audio
          /\ k.video <=> conn[c][p].video
      BY <1>2 DEF WithCandidates, ConnRecord
    <3>3. QED
      BY <2>4, <3>1, <3>2 DEF AddIceCandidate
  <2>5. ASSUME NEW xs \in SUBSET Candidate, FailCandidates(c, p, xs)
        PROVE  \E k \in ConnRecord :
                 /\ conn' = conn \/ (conn[c][p].open /\ k.open /\ conn' = [conn EXCEPT ![c][p] = k])
                 /\ k.audio <=> conn[c][p].audio
                 /\ k.video <=> conn[c][p].video
    <3> DEFINE k == WithCandidates(WithRemote(conn[c][p]), xs)
    <3>1. k \in ConnRecord
      BY <1>2 DEF WithCandidates, WithRemote, ConnRecord
    <3>2. /\ k.open <=> conn[c][p].open
          /\ k.audio <=> conn[c][p].audio
          /\ k.video <=> conn[c][p].video
      BY <1>2 DEF WithCandidates, WithRemote, ConnRecord
    <3>3. QED
      BY <2>5, <3>1, <3>2 DEF FailCandidates
  <2>6. QED
    BY <2>1, <2>2, <2>3, <2>4, <2>5
<1>5. /\ task' \in [Task -> TaskRecord] /\ \A u \in Task : task'[u] = task[u] \/ task'[u] = Idle
      /\ CacheTypes' /\ UNCHANGED <<calls, signalling, timers>>
    BY <1>1, <1>3 DEF CInv, TypeOK, CacheTypes
<1>6. /\ TypeOK' /\ Less
      /\ \A d \in Call, q \in Id : (conn'[d][q].open <=> conn[d][q].open)
      /\ \A d \in Call, q \in Id : conn'[d][q] = conn[d][q] \/ (d = c /\ q = p /\ conn'[d][q] = k)
    BY <1>4, <1>5, SameLinksLess
<1>7. QED
    BY <1>1, <1>4, <1>6

--------------------------------------------------------------------------------
\* Steps that set up a call, answer it or connect it

\* The limits are checked.
LEMMA CheckLimitCInv ==
    ASSUME CInv, NEW t \in Task, Initiate(t)
    PROVE  /\ CInv' /\ UNCHANGED <<calls, timers, media>>
           /\ t \in Caller /\ task[t] = Idle /\ Cardinality(Live) < MaxConcurrent
           /\ task'[t].op = "store" /\ \A u \in Task : u # t => task'[u] = task[u]
<1>1. PICK c \in Call, p \in Id, ps \in SUBSET Id : CheckLimit(t, c, p, ps)
    BY DEF Initiate
<1>2. /\ task[t] = Idle /\ c \in Fresh /\ Cardinality(Live) < MaxConcurrent /\ t \in Caller
      /\ UNCHANGED <<calls, signalling, timers, media>>
    BY <1>1 DEF CheckLimit, Initiate
<1>3. /\ task' \in [Task -> TaskRecord]
      /\ task'[t].op = "store" /\ task'[t].call = c /\ task'[t].who = p
      /\ \A u \in Task : u # t => task'[u] = task[u]
    BY <1>1 DEF CheckLimit, CInv, TypeOK, Idle, TaskRecord
<1>4. calls[c].state = "None" /\ \A u \in Task : task[u].op = "store" => task[u].call # c
    BY <1>2 DEF Fresh
<1>5. TypeOK'
    BY <1>2, <1>3 DEF CInv, TypeOK, signalling, media
<1>6. \A u \in Task : u # t => (SettingUp(u)' <=> SettingUp(u))
    BY <1>3 DEF SettingUp
<1>7. TaskInv'
    BY <1>2, <1>3, <1>6 DEF CInv, TaskInv
<1>8. \A u \in Task : SettingUp(u) => task[u].call # c
    BY <1>4 DEF SettingUp, CInv, FreshInv
<1>9. SetupInv'
    BY <1>3, <1>6, <1>8 DEF CInv, SetupInv
<1>10. FreshInv'
    BY <1>2, <1>3, <1>4 DEF CInv, FreshInv
<1>11. \A d \in Call : Pending(d)' => Pending(d)
    BY <1>3 DEF Pending
<1>12. AnswerInv'
    BY <1>2, <1>11 DEF CInv, AnswerInv
<1>13. ConnectInv'
  <2>1. \A u \in Task : task'[u].op = "connect" => u # t /\ task'[u] = task[u]
    BY <1>3
  <2>2. UNCHANGED <<calls, conn>>
    BY <1>2 DEF media
  <2>3. QED
    BY <2>1, <2>2 DEF CInv, ConnectInv
<1>14. QED
    BY <1>2, <1>3, <1>5, <1>7, <1>9, <1>10, <1>12, <1>13 DEF CInv

\* The call is stored.
LEMMA StoreCInv ==
    ASSUME CInv, NEW t \in Task, NEW v \in BOOLEAN, NEW m \in BOOLEAN, StoreCall(t, v, m)
    PROVE  /\ CInv' /\ UNCHANGED <<timers, media>>
           /\ task[t].op = "store" /\ task[t].call \in Call
           /\ task'[t].op = "invite" /\ task'[t].call = task[t].call
           /\ \A u \in Task : u # t => task'[u] = task[u]
           /\ \A d \in Call : d # task[t].call => calls'[d] = calls[d]
           /\ calls[task[t].call].state = "None" /\ calls'[task[t].call].state = "Initiating"
           /\ calls'[task[t].call].joined = {}
<1> DEFINE c == task[t].call
           r == NewCall(task[t].who, task[t].ps, v, m)
<1>1. /\ task[t].op = "store" /\ c \in Call /\ task[t].who \in Id /\ task[t].ps \in SUBSET Id
      /\ UNCHANGED <<signalling, timers, media>>
    BY DEF StoreCall, At, CInv, TaskInv, TypeOK, TaskRecord
<1>2. /\ r \in CallRecord /\ r.state = "Initiating" /\ r.joined = {}
      /\ \A p \in Id : r.part[p] # "Connecting"
    BY <1>1 DEF NewCall, CallRecord, CallState, ParticipantState
<1>3. calls' = [calls EXCEPT ![c] = r]
    BY DEF StoreCall
<1> HIDE DEF r
<1>4. calls' \in [Call -> CallRecord] /\ calls'[c] = r /\ \A d \in Call : d # c => calls'[d] = calls[d]
    BY <1>1, <1>2, <1>3 DEF CInv, TypeOK
<1>5. /\ task' \in [Task -> TaskRecord]
      /\ task'[t].op = "invite" /\ task'[t].call = c /\ task'[t].who = task[t].who
      /\ \A u \in Task : u # t => task'[u] = task[u]
  <2>1. task' = [task EXCEPT ![t] = [task[t] EXCEPT !.op = "invite", !.ps = {}]]
    BY DEF StoreCall, CInv, TypeOK, TaskRecord
  <2>2. task[t] \in TaskRecord
    BY DEF CInv, TypeOK
  <2>3. /\ [task[t] EXCEPT !.op = "invite", !.ps = {}] \in TaskRecord
        /\ [task[t] EXCEPT !.op = "invite", !.ps = {}].op = "invite"
        /\ [task[t] EXCEPT !.op = "invite", !.ps = {}].call = c
        /\ [task[t] EXCEPT !.op = "invite", !.ps = {}].who = task[t].who
    BY <2>2 DEF TaskRecord
  <2>4. QED
    BY <2>1, <2>3 DEF CInv, TypeOK
<1>6. calls[c].state = "None" /\ calls[c] = NoCall
    BY <1>1 DEF CInv, FreshInv
<1> HIDE DEF c
<1>7. TypeOK'
    BY <1>1, <1>4, <1>5 DEF CInv, TypeOK, signalling, media
<1>8. \A u \in Task : SettingUp(u)' <=> SettingUp(u)
    BY <1>1, <1>5 DEF SettingUp
<1>9. TaskInv'
    BY <1>1, <1>5, <1>8 DEF CInv, TaskInv, c
<1>10. SetupInv'
    BY <1>5, <1>8 DEF CInv, SetupInv, c
<1>11. \A u \in Task : u # t /\ task[u].op # "idle" => task[u].call # c
  <2>1. SUFFICES ASSUME NEW u \in Task, u # t, task[u].op # "idle", task[u].call = c PROVE FALSE
    OBVIOUS
  <2>2. task[u].op = "store"
    BY <1>6, <2>1 DEF CInv, FreshInv
  <2>3. SettingUp(u) /\ SettingUp(t)
    BY <1>1, <2>2 DEF SettingUp
  <2>4. QED
    BY <2>1, <2>3 DEF CInv, SetupInv, c
<1>12. FreshInv'
  <2>1. \A d \in Call : calls'[d].state = "None" => calls'[d] = NoCall
    BY <1>2, <1>4 DEF CInv, FreshInv
  <2>2. \A u \in Task : task'[u].op # "idle" =>
           (calls'[task'[u].call].state = "None" <=> task'[u].op = "store")
    BY <1>1, <1>2, <1>4, <1>5, <1>11 DEF CInv, FreshInv, TaskInv
  <2>3. QED
    BY <2>1, <2>2 DEF FreshInv
<1>13. \A d \in Call : d # c => (Pending(d)' <=> Pending(d))
    BY <1>1, <1>5 DEF Pending, c
<1>14. AnswerInv'
    BY <1>2, <1>4, <1>13 DEF CInv, AnswerInv
<1>15. ConnectInv'
  <2>1. UNCHANGED conn
    BY <1>1 DEF media
  <2>2. \A d \in Call : calls[d].joined \subseteq calls'[d].joined
    BY <1>4, <1>6, NoCallType
  <2>3. \A u \in Task : task'[u].op = "connect" => task'[u] = task[u] /\ task[u].call \in Call
    BY <1>5 DEF CInv, TaskInv
  <2>4. QED
    BY <2>1, <2>2, <2>3 DEF CInv, ConnectInv
<1>16. QED
    BY <1>1, <1>2, <1>4, <1>5, <1>6, <1>7, <1>9, <1>10, <1>12, <1>14, <1>15 DEF CInv, c

\* The invitations go out, or one of them fails.
LEMMA InviteCInv ==
    ASSUME CInv, NEW t \in Task, SendInvitations(t)
    PROVE  /\ CInv' /\ UNCHANGED <<calls, timers, media>>
           /\ task[t].op = "invite" /\ task[t].call \in Call
           /\ task'[t] = Idle \/ (task'[t].op = "ring" /\ task'[t].call = task[t].call)
           /\ \A u \in Task : u # t => task'[u] = task[u]
<1>1. /\ task[t].op = "invite" /\ task[t].call \in Call /\ task[t].who \in Id
      /\ UNCHANGED <<calls, signalling, timers, media>>
      /\ Goto(t, "ring") \/ Return(t)
    BY DEF SendInvitations, At, CInv, TaskInv
<1>2. CASE Return(t)
  <2>1. task' \in [Task -> TaskRecord] /\ task'[t] = Idle /\ \A u \in Task : u # t => task'[u] = task[u]
    BY <1>2, ReturnTask DEF CInv
  <2>2. TypeOK'
    BY <1>1, <2>1 DEF CInv, TypeOK, signalling, media
  <2>3. Less
    BY <1>1, <2>1 DEF Less, media
  <2>4. QED
    BY <1>1, <2>1, <2>2, <2>3, LessCInv
<1>3. CASE Goto(t, "ring")
  <2>1. /\ task' \in [Task -> TaskRecord]
        /\ task'[t].op = "ring" /\ task'[t].call = task[t].call /\ task'[t].who = task[t].who
        /\ \A u \in Task : u # t => task'[u] = task[u]
    <3>1. task \in [Task -> TaskRecord] /\ task[t] \in TaskRecord
      BY DEF CInv, TypeOK
    <3>2. task' = [task EXCEPT ![t].op = "ring"]
      BY <1>3 DEF Goto
    <3>3. QED
      BY <3>1, <3>2 DEF TaskRecord
  <2>2. TypeOK'
    BY <1>1, <2>1 DEF CInv, TypeOK, signalling, media
  <2>3. \A u \in Task : /\ task'[u].call = task[u].call /\ task'[u].who = task[u].who
                        /\ SettingUp(u)' <=> SettingUp(u)
                        /\ task'[u].op = task[u].op \/ (task[u].op = "invite" /\ task'[u].op = "ring")
    BY <1>1, <2>1 DEF SettingUp
  <2>4. TaskInv'
    BY <2>3 DEF CInv, TaskInv
  <2>5. SetupInv'
    BY <2>3 DEF CInv, SetupInv
  <2>6. FreshInv'
    BY <1>1, <2>3 DEF CInv, FreshInv
  <2>7. \A d \in Call : Pending(d)' => Pending(d)
    BY <2>3 DEF Pending
  <2>8. AnswerInv'
    BY <1>1, <2>7 DEF CInv, AnswerInv
  <2>9. ConnectInv'
    <3>1. UNCHANGED <<calls, conn>>
      BY <1>1 DEF media
    <3>2. QED
      BY <2>3, <3>1 DEF CInv, ConnectInv
  <2>10. QED
    BY <1>1, <2>1, <2>2, <2>4, <2>5, <2>6, <2>8, <2>9 DEF CInv
<1>4. QED
    BY <1>1, <1>2, <1>3

\* The call rings, whatever became of it during the setup.
LEMMA RingCInv ==
    ASSUME CInv, NEW t \in Task, Ring(t)
    PROVE  /\ CInv' /\ UNCHANGED media
           /\ task[t].op = "ring" /\ task[t].call \in Call
           /\ task'[t] = Idle /\ \A u \in Task : u # t => task'[u] = task[u]
           /\ \A d \in Call : d # task[t].call => calls'[d] = calls[d]
           /\ calls'[task[t].call].state = "Ringing" /\ calls'[task[t].call].joined = {}
           /\ calls[task[t].call].joined = {} /\ calls[task[t].call].state # "None"
           /\ \A d \in Call : Pending(d)' <=> Pending(d) /\ d # task[t].call
           /\ calls'[task[t].call] = [calls[task[t].call] EXCEPT !.state = "Ringing"]
<1> DEFINE c == task[t].call
           r == [calls[c] EXCEPT !.state = "Ringing"]
<1>1. task[t].op = "ring" /\ c \in Call /\ UNCHANGED <<signalling, media>> /\ Return(t)
    BY DEF Ring, At, CInv, TaskInv
<1>2. timers' \subseteq Call
    BY <1>1 DEF Ring, CInv, TypeOK
<1>3. task' \in [Task -> TaskRecord] /\ task'[t] = Idle /\ \A u \in Task : u # t => task'[u] = task[u]
    BY <1>1, ReturnTask DEF CInv
<1>4. calls' = [calls EXCEPT ![c] = r]
    BY DEF Ring
<1>5. /\ r \in CallRecord /\ r.state = "Ringing" /\ r.joined = calls[c].joined /\ r.part = calls[c].part
  <2>1. calls[c] \in CallRecord /\ "Ringing" \in CallState
    BY <1>1 DEF CInv, TypeOK, CallState
  <2>2. QED
    BY <2>1 DEF CallRecord
<1>6. calls' \in [Call -> CallRecord] /\ calls'[c] = r /\ \A d \in Call : d # c => calls'[d] = calls[d]
    BY <1>1, <1>4, <1>5 DEF CInv, TypeOK
<1>7. Pending(c)
    BY <1>1 DEF Pending
<1>8. calls[c].state # "None" /\ calls[c].joined = {}
    BY <1>1, <1>7 DEF CInv, FreshInv, AnswerInv
<1> HIDE DEF c, r
<1>9. \A u \in Task : task'[u].op \in {"invite", "ring"} => u # t /\ task'[u] = task[u] /\ task[u].call # c
  <2>1. \A u \in Task : SettingUp(u) /\ task[u].call = c => u = t
    BY <1>1 DEF CInv, SetupInv, SettingUp, c
  <2>2. QED
    BY <1>3, <2>1, IdleType DEF SettingUp
<1>10. TypeOK'
    BY <1>1, <1>2, <1>3, <1>6 DEF CInv, TypeOK, signalling, media
<1>11. \A u \in Task : SettingUp(u)' => SettingUp(u) /\ task'[u] = task[u]
    BY <1>3, IdleType DEF SettingUp
<1>12. TaskInv'
    BY <1>3, <1>11, IdleType DEF CInv, TaskInv
<1>13. SetupInv'
    BY <1>11 DEF CInv, SetupInv
<1>14. FreshInv'
  <2>1. \A d \in Call : calls'[d].state = "None" <=> calls[d].state = "None"
    BY <1>5, <1>6, <1>8
  <2>2. \A d \in Call : calls'[d].state = "None" => calls'[d] = NoCall
    BY <1>5, <1>6, <2>1 DEF CInv, FreshInv
  <2>3. \A u \in Task : task'[u].op # "idle" => task'[u] = task[u] /\ task[u].call \in Call
    BY <1>3, IdleType DEF CInv, TaskInv
  <2>4. QED
    BY <2>1, <2>2, <2>3 DEF CInv, FreshInv
<1>15. \A d \in Call : Pending(d)' <=> Pending(d) /\ d # c
  <2>1. \A u \in Task : task[u].op \in {"invite", "ring"} /\ task[u].call # c => task'[u] = task[u]
    BY <1>3 DEF c
  <2>2. QED
    BY <1>9, <2>1 DEF Pending
<1>16. AnswerInv'
    BY <1>5, <1>6, <1>8, <1>15 DEF CInv, AnswerInv
<1>17. ConnectInv'
  <2>1. UNCHANGED conn /\ \A d \in Call : calls'[d].joined = calls[d].joined
    BY <1>1, <1>5, <1>6 DEF media
  <2>2. \A u \in Task : task'[u].op = "connect" => task'[u] = task[u] /\ task[u].call \in Call
    BY <1>3, IdleType DEF CInv, TaskInv
  <2>3. QED
    BY <2>1, <2>2 DEF CInv, ConnectInv
<1>18. CInv'
    BY <1>10, <1>12, <1>13, <1>14, <1>16, <1>17 DEF CInv
<1>19. QED
    BY <1>1, <1>3, <1>5, <1>6, <1>8, <1>15, <1>18 DEF c, r

\* The first to accept makes the call active.
LEMMA AcceptCInv ==
    ASSUME CInv, NEW t \in Task, NEW c \in Call, NEW p \in Id, AcceptCall(t, c, p)
    PROVE  /\ CInv' /\ UNCHANGED <<timers, media>>
           /\ task[t] = Idle /\ task'[t].op = "connect" /\ task'[t].call = c
           /\ \A u \in Task : u # t => task'[u] = task[u]
           /\ \A d \in Call : d # c => calls'[d] = calls[d]
           /\ calls[c].state = "Ringing" /\ calls'[c].state = "Active"
           /\ calls[c].joined = {} /\ calls'[c].joined = {p}
           /\ ~Pending(c)
           /\ calls'[c].muted = calls[c].muted /\ calls'[c].video = calls[c].video
           /\ calls'[c].sharing = calls[c].sharing
<1> DEFINE part == [calls[c].part EXCEPT ![p] = "Connecting"]
           state == IF Cardinality({q \in Id : part[q] = "Connecting"}) = 1
                    THEN "Active" ELSE calls[c].state
           r == [calls[c] EXCEPT !.part = part, !.joined = calls[c].joined \cup {p}, !.state = state]
<1>1. /\ calls[c].state = "Ringing" /\ Begin(t, "connect", c, p)
      /\ UNCHANGED <<signalling, timers, media>>
    BY DEF AcceptCall
<1>2. /\ task' \in [Task -> TaskRecord] /\ task[t] = Idle
      /\ task'[t].op = "connect" /\ task'[t].call = c /\ task'[t].who = p
      /\ \A u \in Task : u # t => task'[u] = task[u]
    BY <1>1, BeginTask DEF CInv
<1>3. calls[c] \in CallRecord /\ calls[c].joined = {} /\ ~Pending(c)
    BY <1>1 DEF CInv, TypeOK, AnswerInv
<1>4. /\ part \in [Id -> ParticipantState]
      /\ \A q \in Id : part[q] = "Connecting" <=> q = p
    BY <1>3 DEF CInv, AnswerInv, CallRecord, ParticipantState
<1>5. state = "Active"
  <2>1. {q \in Id : part[q] = "Connecting"} = {p}
    BY <1>4
  <2>2. QED
    BY <2>1, FS_Singleton
<1>6. calls' = [calls EXCEPT ![c] = r]
    BY <1>3 DEF AcceptCall, CInv, TypeOK, CallRecord
<1> HIDE DEF part, state
<1>7. /\ r \in CallRecord /\ r.state = "Active" /\ r.joined = {p} /\ r.part = part
      /\ r.muted = calls[c].muted /\ r.video = calls[c].video /\ r.sharing = calls[c].sharing
    BY <1>3, <1>4, <1>5 DEF CallRecord, CallState
<1> HIDE DEF r
<1>8. calls' \in [Call -> CallRecord] /\ calls'[c] = r /\ \A d \in Call : d # c => calls'[d] = calls[d]
    BY <1>6, <1>7 DEF CInv, TypeOK
<1>9. TypeOK'
    BY <1>1, <1>2, <1>8 DEF CInv, TypeOK, signalling, media
<1>10. \A u \in Task : SettingUp(u)' => SettingUp(u) /\ task'[u] = task[u]
    BY <1>2 DEF SettingUp
<1>11. TaskInv'
    BY <1>2, <1>10 DEF CInv, TaskInv
<1>12. SetupInv'
    BY <1>10 DEF CInv, SetupInv
<1>13. FreshInv'
  <2>1. \A d \in Call : calls'[d].state = "None" <=> calls[d].state = "None"
    BY <1>1, <1>7, <1>8
  <2>2. \A d \in Call : calls'[d].state = "None" => calls'[d] = NoCall
    BY <1>7, <1>8, <2>1 DEF CInv, FreshInv
  <2>3. \A u \in Task : u # t /\ task'[u].op # "idle" => task'[u] = task[u] /\ task[u].call \in Call
    BY <1>2 DEF CInv, TaskInv
  <2>4. \A u \in Task : task'[u].op # "idle" =>
           (calls'[task'[u].call].state = "None" <=> task'[u].op = "store")
    BY <1>2, <1>7, <1>8, <2>1, <2>3 DEF CInv, FreshInv
  <2>5. QED
    BY <2>2, <2>4 DEF FreshInv
<1>14. \A d \in Call : Pending(d)' => Pending(d)
    BY <1>2 DEF Pending
<1>15. AnswerInv'
    BY <1>3, <1>4, <1>7, <1>8, <1>14 DEF CInv, AnswerInv
<1>16. ConnectInv'
  <2>1. UNCHANGED conn /\ \A d \in Call : calls[d].joined \subseteq calls'[d].joined
    BY <1>1, <1>3, <1>7, <1>8 DEF media
  <2>2. \A q \in Id : ~conn[c][q].open
    BY <1>3 DEF CInv, ConnectInv
  <2>3. \A u \in Task : task[u].op = "connect" => task[u].call # c /\ task[u].call \in Call
    BY <1>3 DEF CInv, ConnectInv, TaskInv
  <2>4. \A d \in Call, q \in Id : conn'[d][q].open => q \in calls'[d].joined
    BY <2>1 DEF CInv, ConnectInv
  <2>5. \A u \in Task : task'[u].op = "connect" =>
          /\ task'[u].who \in calls'[task'[u].call].joined
          /\ \A q \in Id : ~conn'[task'[u].call][q].open
    BY <1>2, <1>7, <1>8, <2>1, <2>2, <2>3 DEF CInv, ConnectInv
  <2>6. \A u, v \in Task : task'[u].op = "connect" /\ task'[v].op = "connect"
                           /\ task'[u].call = task'[v].call => u = v
    BY <1>2, <2>3 DEF CInv, ConnectInv
  <2>7. QED
    BY <2>4, <2>5, <2>6 DEF ConnectInv
<1>17. CInv'
    BY <1>9, <1>11, <1>12, <1>13, <1>15, <1>16 DEF CInv
<1>18. QED
    BY <1>1, <1>2, <1>3, <1>7, <1>8, <1>17

\* Who answered is connected, or that fails.
LEMMA EstablishCInv ==
    ASSUME CInv, NEW t \in Task, EstablishPeerConnection(t)
    PROVE  /\ CInv' /\ UNCHANGED <<calls, timers, ice, accepted, stray>>
           /\ task[t].op = "connect" /\ task[t].call \in Call /\ task[t].who \in Id
           /\ task'[t] = Idle /\ \A u \in Task : u # t => task'[u] = task[u]
           /\ \A q \in Id : ~conn[task[t].call][q].open
           /\ conn' = conn \/ conn' = [conn EXCEPT ![task[t].call][task[t].who] = NewConn]
           /\ \A d \in Call, q \in Id :
                 \/ conn'[d][q] = conn[d][q]
                 \/ d = task[t].call /\ q = task[t].who /\ conn'[d][q] = NewConn
           /\ \A d \in Call : d = task[t].call => ~Connecting(d)'
           /\ calls[task[t].call].joined # {}
<1> DEFINE c == task[t].call
           p == task[t].who
<1>1. task[t].op = "connect" /\ c \in Call /\ p \in Id
    BY DEF EstablishPeerConnection, At, CInv, TaskInv
<1>2. /\ Return(t) /\ UNCHANGED <<calls, signalling, timers, ice, accepted, stray>>
      /\ conn' = conn \/ conn' = [conn EXCEPT ![c][p] = NewConn]
    BY DEF EstablishPeerConnection, CreatePeerConnection
<1>3. task' \in [Task -> TaskRecord] /\ task'[t] = Idle /\ \A u \in Task : u # t => task'[u] = task[u]
    BY <1>2, ReturnTask DEF CInv
<1>4. p \in calls[c].joined /\ \A q \in Id : ~conn[c][q].open
    BY <1>1 DEF CInv, ConnectInv
<1>5. \A u \in Task : task'[u].op = "connect" =>
          /\ task'[u] = task[u] /\ task[u].call # c /\ task[u].call \in Call
    BY <1>1, <1>3, IdleType DEF CInv, ConnectInv, TaskInv
<1> HIDE DEF c, p
<1>6. /\ conn' \in [Call -> [Id -> ConnRecord]]
      /\ \A d \in Call, q \in Id : conn'[d][q] = conn[d][q] \/ (d = c /\ q = p /\ conn'[d][q] = NewConn)
  <2>1. CASE conn' = conn
    BY <2>1 DEF CInv, TypeOK
  <2>2. CASE conn' = [conn EXCEPT ![c][p] = NewConn]
    <3>1. conn \in [Call -> [Id -> ConnRecord]] /\ NewConn \in ConnRecord /\ c \in Call /\ p \in Id
      BY <1>1, ConnType DEF CInv, TypeOK, c, p
    <3>2. QED
      BY <2>2, <3>1
  <2>3. QED
    BY <1>2, <2>1, <2>2
<1>7. TypeOK'
  <2>1. \A d \in Call, q \in Id : conn'[d][q].open \/ conn'[d][q] = NoConn
    <3>1. \A d \in Call, q \in Id : conn[d][q].open \/ conn[d][q] = NoConn
      BY DEF CInv, TypeOK
    <3>2. QED
      BY <1>6, <3>1, ConnType
  <2>2. QED
    BY <1>2, <1>3, <1>6, <2>1 DEF CInv, TypeOK, signalling
<1>8. \A u \in Task : task'[u].op # "idle" => task'[u] = task[u]
    BY <1>3, IdleType
<1>9. TaskInv' /\ SetupInv' /\ FreshInv'
    BY <1>2, <1>8 DEF CInv, TaskInv, SetupInv, FreshInv, SettingUp
<1>10. AnswerInv'
  <2>1. \A d \in Call : Pending(d)' => Pending(d)
    BY <1>8 DEF Pending
  <2>2. QED
    BY <1>2, <2>1 DEF CInv, AnswerInv
<1>11. ConnectInv'
  <2>1. \A d \in Call, q \in Id : conn'[d][q].open => q \in calls'[d].joined
    BY <1>2, <1>4, <1>6 DEF CInv, ConnectInv
  <2>2. QED
    BY <1>2, <1>5, <1>6, <2>1 DEF CInv, ConnectInv
<1>12. CInv'
    BY <1>7, <1>9, <1>10, <1>11 DEF CInv
<1>13. \A d \in Call : d = c => ~Connecting(d)'
    BY <1>5 DEF Connecting
<1>14. QED
    BY <1>1, <1>2, <1>3, <1>4, <1>6, <1>12, <1>13 DEF c, p

\* toggle_mute, toggle_video and start_screen_share: the flag in the table says
\* what the task is about to do with the track.
LEMMA ToggleCInv ==
    ASSUME CInv, NEW t \in Task, NEW c \in Call, NEW p \in Id,
           ToggleMute(t, c, p) \/ ToggleVideo(t, c, p) \/ StartScreenShare(t, c, p)
    PROVE  /\ CInv' /\ Less /\ UNCHANGED <<conn, ice, accepted>>
           /\ task[t] = Idle /\ StrayStep(task'[t].op, c, p)
           /\ task'[t].op \in {"audio", "video", "screen"}
           /\ task'[t].call = c /\ task'[t].who = p
           /\ \A u \in Task : u # t => task'[u] = task[u]
           /\ \A d \in Call : calls'[d].state = calls[d].state /\ calls'[d].joined = calls[d].joined
           /\ \A d \in Call, q \in Id : d # c \/ q # p =>
                 /\ q \in calls'[d].muted <=> q \in calls[d].muted
                 /\ q \in calls'[d].video <=> q \in calls[d].video
                 /\ q \in calls'[d].sharing <=> q \in calls[d].sharing
           /\ IF task'[t].op = "audio" THEN task'[t].on <=> p \notin calls'[c].muted
              ELSE p \in calls'[c].muted <=> p \in calls[c].muted
           /\ IF task'[t].op = "video" THEN task'[t].on <=> p \in calls'[c].video
              ELSE p \in calls'[c].video <=> p \in calls[c].video
           /\ IF task'[t].op = "screen" THEN p \in calls'[c].sharing
              ELSE p \in calls'[c].sharing <=> p \in calls[c].sharing
<1>1. calls[c] \in CallRecord /\ calls \in [Call -> CallRecord]
    BY DEF CInv, TypeOK
<1>2. calls[c].muted \in SUBSET Id /\ calls[c].video \in SUBSET Id /\ calls[c].sharing \in SUBSET Id
    BY <1>1 DEF CallRecord
<1>3. CASE ToggleMute(t, c, p)
  <2> DEFINE on == ~(p \notin calls[c].muted)
             muted == IF p \notin calls[c].muted THEN calls[c].muted \cup {p} ELSE calls[c].muted \ {p}
  <2>1. Change(t, c, p, "audio", on) /\ on \in BOOLEAN /\ muted \in SUBSET Id
        /\ (on <=> p \notin muted) /\ \A q \in Id : q # p => (q \in muted <=> q \in calls[c].muted)
    BY <1>2, <1>3 DEF ToggleMute
  <2>2. calls' = [calls EXCEPT ![c] = [calls[c] EXCEPT !.muted = muted, !.video = calls[c].video,
                                                       !.sharing = calls[c].sharing]]
    BY <1>1, <1>3 DEF ToggleMute, CallRecord
  <2> HIDE DEF on, muted
  <2>3. /\ TypeOK' /\ Less /\ UNCHANGED <<conn, ice, accepted>>
        /\ task[t] = Idle /\ StrayStep("audio", c, p)
        /\ task'[t].op = "audio" /\ task'[t].call = c /\ task'[t].who = p /\ (task'[t].on <=> on)
        /\ \A u \in Task : u # t => task'[u] = task[u]
        /\ \A d \in Call : d # c => calls'[d] = calls[d]
        /\ calls'[c].muted = muted /\ calls'[c].video = calls[c].video
        /\ calls'[c].sharing = calls[c].sharing
        /\ \A d \in Call : calls'[d].state = calls[d].state /\ calls'[d].joined = calls[d].joined
    <3>1. /\ calls' \in [Call -> CallRecord]
          /\ calls'[c].muted = muted /\ calls'[c].video = calls[c].video /\ calls'[c].sharing = calls[c].sharing
          /\ \A d \in Call : /\ calls'[d].state = calls[d].state /\ calls'[d].joined = calls[d].joined
                             /\ calls'[d].part = calls[d].part
                             /\ d # c => calls'[d] = calls[d]
      BY <1>1, <1>2, <2>1, <2>2 DEF CallRecord
    <3>2. task'[t].on <=> on
      BY <2>1, ToggleOn
    <3>3. \E flag \in BOOLEAN : Change(t, c, p, "audio", flag)
      BY <2>1
    <3>4. /\ TypeOK' /\ Less /\ UNCHANGED <<conn, ice, accepted>>
          /\ task[t] = Idle /\ StrayStep("audio", c, p)
          /\ task'[t].op = "audio" /\ task'[t].call = c /\ task'[t].who = p
          /\ \A u \in Task : u # t => task'[u] = task[u]
      BY <3>1, <3>3, ToggleLess
    <3>5. QED
      BY <3>1, <3>2, <3>4
  <2>4. CInv'
    BY <2>3, LessCInv
  <2>5. \A d \in Call, q \in Id : d # c \/ q # p =>
                 /\ q \in calls'[d].muted <=> q \in calls[d].muted
                 /\ q \in calls'[d].video <=> q \in calls[d].video
                 /\ q \in calls'[d].sharing <=> q \in calls[d].sharing
    BY <2>1, <2>3
  <2>6. /\ task'[t].op = "audio"
        /\ task'[t].on <=> p \notin calls'[c].muted
        /\ p \in calls'[c].video <=> p \in calls[c].video
        /\ p \in calls'[c].sharing <=> p \in calls[c].sharing
    BY <2>1, <2>3
  <2>7. QED
    BY <2>3, <2>4, <2>5, <2>6
<1>4. CASE ToggleVideo(t, c, p)
  <2> DEFINE on == p \notin calls[c].video
             video == IF p \notin calls[c].video THEN calls[c].video \cup {p} ELSE calls[c].video \ {p}
  <2>1. Change(t, c, p, "video", on) /\ on \in BOOLEAN /\ video \in SUBSET Id
        /\ (on <=> p \in video) /\ \A q \in Id : q # p => (q \in video <=> q \in calls[c].video)
    BY <1>2, <1>4 DEF ToggleVideo
  <2>2. calls' = [calls EXCEPT ![c] = [calls[c] EXCEPT !.muted = calls[c].muted, !.video = video,
                                                       !.sharing = calls[c].sharing]]
    BY <1>1, <1>4 DEF ToggleVideo, CallRecord
  <2> HIDE DEF on, video
  <2>3. /\ TypeOK' /\ Less /\ UNCHANGED <<conn, ice, accepted>>
        /\ task[t] = Idle /\ StrayStep("video", c, p)
        /\ task'[t].op = "video" /\ task'[t].call = c /\ task'[t].who = p /\ (task'[t].on <=> on)
        /\ \A u \in Task : u # t => task'[u] = task[u]
        /\ \A d \in Call : d # c => calls'[d] = calls[d]
        /\ calls'[c].muted = calls[c].muted /\ calls'[c].video = video
        /\ calls'[c].sharing = calls[c].sharing
        /\ \A d \in Call : calls'[d].state = calls[d].state /\ calls'[d].joined = calls[d].joined
    <3>1. /\ calls' \in [Call -> CallRecord]
          /\ calls'[c].muted = calls[c].muted /\ calls'[c].video = video /\ calls'[c].sharing = calls[c].sharing
          /\ \A d \in Call : /\ calls'[d].state = calls[d].state /\ calls'[d].joined = calls[d].joined
                             /\ calls'[d].part = calls[d].part
                             /\ d # c => calls'[d] = calls[d]
      BY <1>1, <1>2, <2>1, <2>2 DEF CallRecord
    <3>2. task'[t].on <=> on
      BY <2>1, ToggleOn
    <3>3. \E flag \in BOOLEAN : Change(t, c, p, "video", flag)
      BY <2>1
    <3>4. /\ TypeOK' /\ Less /\ UNCHANGED <<conn, ice, accepted>>
          /\ task[t] = Idle /\ StrayStep("video", c, p)
          /\ task'[t].op = "video" /\ task'[t].call = c /\ task'[t].who = p
          /\ \A u \in Task : u # t => task'[u] = task[u]
      BY <3>1, <3>3, ToggleLess
    <3>5. QED
      BY <3>1, <3>2, <3>4
  <2>4. CInv'
    BY <2>3, LessCInv
  <2>5. \A d \in Call, q \in Id : d # c \/ q # p =>
                 /\ q \in calls'[d].muted <=> q \in calls[d].muted
                 /\ q \in calls'[d].video <=> q \in calls[d].video
                 /\ q \in calls'[d].sharing <=> q \in calls[d].sharing
    BY <2>1, <2>3
  <2>6. /\ task'[t].op = "video"
        /\ task'[t].on <=> p \in calls'[c].video
        /\ p \in calls'[c].muted <=> p \in calls[c].muted
        /\ p \in calls'[c].sharing <=> p \in calls[c].sharing
    BY <2>1, <2>3
  <2>7. QED
    BY <2>3, <2>4, <2>5, <2>6
<1>5. CASE StartScreenShare(t, c, p)
  <2>1. Change(t, c, p, "screen", TRUE) /\ calls[c].sharing \cup {p} \in SUBSET Id
    BY <1>2, <1>5 DEF StartScreenShare
  <2>2. calls' = [calls EXCEPT ![c] = [calls[c] EXCEPT !.muted = calls[c].muted, !.video = calls[c].video,
                                                       !.sharing = calls[c].sharing \cup {p}]]
    BY <1>1, <1>5 DEF StartScreenShare, CallRecord
  <2>3. /\ TypeOK' /\ Less /\ UNCHANGED <<conn, ice, accepted>>
        /\ task[t] = Idle /\ StrayStep("screen", c, p)
        /\ task'[t].op = "screen" /\ task'[t].call = c /\ task'[t].who = p /\ (task'[t].on <=> TRUE)
        /\ \A u \in Task : u # t => task'[u] = task[u]
        /\ \A d \in Call : d # c => calls'[d] = calls[d]
        /\ calls'[c].muted = calls[c].muted /\ calls'[c].video = calls[c].video
        /\ calls'[c].sharing = calls[c].sharing \cup {p}
        /\ \A d \in Call : calls'[d].state = calls[d].state /\ calls'[d].joined = calls[d].joined
    <3>1. /\ calls' \in [Call -> CallRecord]
          /\ calls'[c].muted = calls[c].muted /\ calls'[c].video = calls[c].video
          /\ calls'[c].sharing = calls[c].sharing \cup {p}
          /\ \A d \in Call : /\ calls'[d].state = calls[d].state /\ calls'[d].joined = calls[d].joined
                             /\ calls'[d].part = calls[d].part
                             /\ d # c => calls'[d] = calls[d]
      BY <1>1, <1>2, <2>1, <2>2 DEF CallRecord
    <3>2. task'[t].on <=> TRUE
      BY <2>1, ToggleOn
    <3>3. \E flag \in BOOLEAN : Change(t, c, p, "screen", flag)
      BY <2>1
    <3>4. /\ TypeOK' /\ Less /\ UNCHANGED <<conn, ice, accepted>>
          /\ task[t] = Idle /\ StrayStep("screen", c, p)
          /\ task'[t].op = "screen" /\ task'[t].call = c /\ task'[t].who = p
          /\ \A u \in Task : u # t => task'[u] = task[u]
      BY <3>1, <3>3, ToggleLess
    <3>5. QED
      BY <3>1, <3>2, <3>4
  <2>4. CInv'
    BY <2>3, LessCInv
  <2>5. \A d \in Call, q \in Id : d # c \/ q # p =>
                 /\ q \in calls'[d].muted <=> q \in calls[d].muted
                 /\ q \in calls'[d].video <=> q \in calls[d].video
                 /\ q \in calls'[d].sharing <=> q \in calls[d].sharing
    BY <2>3
  <2>6. /\ task'[t].op = "screen"
        /\ p \in calls'[c].sharing
        /\ p \in calls'[c].muted <=> p \in calls[c].muted
        /\ p \in calls'[c].video <=> p \in calls[c].video
    BY <2>3
  <2>7. QED
    BY <2>3, <2>4, <2>5, <2>6
<1>6. QED
    BY <1>3, <1>4, <1>5

--------------------------------------------------------------------------------
\* The invariant

LEMMA InitCInv == Init => CInv
<1>1. SUFFICES ASSUME Init PROVE CInv
    OBVIOUS
<1>2. TypeOK
  <2>1. calls \in [Call -> CallRecord]
    BY <1>1, NoCallType DEF Init
  <2>2. task \in [Task -> TaskRecord]
    BY <1>1, IdleType DEF Init
  <2>3. /\ conn \in [Call -> [Id -> ConnRecord]]
        /\ \A c \in Call, p \in Id : conn[c][p].open \/ conn[c][p] = NoConn
    BY <1>1, ConnType DEF Init
  <2>4. listening \in BOOLEAN
    BY <1>1 DEF Init
  <2>5. QED
    BY <1>1, <2>1, <2>2, <2>3, <2>4 DEF Init, TypeOK
<1>3. TaskInv /\ SetupInv
    BY <1>1, IdleType DEF Init, TaskInv, SetupInv, SettingUp
<1>4. FreshInv
    BY <1>1, IdleType DEF Init, FreshInv
<1>5. AnswerInv
  <2>1. \A c \in Call : ~Pending(c)
    BY <1>1, IdleType DEF Init, Pending
  <2>2. QED
    BY <1>1, <2>1, NoCallType DEF Init, AnswerInv
<1>6. ConnectInv
    BY <1>1, IdleType, ConnType DEF Init, ConnectInv
<1>7. QED
    BY <1>2, <1>3, <1>4, <1>5, <1>6 DEF CInv

LEMMA StepCInv == CInv /\ [Next]_vars => CInv'
<1>1. SUFFICES ASSUME CInv, [Next]_vars PROVE CInv'
    OBVIOUS
<1>2. CASE UNCHANGED vars
  <2>1. TypeOK' /\ UNCHANGED <<calls, task, conn>>
    BY <1>1, <1>2 DEF vars, CInv, TypeOK
  <2>2. Less
    BY <2>1 DEF Less
  <2>3. QED
    BY <1>1, <2>1, <2>2, LessCInv
<1>3. CASE (\E p \in Id : RegisterClient(p) \/ DropClient(p)) \/ StopListening
    BY <1>1, <1>3, SignalLess, LessCInv
<1>4. CASE \E t \in Task : Initiate(t)
    BY <1>1, <1>4, CheckLimitCInv
<1>5. CASE \E t \in Task : Answer(t)
    BY <1>1, <1>5, AcceptCInv DEF Answer
<1>6. CASE \E t \in Task : HangUp(t)
    BY <1>1, <1>6, EndLess, LessCInv DEF HangUp
<1>7. ASSUME NEW t \in Task, Continue(t) PROVE CInv'
  <2>1. CASE \E video, mute \in BOOLEAN : StoreCall(t, video, mute)
    BY <1>1, <2>1, StoreCInv
  <2>2. CASE SendInvitations(t)
    BY <1>1, <2>2, InviteCInv
  <2>3. CASE Ring(t)
    BY <1>1, <2>3, RingCInv
  <2>4. CASE EstablishPeerConnection(t)
    BY <1>1, <2>4, EstablishCInv
  <2>5. CASE Disconnect(t)
    BY <1>1, <2>5, DisconnectLess, LessCInv
  <2>6. CASE UpdateTrack(t)
    BY <1>1, <2>6, UpdateTrackLess, LessCInv
  <2>7. CASE FailTrack(t)
    BY <1>1, <2>7, FailTrackLess, LessCInv
  <2>8. QED
    BY <1>7, <2>1, <2>2, <2>3, <2>4, <2>5, <2>6, <2>7 DEF Continue
<1>8. CASE \E t \in Task : Toggle(t)
    BY <1>1, <1>8, ToggleCInv DEF Toggle
<1>9. CASE \E c \in Call : RingTimeout(c)
    BY <1>1, <1>9, TimeoutLess, LessCInv
<1>10. CASE \E c \in Call, p \in Id : RejectCall(c, p)
    BY <1>1, <1>10, RejectLess, LessCInv
<1>11. CASE Negotiate
    BY <1>1, <1>11, NegotiateLess, LessCInv DEF Negotiate
<1>12. QED
    BY <1>1, <1>2, <1>3, <1>4, <1>5, <1>6, <1>7, <1>8, <1>9, <1>10, <1>11 DEF Next

LEMMA AlwaysCInv == Spec => []CInv
BY InitCInv, StepCInv, PTL DEF Spec

\* The table, the tasks, the connections and the caches have their types, and
\* what is left of a connection that is closed is nothing.
THEOREM TypeCorrect == Spec => []TypeOK
<1>1. CInv => TypeOK
    BY DEF CInv
<1>2. QED
    BY <1>1, AlwaysCInv, PTL

--------------------------------------------------------------------------------
\* The overrun of max_concurrent_calls

\* The callers between the check of the limit and the ringing
SetupTasks == {t \in Caller : SettingUp(t)}

\* A caller at work on the setup is one that has not used its turn to go over
\* the limit; one of them checked while the limit was not reached.
LimitInv ==
    /\ IsFiniteSet(Live)
    /\ Cardinality(Live) + Cardinality(SetupTasks) <= MaxConcurrent + Cardinality(Caller) - 1

LEMMA SetupTasksFinite ==
    /\ IsFiniteSet(SetupTasks) /\ Cardinality(SetupTasks) \in Nat
    /\ Cardinality(SetupTasks) <= Cardinality(Caller) /\ Cardinality(Caller) \in Nat
    /\ IsFiniteSet(SetupTasks') /\ Cardinality(SetupTasks') \in Nat
    /\ Cardinality(SetupTasks') <= Cardinality(Caller)
<1>1. IsFiniteSet(Caller) /\ SetupTasks \subseteq Caller /\ SetupTasks' \subseteq Caller
    BY CallerAssumption DEF SetupTasks
<1>2. QED
    BY <1>1, FS_Subset, FS_CardinalityType

LEMMA LimitShrinks ==
    ASSUME LimitInv, Live' \subseteq Live, SetupTasks' \subseteq SetupTasks
    PROVE  LimitInv'
<1>1. IsFiniteSet(Live') /\ Cardinality(Live') <= Cardinality(Live)
      /\ Cardinality(Live) \in Nat /\ Cardinality(Live') \in Nat
    BY FS_Subset, FS_CardinalityType DEF LimitInv
<1>2. Cardinality(SetupTasks') <= Cardinality(SetupTasks)
    BY SetupTasksFinite, FS_Subset
<1>3. QED
    BY <1>1, <1>2, SetupTasksFinite, LimitsAssumption DEF LimitInv

LEMMA LessLimit == ASSUME LimitInv, Less PROVE LimitInv'
<1>1. Live' \subseteq Live
    BY DEF Live, Less, Over
<1>2. SetupTasks' \subseteq SetupTasks
    BY IdleType, CallerAssumption DEF SetupTasks, SettingUp, Less, Aftermath
<1>3. QED
    BY <1>1, <1>2, LimitShrinks

LEMMA InitLimit == Init => LimitInv
<1>1. SUFFICES ASSUME Init PROVE LimitInv
    OBVIOUS
<1>2. Live = {} /\ SetupTasks = {}
    BY <1>1, NoCallType, IdleType, CallerAssumption DEF Init, Live, SetupTasks, SettingUp
<1>3. IsFiniteSet(Live) /\ Cardinality(Live) = 0 /\ Cardinality(SetupTasks) = 0
    BY <1>2, FS_EmptySet
<1>4. Cardinality(Caller) \in Nat /\ Cardinality(Caller) # 0
    BY CallerAssumption, FS_EmptySet, FS_CardinalityType
<1>5. QED
    BY <1>3, <1>4, LimitsAssumption DEF LimitInv

LEMMA StepLimit == CInv /\ LimitInv /\ [Next]_vars => LimitInv'
<1>1. SUFFICES ASSUME CInv, LimitInv, [Next]_vars PROVE LimitInv'
    OBVIOUS
<1>2. CASE UNCHANGED vars
  <2>1. Live' \subseteq Live /\ SetupTasks' \subseteq SetupTasks
    BY <1>2 DEF vars, Live, SetupTasks, SettingUp
  <2>2. QED
    BY <1>1, <2>1, LimitShrinks
<1>3. CASE (\E p \in Id : RegisterClient(p) \/ DropClient(p)) \/ StopListening
    BY <1>1, <1>3, SignalLess, LessLimit
<1>4. ASSUME NEW t \in Task, Initiate(t) PROVE LimitInv'
  <2>1. Cardinality(Live) < MaxConcurrent /\ UNCHANGED calls
    BY <1>1, <1>4, CheckLimitCInv
  <2>2. Live' = Live
    BY <2>1 DEF Live
  <2>3. IsFiniteSet(Live) /\ Cardinality(Live) \in Nat
    BY <1>1, FS_CardinalityType DEF LimitInv
  <2>4. QED
    BY <2>1, <2>2, <2>3, SetupTasksFinite, LimitsAssumption DEF LimitInv
<1>5. ASSUME NEW t \in Task, NEW c \in Call, NEW p \in Id, AcceptCall(t, c, p) PROVE LimitInv'
  <2>1. /\ task[t] = Idle /\ task'[t].op = "connect"
        /\ \A u \in Task : u # t => task'[u] = task[u]
        /\ \A d \in Call : d # c => calls'[d] = calls[d]
        /\ calls[c].state = "Ringing"
    BY <1>1, <1>5, AcceptCInv
  <2>2. Live' \subseteq Live /\ SetupTasks' \subseteq SetupTasks
    BY <2>1, CallerAssumption DEF Live, SetupTasks, SettingUp
  <2>3. QED
    BY <1>1, <2>2, LimitShrinks
<1>6. CASE \E t \in Task : HangUp(t)
    BY <1>1, <1>6, EndLess, LessLimit DEF HangUp
<1>7. ASSUME NEW t \in Task, Continue(t) PROVE LimitInv'
  <2>1. ASSUME NEW v \in BOOLEAN, NEW m \in BOOLEAN, StoreCall(t, v, m) PROVE LimitInv'
    <3>1. /\ task[t].op = "store" /\ task'[t].op = "invite"
          /\ \A u \in Task : u # t => task'[u] = task[u]
          /\ \A d \in Call : d # task[t].call => calls'[d] = calls[d]
          /\ task[t].call \in Call /\ calls'[task[t].call].state = "Initiating"
      BY <1>1, <2>1, StoreCInv
    <3>2. Live' \subseteq Live
      BY <3>1 DEF Live
    <3>3. SetupTasks' \subseteq SetupTasks
      BY <3>1, CallerAssumption DEF SetupTasks, SettingUp
    <3>4. QED
      BY <1>1, <3>2, <3>3, LimitShrinks
  <2>2. CASE SendInvitations(t)
    <3>1. /\ UNCHANGED calls /\ task[t].op = "invite"
          /\ task'[t] = Idle \/ task'[t].op = "ring"
          /\ \A u \in Task : u # t => task'[u] = task[u]
      BY <1>1, <2>2, InviteCInv
    <3>2. Live' \subseteq Live /\ SetupTasks' \subseteq SetupTasks
      BY <3>1, IdleType, CallerAssumption DEF Live, SetupTasks, SettingUp
    <3>3. QED
      BY <1>1, <3>2, LimitShrinks
  <2>3. CASE Ring(t)
    <3>1. /\ task[t].op = "ring" /\ task'[t] = Idle /\ task[t].call \in Call
          /\ \A u \in Task : u # t => task'[u] = task[u]
          /\ \A d \in Call : d # task[t].call => calls'[d] = calls[d]
      BY <1>1, <2>3, RingCInv
    <3>2. Live' \subseteq Live \cup {task[t].call}
      BY <3>1 DEF Live
    <3>3. t \in SetupTasks /\ SetupTasks' = SetupTasks \ {t}
      <4>1. SettingUp(t) /\ t \in Caller /\ ~SettingUp(t)'
        BY <1>1, <3>1, IdleType DEF SettingUp, CInv, TaskInv
      <4>2. \A u \in Caller : u # t => (SettingUp(u)' <=> SettingUp(u))
        BY <3>1, CallerAssumption DEF SettingUp
      <4>3. QED
        BY <4>1, <4>2 DEF SetupTasks
    <3>4. Cardinality(SetupTasks') = Cardinality(SetupTasks) - 1
      BY <3>3, SetupTasksFinite, FS_RemoveElement
    <3>5. /\ IsFiniteSet(Live) /\ Cardinality(Live) \in Nat
          /\ IsFiniteSet(Live \cup {task[t].call})
          /\ Cardinality(Live \cup {task[t].call}) \in Nat
          /\ Cardinality(Live \cup {task[t].call}) <= Cardinality(Live) + 1
      <4>1. IsFiniteSet(Live) /\ Cardinality(Live) \in Nat
        BY <1>1, FS_CardinalityType DEF LimitInv
      <4>2. /\ IsFiniteSet(Live \cup {task[t].call})
            /\ \/ Cardinality(Live \cup {task[t].call}) = Cardinality(Live)
               \/ Cardinality(Live \cup {task[t].call}) = Cardinality(Live) + 1
        BY <4>1, FS_AddElement
      <4>3. QED
        BY <4>1, <4>2
    <3>6. /\ IsFiniteSet(Live') /\ Cardinality(Live') \in Nat
          /\ Cardinality(Live') <= Cardinality(Live \cup {task[t].call})
      BY <3>2, <3>5, FS_Subset, FS_CardinalityType
    <3>7. QED
      BY <1>1, <3>4, <3>5, <3>6, SetupTasksFinite, LimitsAssumption DEF LimitInv
  <2>4. CASE EstablishPeerConnection(t)
    <3>1. /\ UNCHANGED calls /\ task'[t] = Idle
          /\ \A u \in Task : u # t => task'[u] = task[u]
      BY <1>1, <2>4, EstablishCInv
    <3>2. Live' \subseteq Live /\ SetupTasks' \subseteq SetupTasks
      BY <3>1, IdleType, CallerAssumption DEF Live, SetupTasks, SettingUp
    <3>3. QED
      BY <1>1, <3>2, LimitShrinks
  <2>5. CASE Disconnect(t)
    BY <1>1, <2>5, DisconnectLess, LessLimit
  <2>6. CASE UpdateTrack(t)
    BY <1>1, <2>6, UpdateTrackLess, LessLimit
  <2>7. CASE FailTrack(t)
    BY <1>1, <2>7, FailTrackLess, LessLimit
  <2>8. QED
    BY <1>7, <2>1, <2>2, <2>3, <2>4, <2>5, <2>6, <2>7 DEF Continue
<1>8. CASE \E t \in Task : Toggle(t)
    BY <1>1, <1>8, ToggleCInv, LessLimit DEF Toggle
<1>9. CASE \E c \in Call : RingTimeout(c)
    BY <1>1, <1>9, TimeoutLess, LessLimit
<1>10. CASE \E c \in Call, p \in Id : RejectCall(c, p)
    BY <1>1, <1>10, RejectLess, LessLimit
<1>11. CASE Negotiate
    BY <1>1, <1>11, NegotiateLess, LessLimit DEF Negotiate
<1>12. QED
    BY <1>1, <1>2, <1>3, <1>4, <1>5, <1>6, <1>7, <1>8, <1>9, <1>10, <1>11 DEF Next, Answer

\* However many tasks check max_concurrent_calls before one of them has stored
\* its call, the calls that ring or are active exceed the limit by at most the
\* number of callers less one.
THEOREM OverrunIsBounded == Spec => []OverrunBounded
<1>1. LimitInv => OverrunBounded
  <2>1. SUFFICES ASSUME LimitInv PROVE OverrunBounded
    OBVIOUS
  <2>2. Cardinality(Live) \in Nat
    BY <2>1, FS_CardinalityType DEF LimitInv
  <2>3. QED
    BY <2>1, <2>2, SetupTasksFinite, LimitsAssumption DEF LimitInv, OverrunBounded
<1>2. QED
    BY <1>1, AlwaysCInv, InitLimit, StepLimit, PTL DEF Spec

--------------------------------------------------------------------------------
\* ICE candidates

\* A candidate that was taken is cached or with the connection; with an answer
\* installed, it is with the connection.
CandInv ==
    \A c \in Call, p \in Id :
        /\ accepted[c][p] \subseteq conn[c][p].cands \cup ice[c][p]
        /\ conn[c][p].answered => accepted[c][p] \subseteq conn[c][p].cands

\* A step that is not about candidates
LEMMA CandSame ==
    ASSUME CandInv, UNCHANGED <<ice, accepted>>,
           \A c \in Call, p \in Id : /\ conn'[c][p].cands = conn[c][p].cands
                                     /\ conn'[c][p].answered <=> conn[c][p].answered
    PROVE  CandInv'
BY DEF CandInv

\* Connections change only on behalf of a task or by negotiation.
LEMMA MediaSteps ==
    ASSUME CInv, Next
    PROVE  \/ UNCHANGED <<conn, ice, accepted>>
           \/ \E t \in Task : EstablishPeerConnection(t) \/ Disconnect(t) \/ UpdateTrack(t)
           \/ Negotiate
<1>1. CASE (\E p \in Id : RegisterClient(p) \/ DropClient(p)) \/ StopListening
    BY <1>1 DEF RegisterClient, DropClient, StopListening, media
<1>2. CASE \E t \in Task : Initiate(t) \/ Answer(t) \/ HangUp(t)
  <2>1. CASE \E t \in Task : Initiate(t)
    BY <2>1 DEF Initiate, CheckLimit, media
  <2>2. CASE \E t \in Task : Answer(t)
    BY <2>2 DEF Answer, AcceptCall, media
  <2>3. CASE \E t \in Task : HangUp(t)
    BY <2>3 DEF HangUp, EndCall, media
  <2>4. QED
    BY <1>2, <2>1, <2>2, <2>3
<1>3. CASE \E t \in Task : Toggle(t)
    BY <1>3, ToggleCInv DEF Toggle
<1>4. ASSUME NEW t \in Task, Continue(t)
      PROVE  UNCHANGED <<conn, ice, accepted>> \/ EstablishPeerConnection(t) \/ Disconnect(t) \/ UpdateTrack(t)
    BY <1>4 DEF Continue, StoreCall, SendInvitations, Ring, FailTrack, media
<1>5. CASE (\E c \in Call : RingTimeout(c)) \/ (\E c \in Call, p \in Id : RejectCall(c, p))
    BY <1>5 DEF RingTimeout, RejectCall, media
<1>6. QED
    BY <1>1, <1>2, <1>3, <1>4, <1>5 DEF Next

LEMMA StepCand == CInv /\ CandInv /\ [Next]_vars => CandInv'
<1>1. SUFFICES ASSUME CInv, CandInv, [Next]_vars PROVE CandInv'
    OBVIOUS
<1>2. CASE UNCHANGED vars \/ UNCHANGED <<conn, ice, accepted>>
  <2>1. UNCHANGED <<conn, ice, accepted>>
    BY <1>2 DEF vars
  <2>2. QED
    BY <1>1, <2>1 DEF CandInv
<1>3. ASSUME NEW t \in Task, EstablishPeerConnection(t) PROVE CandInv'
  <2>1. /\ UNCHANGED <<ice, accepted>> /\ task[t].call \in Call
        /\ \A q \in Id : ~conn[task[t].call][q].open
        /\ \A d \in Call, q \in Id :
                 \/ conn'[d][q] = conn[d][q]
                 \/ d = task[t].call /\ q = task[t].who /\ conn'[d][q] = NewConn
    <3>1. UNCHANGED <<ice, accepted>> /\ task[t].call \in Call
      BY <1>1, <1>3, EstablishCInv
    <3>2. \A q \in Id : ~conn[task[t].call][q].open
      BY <1>1, <1>3, EstablishCInv
    <3>3. \A d \in Call, q \in Id :
                 \/ conn'[d][q] = conn[d][q]
                 \/ d = task[t].call /\ q = task[t].who /\ conn'[d][q] = NewConn
      BY <1>1, <1>3, EstablishCInv
    <3>4. QED
      BY <3>1, <3>2, <3>3
  <2>2. \A q \in Id : conn[task[t].call][q] = NoConn
    <3>1. \A d \in Call, q \in Id : conn[d][q].open \/ conn[d][q] = NoConn
      BY <1>1 DEF CInv, TypeOK
    <3>2. QED
      BY <2>1, <3>1
  <2>3. \A d \in Call, q \in Id : /\ conn'[d][q].cands = conn[d][q].cands
                                  /\ conn'[d][q].answered <=> conn[d][q].answered
    <3>1. NewConn.cands = NoConn.cands /\ (NewConn.answered <=> NoConn.answered)
      BY ConnType
    <3>2. QED
      BY <2>1, <2>2, <3>1
  <2>4. QED
    BY <1>1, <2>1, <2>3, CandSame
<1>4. ASSUME NEW t \in Task, Disconnect(t) PROVE CandInv'
  <2>1. \A c \in Call, p \in Id :
           \/ accepted'[c][p] = {}
           \/ conn'[c][p] = conn[c][p] /\ ice'[c][p] = ice[c][p] /\ accepted'[c][p] = accepted[c][p]
    BY <1>1, <1>4, DisconnectLess
  <2>2. QED
    BY <1>1, <2>1 DEF CandInv
<1>5. ASSUME NEW t \in Task, UpdateTrack(t) PROVE CandInv'
  <2>1. /\ UNCHANGED <<ice, accepted>>
        /\ \A d \in Call, q \in Id :
              \/ conn'[d][q] = conn[d][q]
              \/ conn'[d][q] = WithAudio(conn[d][q], task[t].on)
              \/ conn'[d][q] = WithVideo(conn[d][q], task[t].on)
              \/ conn'[d][q] = WithScreen(conn[d][q])
    BY <1>1, <1>5, UpdateTrackLess
  <2>2. \A d \in Call, q \in Id : conn[d][q] \in ConnRecord
    BY <1>1 DEF CInv, TypeOK
  <2>3. \A d \in Call, q \in Id : /\ conn'[d][q].cands = conn[d][q].cands
                                  /\ conn'[d][q].answered <=> conn[d][q].answered
    <3>1. SUFFICES ASSUME NEW d \in Call, NEW q \in Id
                   PROVE  /\ conn'[d][q].cands = conn[d][q].cands
                          /\ conn'[d][q].answered <=> conn[d][q].answered
      OBVIOUS
    <3>2. CASE conn'[d][q] = WithAudio(conn[d][q], task[t].on)
      BY <2>2, <3>2 DEF WithAudio, ConnRecord
    <3>3. CASE conn'[d][q] = WithVideo(conn[d][q], task[t].on)
      BY <2>2, <3>3 DEF WithVideo, ConnRecord
    <3>4. CASE conn'[d][q] = WithScreen(conn[d][q])
      BY <2>2, <3>4 DEF WithScreen, WithVideo, ConnRecord
    <3>5. QED
      BY <2>1, <3>2, <3>3, <3>4
  <2>4. QED
    BY <1>1, <2>1, <2>3, CandSame
<1>6. ASSUME NEW c \in Call, NEW p \in Id,
             \/ CreateOffer(c, p) \/ CreateAnswer(c, p) \/ SetRemoteDescription(c, p)
             \/ \E xs \in SUBSET Candidate : FailCandidates(c, p, xs)
             \/ \E x \in Candidate : AddIceCandidate(c, p, x)
      PROVE  CandInv'
  <2>1. /\ conn \in [Call -> [Id -> ConnRecord]] /\ conn[c][p] \in ConnRecord
        /\ ice \in [Call -> [Id -> SUBSET Candidate]] /\ accepted \in [Call -> [Id -> SUBSET Candidate]]
    BY <1>1 DEF CInv, TypeOK
  <2>2. CASE CreateOffer(c, p)
    <3>1. /\ conn'[c][p] = WithOffer(conn[c][p]) /\ UNCHANGED <<ice, accepted>>
          /\ \A d \in Call, q \in Id : d # c \/ q # p => conn'[d][q] = conn[d][q]
      BY <2>1, <2>2 DEF CreateOffer
    <3>2. /\ conn'[c][p].cands = conn[c][p].cands
          /\ conn'[c][p].answered <=> conn[c][p].answered
      BY <2>1, <3>1 DEF WithOffer, ConnRecord
    <3>3. QED
      BY <1>1, <3>1, <3>2, CandSame
  <2>3. CASE CreateAnswer(c, p)
    <3>1. /\ conn'[c][p] = WithAnswer(conn[c][p]) /\ UNCHANGED <<ice, accepted>>
          /\ \A d \in Call, q \in Id : d # c \/ q # p => conn'[d][q] = conn[d][q]
      BY <2>1, <2>3 DEF CreateAnswer
    <3>2. /\ conn'[c][p].cands = conn[c][p].cands
          /\ conn'[c][p].answered <=> conn[c][p].answered
      BY <2>1, <3>1 DEF WithAnswer, ConnRecord
    <3>3. QED
      BY <1>1, <3>1, <3>2, CandSame
  <2>4. CASE SetRemoteDescription(c, p)
    <3>1. /\ conn'[c][p] = WithCandidates(WithRemote(conn[c][p]), ice[c][p]) /\ UNCHANGED accepted
          /\ \A d \in Call, q \in Id : d # c \/ q # p => conn'[d][q] = conn[d][q] /\ ice'[d][q] = ice[d][q]
      BY <2>1, <2>4 DEF SetRemoteDescription
    <3>2. conn'[c][p].cands = conn[c][p].cands \cup ice[c][p]
      BY <2>1, <3>1 DEF WithCandidates, WithRemote, ConnRecord
    <3>3. QED
      BY <1>1, <3>1, <3>2 DEF CandInv
  <2>5. ASSUME NEW x \in Candidate, AddIceCandidate(c, p, x) PROVE CandInv'
    <3>1. /\ accepted'[c][p] = accepted[c][p] \cup {x}
          /\ \A d \in Call, q \in Id : d # c \/ q # p => accepted'[d][q] = accepted[d][q]
      BY <2>1, <2>5 DEF AddIceCandidate
    <3>2. CASE conn' = [conn EXCEPT ![c][p] = WithCandidates(@, {x})] /\ UNCHANGED ice
      <4>1. /\ conn'[c][p] = WithCandidates(conn[c][p], {x})
            /\ \A d \in Call, q \in Id : d # c \/ q # p => conn'[d][q] = conn[d][q]
        BY <2>1, <3>2
      <4>2. /\ conn'[c][p].cands = conn[c][p].cands \cup {x}
            /\ conn'[c][p].answered <=> conn[c][p].answered
        BY <2>1, <4>1 DEF WithCandidates, ConnRecord
      <4>3. UNCHANGED ice
        BY <3>2
      <4>4. /\ accepted'[c][p] \subseteq conn'[c][p].cands \cup ice'[c][p]
            /\ conn'[c][p].answered => accepted'[c][p] \subseteq conn'[c][p].cands
        BY <1>1, <3>1, <4>2, <4>3 DEF CandInv
      <4>5. ASSUME NEW d \in Call, NEW q \in Id, d # c \/ q # p
            PROVE  /\ accepted'[d][q] \subseteq conn'[d][q].cands \cup ice'[d][q]
                   /\ conn'[d][q].answered => accepted'[d][q] \subseteq conn'[d][q].cands
        BY <1>1, <3>1, <4>1, <4>3, <4>5 DEF CandInv
      <4>6. QED
        BY <4>4, <4>5 DEF CandInv
    <3>3. CASE ~conn[c][p].open /\ ice' = [ice EXCEPT ![c][p] = @ \cup {x}] /\ UNCHANGED conn
      <4>1. ~conn[c][p].answered
        <5>1. conn[c][p].open \/ conn[c][p] = NoConn
          BY <1>1 DEF CInv, TypeOK
        <5>2. QED
          BY <3>3, <5>1, ConnType
      <4>2. /\ ice'[c][p] = ice[c][p] \cup {x}
            /\ \A d \in Call, q \in Id : d # c \/ q # p => ice'[d][q] = ice[d][q]
        BY <2>1, <3>3
      <4>3. QED
        BY <1>1, <3>1, <3>3, <4>1, <4>2 DEF CandInv
    <3>4. QED
      BY <2>5, <3>2, <3>3 DEF AddIceCandidate
  <2>6. ASSUME NEW xs \in SUBSET Candidate, FailCandidates(c, p, xs) PROVE CandInv'
    <3>1. /\ conn'[c][p] = WithCandidates(WithRemote(conn[c][p]), xs)
          /\ accepted'[c][p] = accepted[c][p] \ (ice[c][p] \ xs)
          /\ \A d \in Call, q \in Id : d # c \/ q # p =>
                /\ conn'[d][q] = conn[d][q] /\ ice'[d][q] = ice[d][q]
                /\ accepted'[d][q] = accepted[d][q]
      BY <2>1, <2>6 DEF FailCandidates
    <3>2. conn'[c][p].cands = conn[c][p].cands \cup xs
      BY <2>1, <3>1 DEF WithCandidates, WithRemote, ConnRecord
    <3>3. accepted'[c][p] \subseteq conn'[c][p].cands
      BY <1>1, <3>1, <3>2 DEF CandInv
    <3>4. QED
      BY <1>1, <3>1, <3>3 DEF CandInv
  <2>7. QED
    BY <1>6, <2>2, <2>3, <2>4, <2>5, <2>6
<1>7. QED
    BY <1>1, <1>2, <1>3, <1>4, <1>5, <1>6, MediaSteps DEF Negotiate

\* A candidate that came before the connection waits in the cache for the
\* answer, and none is lost on the way but those that set_remote_description
\* gives up together with the one it reports.
THEOREM CandidatesDoArrive == Spec => []CandidatesArrive
<1>1. Init => CandInv
    BY ConnType DEF Init, CandInv
<1>2. CandInv => CandidatesArrive
    BY DEF CandInv, CandidatesArrive
<1>3. QED
    BY <1>1, <1>2, AlwaysCInv, StepCand, PTL DEF Spec

--------------------------------------------------------------------------------
\* Muted participants

TrackOps == {"audio", "video", "screen"}

\* t is on its way to a track of p in c
AtTrack(t, op, c, p) == task[t].op = op /\ task[t].call = c /\ task[t].who = p

\* A track that is not stray has one task at most on its way to it, which
\* carries what the table says; and a track that the table does not allow is
\* about to be taken away.
AudioInv(c, p) ==
    "audio" \notin stray[c][p] =>
        /\ \A t, u \in Task : AtTrack(t, "audio", c, p) /\ AtTrack(u, "audio", c, p) => t = u
        /\ \A t \in Task : AtTrack(t, "audio", c, p) => (task[t].on <=> p \notin calls[c].muted)
        /\ p \in calls[c].muted /\ conn[c][p].audio => \E t \in Task : AtTrack(t, "audio", c, p)

VideoInv(c, p) ==
    "video" \notin stray[c][p] =>
        /\ \A t, u \in Task : AtTrack(t, "video", c, p) /\ AtTrack(u, "video", c, p) => t = u
        /\ \A t \in Task : AtTrack(t, "video", c, p) => (task[t].on <=> p \in calls[c].video)
        /\ conn[c][p].video => \/ p \in calls[c].video \cup calls[c].sharing
                               \/ \E t \in Task : AtTrack(t, "video", c, p)

\* Who is about to share the screen is listed as sharing already.
ScreenInv(c, p) == \A t \in Task : AtTrack(t, "screen", c, p) => p \in calls[c].sharing

MediaInv == \A c \in Call, p \in Id : AudioInv(c, p) /\ VideoInv(c, p) /\ ScreenInv(c, p)

\* A step that leaves the audio of p in c, and the tasks on their way to it, alone
LEMMA AudioSame ==
    ASSUME NEW c \in Call, NEW p \in Id, AudioInv(c, p),
           "audio" \in stray[c][p] => "audio" \in stray'[c][p],
           \A t \in Task : AtTrack(t, "audio", c, p)' <=> AtTrack(t, "audio", c, p),
           \A t \in Task : AtTrack(t, "audio", c, p) => (task'[t].on <=> task[t].on),
           conn'[c][p].audio => conn[c][p].audio,
           \/ p \in calls'[c].muted <=> p \in calls[c].muted
           \/ ~conn[c][p].audio /\ \A t \in Task : ~AtTrack(t, "audio", c, p)
    PROVE  AudioInv(c, p)'
BY Zenon DEF AudioInv

LEMMA VideoSame ==
    ASSUME NEW c \in Call, NEW p \in Id, VideoInv(c, p),
           "video" \in stray[c][p] => "video" \in stray'[c][p],
           \A t \in Task : AtTrack(t, "video", c, p)' <=> AtTrack(t, "video", c, p),
           \A t \in Task : AtTrack(t, "video", c, p) => (task'[t].on <=> task[t].on),
           conn'[c][p].video => conn[c][p].video,
           \/ /\ p \in calls'[c].video <=> p \in calls[c].video
              /\ p \in calls[c].sharing => p \in calls'[c].sharing
           \/ ~conn[c][p].video /\ \A t \in Task : ~AtTrack(t, "video", c, p)
    PROVE  VideoInv(c, p)'
BY Zenon DEF VideoInv

\* A step that leaves the tracks and the tasks on their way to them alone
LEMMA MediaSame ==
    ASSUME MediaInv, CInv, UNCHANGED stray,
           \A t \in Task : task[t].op \in TrackOps \/ task'[t].op \in TrackOps => task'[t] = task[t],
           \A c \in Call, p \in Id :
              /\ conn'[c][p].audio => conn[c][p].audio
              /\ conn'[c][p].video => conn[c][p].video
              /\ \/ /\ p \in calls'[c].muted <=> p \in calls[c].muted
                    /\ p \in calls'[c].video <=> p \in calls[c].video
                    /\ p \in calls'[c].sharing <=> p \in calls[c].sharing
                 \/ /\ conn[c][p] = NoConn
                    /\ \A t \in Task : task[t].op \in TrackOps => task[t].call # c
    PROVE  MediaInv'
<1>1. SUFFICES ASSUME NEW c \in Call, NEW p \in Id
               PROVE  (AudioInv(c, p) /\ VideoInv(c, p) /\ ScreenInv(c, p))'
    BY DEF MediaInv
<1>2. \A t \in Task, op \in TrackOps : AtTrack(t, op, c, p)' <=> AtTrack(t, op, c, p)
    BY DEF AtTrack
<1>3. \A t \in Task, op \in TrackOps : AtTrack(t, op, c, p) => task'[t] = task[t]
    BY DEF AtTrack
<1>4. ~NoConn.audio /\ ~NoConn.video
    BY ConnType
<1>5. \/ /\ p \in calls'[c].muted <=> p \in calls[c].muted
         /\ p \in calls'[c].video <=> p \in calls[c].video
         /\ p \in calls'[c].sharing <=> p \in calls[c].sharing
      \/ /\ ~conn[c][p].audio /\ ~conn[c][p].video
         /\ \A t \in Task, op \in TrackOps : ~AtTrack(t, op, c, p)
    BY <1>4 DEF AtTrack
<1>6. AudioInv(c, p) /\ VideoInv(c, p) /\ ScreenInv(c, p)
    BY DEF MediaInv
<1>7. "audio" \in TrackOps /\ "video" \in TrackOps /\ "screen" \in TrackOps
    BY DEF TrackOps
<1>8. AudioInv(c, p)'
    BY <1>2, <1>3, <1>5, <1>6, <1>7, AudioSame
<1>9. VideoInv(c, p)'
    BY <1>2, <1>3, <1>5, <1>6, <1>7, VideoSame
<1>10. ScreenInv(c, p)'
    BY <1>2, <1>5, <1>6, <1>7 DEF ScreenInv
<1>11. QED
    BY <1>8, <1>9, <1>10

\* A step that only shrinks what tasks may do and leaves the flags alone
LEMMA MediaFrame ==
    ASSUME MediaInv, CInv, UNCHANGED stray,
           \A t \in Task : task[t].op \in TrackOps \/ task'[t].op \in TrackOps => task'[t] = task[t],
           \A c \in Call, p \in Id : /\ conn'[c][p].audio => conn[c][p].audio
                                     /\ conn'[c][p].video => conn[c][p].video,
           \A c \in Call : /\ calls'[c].muted = calls[c].muted /\ calls'[c].video = calls[c].video
                           /\ calls'[c].sharing = calls[c].sharing
    PROVE  MediaInv'
BY MediaSame

\* A toggle begins.
LEMMA ToggleMedia ==
    ASSUME CInv, MediaInv, NEW t \in Task, NEW c \in Call, NEW p \in Id,
           ToggleMute(t, c, p) \/ ToggleVideo(t, c, p) \/ StartScreenShare(t, c, p)
    PROVE  MediaInv'
<1>1. /\ UNCHANGED conn /\ task[t] = Idle
      /\ task'[t].op \in TrackOps /\ task'[t].call = c /\ task'[t].who = p
      /\ \A u \in Task : u # t => task'[u] = task[u]
    BY ToggleCInv DEF TrackOps
<1>2. /\ \A d \in Call, q \in Id : d # c \/ q # p =>
                 /\ q \in calls'[d].muted <=> q \in calls[d].muted
                 /\ q \in calls'[d].video <=> q \in calls[d].video
                 /\ q \in calls'[d].sharing <=> q \in calls[d].sharing
      /\ IF task'[t].op = "audio" THEN task'[t].on <=> p \notin calls'[c].muted
         ELSE p \in calls'[c].muted <=> p \in calls[c].muted
      /\ IF task'[t].op = "video" THEN task'[t].on <=> p \in calls'[c].video
         ELSE p \in calls'[c].video <=> p \in calls[c].video
      /\ IF task'[t].op = "screen" THEN p \in calls'[c].sharing
         ELSE p \in calls'[c].sharing <=> p \in calls[c].sharing
    BY ToggleCInv
<1>3. /\ \A d \in Call, q \in Id : d # c \/ q # p => stray'[d][q] = stray[d][q]
      /\ \A track \in {"audio", "video"} :
            track \in stray'[c][p] <=> IF track = task'[t].op THEN Toggling(c, p, track)
                                       ELSE track \in stray[c][p]
    BY ToggleCInv DEF StrayStep
<1>4. \A u \in Task, op \in TrackOps, d \in Call, q \in Id :
          u # t => (AtTrack(u, op, d, q)' <=> AtTrack(u, op, d, q)) /\ (task'[u].on <=> task[u].on)
    BY <1>1 DEF AtTrack
<1>5. \A op \in TrackOps, d \in Call, q \in Id :
          /\ ~AtTrack(t, op, d, q)
          /\ AtTrack(t, op, d, q)' <=> op = task'[t].op /\ d = c /\ q = p
    BY <1>1, IdleType DEF AtTrack, TrackOps
<1>6. "audio" \in TrackOps /\ "video" \in TrackOps /\ "screen" \in TrackOps
    BY DEF TrackOps
<1>7. ASSUME NEW d \in Call, NEW q \in Id PROVE AudioInv(d, q)'
  <2>1. AudioInv(d, q)
    BY DEF MediaInv
  <2>2. CASE task'[t].op = "audio" /\ d = c /\ q = p
    <3>1. AtTrack(t, "audio", c, p)' /\ (task'[t].on <=> p \notin calls'[c].muted)
      BY <1>2, <1>5, <1>6, <2>2
    <3>2. ASSUME "audio" \notin stray'[c][p] PROVE \A u \in Task : AtTrack(u, "audio", c, p)' => u = t
      BY <1>3, <1>4, <1>6, <2>2, <3>2 DEF Toggling, AtTrack
    <3>3. AudioInv(c, p)'
      BY <3>1, <3>2 DEF AudioInv
    <3>4. QED
      BY <2>2, <3>3
  <2>3. CASE ~(task'[t].op = "audio" /\ d = c /\ q = p)
    <3>1. "audio" \in stray[d][q] => "audio" \in stray'[d][q]
      BY <1>3, <2>3
    <3>2. \A u \in Task : AtTrack(u, "audio", d, q)' <=> AtTrack(u, "audio", d, q)
      BY <1>4, <1>5, <1>6, <2>3
    <3>3. \A u \in Task : AtTrack(u, "audio", d, q) => (task'[u].on <=> task[u].on)
      BY <1>4, <1>5, <1>6
    <3>4. q \in calls'[d].muted <=> q \in calls[d].muted
      BY <1>2, <2>3
    <3>5. QED
      BY <1>1, <2>1, <3>1, <3>2, <3>3, <3>4, AudioSame
  <2>4. QED
    BY <2>2, <2>3
<1>8. ASSUME NEW d \in Call, NEW q \in Id PROVE VideoInv(d, q)'
  <2>1. VideoInv(d, q)
    BY DEF MediaInv
  <2>2. CASE task'[t].op = "video" /\ d = c /\ q = p
    <3>1. AtTrack(t, "video", c, p)' /\ (task'[t].on <=> p \in calls'[c].video)
      BY <1>2, <1>5, <1>6, <2>2
    <3>2. ASSUME "video" \notin stray'[c][p] PROVE \A u \in Task : AtTrack(u, "video", c, p)' => u = t
      BY <1>3, <1>4, <1>6, <2>2, <3>2 DEF Toggling, AtTrack
    <3>3. VideoInv(c, p)'
      BY <3>1, <3>2 DEF VideoInv
    <3>4. QED
      BY <2>2, <3>3
  <2>3. CASE ~(task'[t].op = "video" /\ d = c /\ q = p)
    <3>1. "video" \in stray[d][q] => "video" \in stray'[d][q]
      BY <1>3, <2>3
    <3>2. \A u \in Task : AtTrack(u, "video", d, q)' <=> AtTrack(u, "video", d, q)
      BY <1>4, <1>5, <1>6, <2>3
    <3>3. \A u \in Task : AtTrack(u, "video", d, q) => (task'[u].on <=> task[u].on)
      BY <1>4, <1>5, <1>6
    <3>4. /\ q \in calls'[d].video <=> q \in calls[d].video
          /\ q \in calls[d].sharing => q \in calls'[d].sharing
      BY <1>2, <2>3
    <3>5. QED
      BY <1>1, <2>1, <3>1, <3>2, <3>3, <3>4, VideoSame
  <2>4. QED
    BY <2>2, <2>3
<1>9. ASSUME NEW d \in Call, NEW q \in Id PROVE ScreenInv(d, q)'
  <2>1. ScreenInv(d, q) /\ (q \in calls[d].sharing => q \in calls'[d].sharing)
    BY <1>2 DEF MediaInv
  <2>2. SUFFICES ASSUME NEW u \in Task, AtTrack(u, "screen", d, q)' PROVE q \in calls'[d].sharing
    BY DEF ScreenInv
  <2>3. CASE u = t
    BY <1>2, <1>5, <1>6, <2>2, <2>3
  <2>4. CASE u # t
    BY <1>4, <1>6, <2>1, <2>2, <2>4 DEF ScreenInv
  <2>5. QED
    BY <2>3, <2>4
<1>10. QED
    BY <1>7, <1>8, <1>9 DEF MediaInv

\* A toggle has arrived at the connection, or has failed there: what it leaves
\* of the tracks decides.
LEMMA TrackDone ==
    ASSUME CInv, MediaInv, NEW t \in Task, NEW c \in Call, NEW p \in Id,
           task[t].op \in TrackOps, task[t].call = c, task[t].who = p,
           UNCHANGED calls, task'[t] = Idle, \A u \in Task : u # t => task'[u] = task[u],
           \A d \in Call, q \in Id : stray[d][q] \subseteq stray'[d][q],
           \A d \in Call, q \in Id : d # c \/ q # p => conn'[d][q] = conn[d][q],
           task[t].op # "audio" => (conn'[c][p].audio => conn[c][p].audio),
           task[t].op # "video" => \/ conn'[c][p].video => conn[c][p].video
                                   \/ p \in calls[c].sharing,
           task[t].op = "audio" => \/ conn'[c][p].audio => task[t].on
                                   \/ "audio" \in stray'[c][p],
           task[t].op = "video" => \/ conn'[c][p].video => task[t].on
                                   \/ "video" \in stray'[c][p]
    PROVE  MediaInv'
<1>1. \A u \in Task, op \in TrackOps, d \in Call, q \in Id :
          u # t => (AtTrack(u, op, d, q)' <=> AtTrack(u, op, d, q)) /\ (task'[u].on <=> task[u].on)
    BY DEF AtTrack
<1>2. \A op \in TrackOps, d \in Call, q \in Id :
          /\ ~AtTrack(t, op, d, q)'
          /\ AtTrack(t, op, d, q) <=> op = task[t].op /\ d = c /\ q = p
    BY IdleType DEF AtTrack, TrackOps
<1>3. "audio" \in TrackOps /\ "video" \in TrackOps /\ "screen" \in TrackOps
    BY DEF TrackOps
<1>4. ASSUME NEW d \in Call, NEW q \in Id PROVE AudioInv(d, q)'
  <2>1. AudioInv(d, q) /\ ("audio" \in stray[d][q] => "audio" \in stray'[d][q])
    BY DEF MediaInv
  <2>2. CASE task[t].op = "audio" /\ d = c /\ q = p
    <3>1. SUFFICES ASSUME "audio" \notin stray'[c][p]
                   PROVE  /\ \A u \in Task : ~AtTrack(u, "audio", c, p)'
                          /\ ~(p \in calls'[c].muted /\ conn'[c][p].audio)
      BY <2>2 DEF AudioInv
    <3>2. AtTrack(t, "audio", c, p) /\ "audio" \notin stray[c][p]
      BY <1>2, <1>3, <2>1, <2>2, <3>1
    <3>3. /\ \A u \in Task : AtTrack(u, "audio", c, p) => u = t
          /\ task[t].on <=> p \notin calls[c].muted
      BY <2>1, <2>2, <3>2 DEF AudioInv
    <3>4. \A u \in Task : ~AtTrack(u, "audio", c, p)'
      BY <1>1, <1>2, <1>3, <3>3
    <3>5. QED
      BY <2>2, <3>1, <3>3, <3>4
  <2>3. CASE ~(task[t].op = "audio" /\ d = c /\ q = p)
    <3>1. \A u \in Task : AtTrack(u, "audio", d, q)' <=> AtTrack(u, "audio", d, q)
      BY <1>1, <1>2, <1>3, <2>3
    <3>2. \A u \in Task : AtTrack(u, "audio", d, q) => (task'[u].on <=> task[u].on)
      BY <1>1, <1>2, <1>3, <2>3
    <3>3. conn'[d][q].audio => conn[d][q].audio
      BY <2>3
    <3>4. QED
      BY <2>1, <3>1, <3>2, <3>3, AudioSame
  <2>4. QED
    BY <2>2, <2>3
<1>5. ASSUME NEW d \in Call, NEW q \in Id PROVE VideoInv(d, q)'
  <2>1. VideoInv(d, q) /\ ("video" \in stray[d][q] => "video" \in stray'[d][q])
    BY DEF MediaInv
  <2>2. CASE task[t].op = "video" /\ d = c /\ q = p
    <3>1. SUFFICES ASSUME "video" \notin stray'[c][p]
                   PROVE  /\ \A u \in Task : ~AtTrack(u, "video", c, p)'
                          /\ conn'[c][p].video => p \in calls'[c].video
      BY <2>2 DEF VideoInv
    <3>2. AtTrack(t, "video", c, p) /\ "video" \notin stray[c][p]
      BY <1>2, <1>3, <2>1, <2>2, <3>1
    <3>3. /\ \A u \in Task : AtTrack(u, "video", c, p) => u = t
          /\ task[t].on <=> p \in calls[c].video
      BY <2>1, <2>2, <3>2 DEF VideoInv
    <3>4. \A u \in Task : ~AtTrack(u, "video", c, p)'
      BY <1>1, <1>2, <1>3, <3>3
    <3>5. QED
      BY <2>2, <3>1, <3>3, <3>4
  <2>3. CASE ~(task[t].op = "video" /\ d = c /\ q = p)
    <3>1. \A u \in Task : AtTrack(u, "video", d, q)' <=> AtTrack(u, "video", d, q)
      BY <1>1, <1>2, <1>3, <2>3
    <3>2. \A u \in Task : AtTrack(u, "video", d, q) => (task'[u].on <=> task[u].on)
      BY <1>1, <1>2, <1>3, <2>3
    <3>3. CASE conn'[d][q].video => conn[d][q].video
      BY <2>1, <3>1, <3>2, <3>3, VideoSame
    <3>4. CASE q \in calls[d].sharing
      BY <2>1, <3>1, <3>2, <3>4 DEF VideoInv
    <3>5. QED
      BY <2>3, <3>3, <3>4
  <2>4. QED
    BY <2>2, <2>3
<1>6. ASSUME NEW d \in Call, NEW q \in Id PROVE ScreenInv(d, q)'
    BY <1>1, <1>2, <1>3 DEF MediaInv, ScreenInv
<1>7. QED
    BY <1>4, <1>5, <1>6 DEF MediaInv

\* The track is changed.
LEMMA UpdateTrackMedia ==
    ASSUME CInv, MediaInv, NEW t \in Task, UpdateTrack(t)
    PROVE  MediaInv'
<1>1. PICK c \in Call, p \in Id : c = task[t].call /\ p = task[t].who
    BY UpdateTrackLess
<1>2. /\ UNCHANGED <<calls, stray>> /\ task[t].op \in TrackOps
      /\ task'[t] = Idle /\ \A u \in Task : u # t => task'[u] = task[u]
    BY UpdateTrackLess DEF TrackOps
<1>3. \A d \in Call, q \in Id : d # c \/ q # p => conn'[d][q] = conn[d][q]
    BY <1>1, UpdateTrackLess
<1>4. conn[c][p] \in ConnRecord /\ (conn[c][p].open \/ conn[c][p] = NoConn)
    BY DEF CInv, TypeOK
<1>5. CASE ~conn[c][p].open
  <2>1. conn'[c][p] = NoConn /\ conn[c][p] = NoConn
    BY <1>1, <1>4, <1>5, UpdateTrackLess
  <2>2. ~conn'[c][p].audio /\ ~conn'[c][p].video
    BY <2>1, ConnType
  <2>3. QED
    BY <1>1, <1>2, <1>3, <2>2, TrackDone
<1>6. CASE conn[c][p].open /\ task[t].op = "audio"
  <2>1. conn'[c][p] = WithAudio(conn[c][p], task[t].on)
    BY <1>1, <1>6, UpdateTrackLess
  <2>2. (conn'[c][p].audio <=> task[t].on) /\ (conn'[c][p].video <=> conn[c][p].video)
    BY <1>4, <2>1 DEF WithAudio, ConnRecord
  <2>3. QED
    BY <1>1, <1>2, <1>3, <1>6, <2>2, TrackDone
<1>7. CASE conn[c][p].open /\ task[t].op = "video"
  <2>1. conn'[c][p] = WithVideo(conn[c][p], task[t].on)
    BY <1>1, <1>7, UpdateTrackLess
  <2>2. (conn'[c][p].video <=> task[t].on) /\ (conn'[c][p].audio <=> conn[c][p].audio)
    BY <1>4, <2>1 DEF WithVideo, ConnRecord
  <2>3. QED
    BY <1>1, <1>2, <1>3, <1>7, <2>2, TrackDone
<1>8. CASE conn[c][p].open /\ task[t].op = "screen"
  <2>1. conn'[c][p] = WithScreen(conn[c][p])
    BY <1>1, <1>8, UpdateTrackLess
  <2>2. conn'[c][p].audio <=> conn[c][p].audio
    BY <1>4, <2>1 DEF WithScreen, WithVideo, ConnRecord
  <2>3. p \in calls[c].sharing
    BY <1>1, <1>8 DEF MediaInv, ScreenInv, AtTrack
  <2>4. QED
    BY <1>1, <1>2, <1>3, <1>8, <2>2, <2>3, TrackDone
<1>9. QED
    BY <1>2, <1>5, <1>6, <1>7, <1>8 DEF TrackOps

\* The track cannot be changed.
LEMMA FailTrackMedia ==
    ASSUME CInv, MediaInv, NEW t \in Task, FailTrack(t)
    PROVE  MediaInv'
<1>1. PICK c \in Call, p \in Id : c = task[t].call /\ p = task[t].who
    BY FailTrackLess
<1>2. /\ UNCHANGED <<calls, conn>> /\ task[t].op \in TrackOps
      /\ task'[t] = Idle /\ \A u \in Task : u # t => task'[u] = task[u]
      /\ \A d \in Call, q \in Id : stray[d][q] \subseteq stray'[d][q]
    BY FailTrackLess DEF TrackOps
<1>3. /\ task[t].op = "audio" => task[t].on \/ "audio" \in stray'[c][p]
      /\ task[t].op = "video" => task[t].on \/ "video" \in stray'[c][p]
    BY <1>1, FailTrackLess DEF Toggled
<1>4. QED
    BY <1>1, <1>2, <1>3, TrackDone

LEMMA StepMedia == CInv /\ MediaInv /\ [Next]_vars => MediaInv'
<1>1. SUFFICES ASSUME CInv, MediaInv, [Next]_vars PROVE MediaInv'
    OBVIOUS
<1>2. CASE UNCHANGED vars
    BY <1>1, <1>2 DEF vars, MediaInv, AudioInv, VideoInv, ScreenInv, AtTrack
<1>3. CASE (\E p \in Id : RegisterClient(p) \/ DropClient(p)) \/ StopListening
  <2>1. UNCHANGED <<calls, task, conn, stray>>
    BY <1>1, <1>3, SignalLess DEF media
  <2>2. QED
    BY <1>1, <2>1, MediaFrame
<1>4. ASSUME NEW t \in Task, Initiate(t) PROVE MediaInv'
  <2>1. /\ UNCHANGED <<calls, conn, stray>> /\ task[t] = Idle /\ task'[t].op = "store"
        /\ \A u \in Task : u # t => task'[u] = task[u]
    BY <1>1, <1>4, CheckLimitCInv DEF media
  <2>2. \A u \in Task : task[u].op \in TrackOps \/ task'[u].op \in TrackOps => task'[u] = task[u]
    BY <2>1, IdleType DEF TrackOps
  <2>3. QED
    BY <1>1, <2>1, <2>2, MediaFrame
<1>5. ASSUME NEW t \in Task, NEW c \in Call, NEW p \in Id, AcceptCall(t, c, p) PROVE MediaInv'
  <2>1. /\ UNCHANGED <<conn, stray>> /\ task[t] = Idle /\ task'[t].op = "connect"
        /\ \A u \in Task : u # t => task'[u] = task[u]
        /\ \A d \in Call : /\ calls'[d].muted = calls[d].muted /\ calls'[d].video = calls[d].video
                           /\ calls'[d].sharing = calls[d].sharing
    BY <1>1, <1>5, AcceptCInv DEF media
  <2>2. \A u \in Task : task[u].op \in TrackOps \/ task'[u].op \in TrackOps => task'[u] = task[u]
    BY <2>1, IdleType DEF TrackOps
  <2>3. QED
    BY <1>1, <2>1, <2>2, MediaFrame
<1>6. ASSUME NEW t \in Task, NEW c \in Call, NEW p \in Id, EndCall(t, c, p) PROVE MediaInv'
  <2>1. /\ UNCHANGED <<conn, stray>> /\ task[t] = Idle /\ task'[t].op = "close"
        /\ \A u \in Task : u # t => task'[u] = task[u]
        /\ \A d \in Call : /\ calls'[d].muted = calls[d].muted /\ calls'[d].video = calls[d].video
                           /\ calls'[d].sharing = calls[d].sharing
    BY <1>1, <1>6, EndLess DEF media
  <2>2. \A u \in Task : task[u].op \in TrackOps \/ task'[u].op \in TrackOps => task'[u] = task[u]
    BY <2>1, IdleType DEF TrackOps
  <2>3. QED
    BY <1>1, <2>1, <2>2, MediaFrame
<1>7. ASSUME NEW t \in Task, NEW v \in BOOLEAN, NEW m \in BOOLEAN, StoreCall(t, v, m) PROVE MediaInv'
  <2> DEFINE c == task[t].call
  <2>1. /\ UNCHANGED <<conn, stray>> /\ task[t].op = "store" /\ task'[t].op = "invite" /\ c \in Call
        /\ \A u \in Task : u # t => task'[u] = task[u]
        /\ \A d \in Call : d # c => calls'[d] = calls[d]
        /\ calls[c].state = "None"
    BY <1>1, <1>7, StoreCInv DEF media
  <2>2. \A u \in Task : task[u].op \in TrackOps \/ task'[u].op \in TrackOps => task'[u] = task[u]
    BY <2>1 DEF TrackOps
  <2>3. \A u \in Task : task[u].op \in TrackOps => task[u].call # c /\ task[u].call \in Call
    BY <1>1, <2>1 DEF TrackOps, CInv, FreshInv, TaskInv
  <2>4. \A q \in Id : conn[c][q] = NoConn
    <3>1. calls[c].joined = {}
      BY <1>1, <2>1, NoCallType DEF CInv, FreshInv
    <3>2. \A q \in Id : ~conn[c][q].open
      BY <1>1, <2>1, <3>1 DEF CInv, ConnectInv
    <3>3. QED
      BY <1>1, <2>1, <3>2 DEF CInv, TypeOK
  <2> HIDE DEF c
  <2>5. QED
    BY <1>1, <2>1, <2>2, <2>3, <2>4, MediaSame
<1>8. ASSUME NEW t \in Task, SendInvitations(t) PROVE MediaInv'
  <2>1. /\ UNCHANGED <<calls, conn, stray>> /\ task[t].op = "invite"
        /\ task'[t] = Idle \/ task'[t].op = "ring"
        /\ \A u \in Task : u # t => task'[u] = task[u]
    BY <1>1, <1>8, InviteCInv DEF media
  <2>2. \A u \in Task : task[u].op \in TrackOps \/ task'[u].op \in TrackOps => task'[u] = task[u]
    BY <2>1, IdleType DEF TrackOps
  <2>3. QED
    BY <1>1, <2>1, <2>2, MediaFrame
<1>9. ASSUME NEW t \in Task, Ring(t) PROVE MediaInv'
  <2>1. /\ UNCHANGED <<conn, stray>> /\ task[t].op = "ring" /\ task'[t] = Idle /\ task[t].call \in Call
        /\ \A u \in Task : u # t => task'[u] = task[u]
        /\ \A d \in Call : d # task[t].call => calls'[d] = calls[d]
        /\ calls'[task[t].call] = [calls[task[t].call] EXCEPT !.state = "Ringing"]
    BY <1>1, <1>9, RingCInv DEF media
  <2>2. \A d \in Call : /\ calls'[d].muted = calls[d].muted /\ calls'[d].video = calls[d].video
                        /\ calls'[d].sharing = calls[d].sharing
    <3>1. calls[task[t].call] \in CallRecord
      BY <1>1, <2>1 DEF CInv, TypeOK
    <3>2. QED
      BY <2>1, <3>1 DEF CallRecord
  <2>3. \A u \in Task : task[u].op \in TrackOps \/ task'[u].op \in TrackOps => task'[u] = task[u]
    BY <2>1, IdleType DEF TrackOps
  <2>4. UNCHANGED <<conn, stray>>
    BY <2>1
  <2>5. QED
    BY <1>1, <2>2, <2>3, <2>4, MediaFrame
<1>10. ASSUME NEW t \in Task, EstablishPeerConnection(t) PROVE MediaInv'
  <2>1. /\ UNCHANGED <<calls, stray>> /\ task[t].op = "connect" /\ task'[t] = Idle
        /\ \A u \in Task : u # t => task'[u] = task[u]
        /\ \A d \in Call, q \in Id : conn'[d][q] = conn[d][q] \/ conn'[d][q] = NewConn
    <3>1. /\ UNCHANGED <<calls, stray>> /\ task[t].op = "connect" /\ task'[t] = Idle
          /\ \A u \in Task : u # t => task'[u] = task[u]
      BY <1>1, <1>10, EstablishCInv
    <3>2. \A d \in Call, q \in Id : \/ conn'[d][q] = conn[d][q]
                                    \/ d = task[t].call /\ q = task[t].who /\ conn'[d][q] = NewConn
      BY <1>1, <1>10, EstablishCInv
    <3>3. QED
      BY <3>1, <3>2
  <2>2. \A u \in Task : task[u].op \in TrackOps \/ task'[u].op \in TrackOps => task'[u] = task[u]
    BY <2>1, IdleType DEF TrackOps
  <2>3. \A d \in Call, q \in Id : /\ conn'[d][q].audio => conn[d][q].audio
                                  /\ conn'[d][q].video => conn[d][q].video
    BY <2>1, ConnType
  <2>4. QED
    BY <1>1, <2>1, <2>2, <2>3, MediaFrame
<1>11. ASSUME NEW t \in Task, Disconnect(t) PROVE MediaInv'
  <2>1. /\ UNCHANGED <<calls, stray>> /\ task[t].op = "close" /\ task'[t] = Idle
        /\ \A u \in Task : u # t => task'[u] = task[u]
        /\ \A d \in Call, q \in Id : conn'[d][q] = conn[d][q] \/ conn'[d][q] = NoConn
    BY <1>1, <1>11, DisconnectLess
  <2>2. \A u \in Task : task[u].op \in TrackOps \/ task'[u].op \in TrackOps => task'[u] = task[u]
    BY <2>1, IdleType DEF TrackOps
  <2>3. \A d \in Call, q \in Id : /\ conn'[d][q].audio => conn[d][q].audio
                                  /\ conn'[d][q].video => conn[d][q].video
    BY <2>1, ConnType
  <2>4. QED
    BY <1>1, <2>1, <2>2, <2>3, MediaFrame
<1>12. ASSUME NEW c \in Call, RingTimeout(c) PROVE MediaInv'
  <2>1. /\ UNCHANGED <<task, conn, stray>> /\ calls' \in [Call -> CallRecord]
        /\ \A d \in Call : \/ calls'[d] = calls[d]
                           \/ calls'[d] = [calls[d] EXCEPT !.state = "TimedOut"]
    BY <1>1, <1>12, TimeoutLess DEF media
  <2>2. \A d \in Call : /\ calls'[d].muted = calls[d].muted /\ calls'[d].video = calls[d].video
                        /\ calls'[d].sharing = calls[d].sharing
    <3>1. \A d \in Call : calls[d] \in CallRecord
      BY <1>1 DEF CInv, TypeOK
    <3>2. QED
      BY <2>1, <3>1 DEF CallRecord
  <2>3. UNCHANGED <<task, conn, stray>>
    BY <2>1
  <2>4. QED
    BY <1>1, <2>2, <2>3, MediaFrame
<1>13. ASSUME NEW c \in Call, NEW p \in Id, RejectCall(c, p) PROVE MediaInv'
  <2>1. /\ UNCHANGED <<task, conn, stray>>
        /\ \A d \in Call : /\ calls'[d].muted = calls[d].muted /\ calls'[d].video = calls[d].video
                           /\ calls'[d].sharing = calls[d].sharing
    BY <1>1, <1>13, RejectLess DEF media
  <2>2. QED
    BY <1>1, <2>1, MediaFrame
<1>14. CASE Negotiate
  <2>1. /\ UNCHANGED <<calls, task, stray>>
        /\ \A d \in Call, q \in Id : /\ conn'[d][q].audio => conn[d][q].audio
                                     /\ conn'[d][q].video => conn[d][q].video
    BY <1>1, <1>14, NegotiateLess DEF Negotiate
  <2>2. QED
    BY <1>1, <2>1, MediaFrame
<1>15. CASE \E t \in Task : Toggle(t)
    BY <1>1, <1>15, ToggleMedia DEF Toggle
<1>16. CASE \E t \in Task : UpdateTrack(t)
    BY <1>1, <1>16, UpdateTrackMedia
<1>17. CASE \E t \in Task : FailTrack(t)
    BY <1>1, <1>17, FailTrackMedia
<1>18. QED
    BY <1>1, <1>2, <1>3, <1>4, <1>5, <1>6, <1>7, <1>8, <1>9, <1>10, <1>11, <1>12, <1>13, <1>14,
       <1>15, <1>16, <1>17 DEF Next, Answer, HangUp, Continue

\* Whether the connection came before a toggle, between its two halves or after
\* it: a participant the table calls muted is silent, and one that shows and
\* shares nothing sends no video, as soon as no toggle of that track is on its
\* way.  Two toggles of a track that overlap, and one that could not turn it
\* off, void this until the next toggle that runs alone.
THEOREM MutedStaysSilent == Spec => []MutedIsSilent
<1>1. Init => MediaInv
  <2>1. SUFFICES ASSUME Init PROVE MediaInv
    OBVIOUS
  <2>2. /\ \A t \in Task : task[t].op = "idle"
        /\ \A c \in Call, p \in Id : conn[c][p] = NoConn
    BY <2>1, IdleType DEF Init
  <2>3. QED
    BY <2>2, ConnType DEF MediaInv, AudioInv, VideoInv, ScreenInv, AtTrack
<1>2. MediaInv => MutedIsSilent
    BY DEF MediaInv, AudioInv, VideoInv, MutedIsSilent, Toggling, AtTrack
<1>3. CInv /\ MediaInv /\ [Next]_vars => MediaInv'
    BY StepMedia
<1>4. QED
    BY <1>1, <1>2, <1>3, AlwaysCInv, PTL DEF Spec

--------------------------------------------------------------------------------
\* The call stack implements CallPhases.

\* What a phase depends on
LEMMA PhaseSame ==
    ASSUME NEW c \in Call, calls'[c].state = calls[c].state, Pending(c)' <=> Pending(c)
    PROVE  Phase(c)' = Phase(c)
BY DEF Phase

LEMMA LinkSame ==
    ASSUME NEW c \in Call, calls'[c].joined = calls[c].joined, Connecting(c)' <=> Connecting(c),
           \A p \in Id : conn'[c][p].open <=> conn[c][p].open
    PROVE  Link(c)' = Link(c)
BY DEF Link

\* The phases of the invariant
LEMMA PhaseOf ==
    ASSUME CInv, NEW c \in Call
    PROVE  /\ Phase(c) = "none" <=> calls[c].state = "None"
           /\ Phase(c) = "ringing" <=> calls[c].state = "Ringing"
           /\ calls[c].joined = {} => Link(c) = "none"
<1>1. /\ Pending(c) => calls[c].state \notin {"Ringing", "Active"}
      /\ \A p \in Id : conn[c][p].open => p \in calls[c].joined
    BY DEF CInv, AnswerInv, ConnectInv
<1>2. Connecting(c) => calls[c].joined # {}
    BY DEF Connecting, CInv, ConnectInv
<1>3. QED
    BY <1>1, <1>2 DEF Phase, Link

\* The same for the abstract variables
LEMMA Stutters ==
    ASSUME \A c \in Call : /\ Phase(c)' = Phase(c) /\ Link(c)' = Link(c)
                           /\ calls'[c].joined = calls[c].joined
    PROVE  UNCHANGED Phases!vars
BY DEF Phases!vars

\* A step that is not about the phases
LEMMA QuietPhases ==
    ASSUME \A c \in Call : /\ calls'[c].state = calls[c].state /\ calls'[c].joined = calls[c].joined
                           /\ Pending(c)' <=> Pending(c)
                           /\ Connecting(c)' <=> Connecting(c)
                           /\ \A p \in Id : conn'[c][p].open <=> conn[c][p].open
    PROVE  UNCHANGED Phases!vars
BY PhaseSame, LinkSame, Stutters

\* A step of tasks that neither set up nor connect
LEMMA SameTasks ==
    ASSUME NEW t \in Task, \A u \in Task : u # t => task'[u] = task[u],
           task[t].op \notin {"invite", "ring", "connect"},
           task'[t].op \notin {"invite", "ring", "connect"}
    PROVE  \A c \in Call : (Pending(c)' <=> Pending(c)) /\ (Connecting(c)' <=> Connecting(c))
BY DEF Pending, Connecting

\* A call ends, or it was over or is still being set up.
LEMMA FinishPhases ==
    ASSUME CInv, Less, NEW c \in Call,
           \A d \in Call : d # c => calls'[d].state = calls[d].state,
           \A d \in Call : (Pending(d)' <=> Pending(d)) /\ (Connecting(d)' <=> Connecting(d)),
           \A d \in Call, q \in Id : conn'[d][q].open <=> conn[d][q].open
    PROVE  Phases!Finish(c) \/ UNCHANGED Phases!vars
<1>1. \A d \in Call : Link(d)' = Link(d) /\ calls'[d].joined = calls[d].joined
    BY LinkSame DEF Less
<1>2. \A d \in Call : d # c => Phase(d)' = Phase(d)
    BY PhaseSame
<1>3. \/ Phase(c)' = Phase(c)
      \/ Phase(c) \in {"setup", "ringing", "active"} /\ Phase(c)' = "over"
  <2>1. CASE calls'[c].state = calls[c].state
    BY <2>1, PhaseSame
  <2>2. CASE calls[c].state # "None" /\ calls'[c].state \in Over
    BY <2>2 DEF Phase, Over
  <2>3. QED
    BY <2>1, <2>2 DEF Less
<1>4. CASE Phase(c)' = Phase(c)
    BY <1>1, <1>2, <1>4, Stutters
<1>5. CASE Phase(c) \in {"setup", "ringing", "active"} /\ Phase(c)' = "over"
    BY <1>1, <1>2, <1>5 DEF Phases!Finish, Phases!Move
<1>6. QED
    BY <1>3, <1>4, <1>5

\* The call is stored: it is placed.
LEMMA StorePhases ==
    ASSUME CInv, NEW t \in Task, NEW v \in BOOLEAN, NEW m \in BOOLEAN, StoreCall(t, v, m),
           NEW c \in Call, c = task[t].call
    PROVE  Phases!Place(c)
<1>1. /\ UNCHANGED conn /\ task[t].op = "store" /\ task'[t].op = "invite"
      /\ task'[t].call = c
      /\ \A u \in Task : u # t => task'[u] = task[u]
      /\ \A d \in Call : d # c => calls'[d] = calls[d]
      /\ calls[c].state = "None" /\ calls'[c].state = "Initiating" /\ calls'[c].joined = {}
    BY StoreCInv DEF media
<1>2. calls[c].joined = {}
    BY <1>1, NoCallType DEF CInv, FreshInv
<1>3. \A d \in Call : /\ d # c => (Pending(d)' <=> Pending(d))
                      /\ Connecting(d)' <=> Connecting(d)
    BY <1>1 DEF Pending, Connecting
<1>4. \A d \in Call : Link(d)' = Link(d) /\ calls'[d].joined = calls[d].joined
    BY <1>1, <1>2, <1>3, LinkSame
<1>5. \A d \in Call : d # c => Phase(d)' = Phase(d)
    BY <1>1, <1>3, PhaseSame
<1>6. Phase(c) = "none" /\ Phase(c)' = "setup"
    BY <1>1 DEF Phase
<1>7. QED
    BY <1>4, <1>5, <1>6 DEF Phases!Place, Phases!Move

\* The invitations go out, or one fails: then the call keeps its phase, or it
\* was hung up before and is over now.
LEMMA InvitePhases ==
    ASSUME CInv, NEW t \in Task, SendInvitations(t), NEW c \in Call, c = task[t].call
    PROVE  Phases!Finish(c) \/ UNCHANGED Phases!vars
<1>1. /\ UNCHANGED calls /\ UNCHANGED conn /\ task[t].op = "invite"
      /\ task'[t] = Idle \/ (task'[t].op = "ring" /\ task'[t].call = c)
      /\ \A u \in Task : u # t => task'[u] = task[u]
    BY InviteCInv DEF media
<1>2. \A d \in Call : /\ d # c => (Pending(d)' <=> Pending(d))
                      /\ Connecting(d)' <=> Connecting(d)
    BY <1>1, IdleType DEF Pending, Connecting
<1>3. \A d \in Call : Link(d)' = Link(d) /\ calls'[d].joined = calls[d].joined
    BY <1>1, <1>2, LinkSame
<1>4. \A d \in Call : d # c => Phase(d)' = Phase(d)
    BY <1>1, <1>2, PhaseSame
<1>5. Pending(c) /\ calls[c].state # "None" /\ calls[c].state \notin {"Ringing", "Active"}
  <2>1. Pending(c)
    BY <1>1 DEF Pending
  <2>2. QED
    BY <1>1, <2>1 DEF CInv, AnswerInv, FreshInv
<1>6. Phase(c) = "setup"
    BY <1>5 DEF Phase
<1>7. Phase(c)' = "setup" \/ Phase(c)' = "over"
    BY <1>1, <1>5 DEF Phase
<1>8. CASE Phase(c)' = "setup"
    BY <1>3, <1>4, <1>6, <1>8, Stutters
<1>9. CASE Phase(c)' = "over"
    BY <1>3, <1>4, <1>6, <1>9 DEF Phases!Finish, Phases!Move
<1>10. QED
    BY <1>7, <1>8, <1>9

\* The setup is done: the call rings, whatever became of it meanwhile.
LEMMA RingPhases ==
    ASSUME CInv, NEW t \in Task, Ring(t), NEW c \in Call, c = task[t].call
    PROVE  Phases!Ring(c)
<1>1. /\ UNCHANGED conn /\ task[t].op = "ring" /\ task'[t] = Idle
      /\ \A u \in Task : u # t => task'[u] = task[u]
      /\ \A d \in Call : d # c => calls'[d] = calls[d]
      /\ calls'[c].state = "Ringing" /\ calls'[c].joined = {}
      /\ calls[c].joined = {} /\ calls[c].state # "None"
      /\ \A d \in Call : Pending(d)' <=> Pending(d) /\ d # c
    BY RingCInv DEF media
<1>2. \A d \in Call : Connecting(d)' <=> Connecting(d)
    BY <1>1, IdleType DEF Connecting
<1>3. \A d \in Call : Link(d)' = Link(d) /\ calls'[d].joined = calls[d].joined
    BY <1>1, <1>2, LinkSame
<1>4. \A d \in Call : d # c => Phase(d)' = Phase(d)
    BY <1>1, PhaseSame
<1>5. Phase(c) = "setup"
  <2>1. Pending(c)
    BY <1>1 DEF Pending
  <2>2. QED
    BY <1>1, <2>1 DEF Phase
<1>6. Phase(c)' = "ringing"
    BY <1>1 DEF Phase
<1>7. QED
    BY <1>3, <1>4, <1>5, <1>6 DEF Phases!Ring, Phases!Move

\* The first to accept answers the call.
LEMMA AcceptPhases ==
    ASSUME CInv, NEW t \in Task, NEW c \in Call, NEW p \in Id, AcceptCall(t, c, p)
    PROVE  Phases!Answer(c, p)
<1>1. /\ UNCHANGED conn /\ task[t] = Idle /\ task'[t].op = "connect" /\ task'[t].call = c
      /\ \A u \in Task : u # t => task'[u] = task[u]
      /\ \A d \in Call : d # c => calls'[d] = calls[d]
      /\ calls[c].state = "Ringing" /\ calls'[c].state = "Active"
      /\ calls[c].joined = {} /\ calls'[c].joined = {p}
      /\ ~Pending(c)
    BY AcceptCInv DEF media
<1>2. \A d \in Call : /\ Pending(d)' <=> Pending(d)
                      /\ d # c => (Connecting(d)' <=> Connecting(d))
    BY <1>1, IdleType DEF Pending, Connecting
<1>3. \A d \in Call : d # c => Link(d)' = Link(d) /\ Phase(d)' = Phase(d)
                               /\ calls'[d].joined = calls[d].joined
    BY <1>1, <1>2, LinkSame, PhaseSame
<1>4. Phase(c) = "ringing" /\ Phase(c)' = "active"
    BY <1>1, <1>2 DEF Phase
<1>5. Link(c)' = "pending"
  <2>1. \A q \in Id : ~conn[c][q].open
    BY <1>1 DEF CInv, ConnectInv
  <2>2. Connecting(c)'
    BY <1>1 DEF Connecting
  <2>3. QED
    BY <1>1, <2>1, <2>2 DEF Link
<1>6. QED
    BY <1>1, <1>3, <1>4, <1>5 DEF Phases!Answer, Phases!Move

\* The connection comes up, or it does not.
LEMMA EstablishPhases ==
    ASSUME CInv, NEW t \in Task, EstablishPeerConnection(t), NEW c \in Call, c = task[t].call
    PROVE  Phases!Connect(c)
<1>1. /\ UNCHANGED calls /\ task[t].op = "connect"
      /\ task'[t] = Idle /\ \A u \in Task : u # t => task'[u] = task[u]
      /\ \A q \in Id : ~conn[c][q].open
      /\ \A d \in Call, q \in Id : d # c => conn'[d][q] = conn[d][q]
      /\ ~Connecting(c)' /\ calls[c].joined # {}
  <2>1. /\ UNCHANGED calls /\ task[t].op = "connect"
        /\ task'[t] = Idle /\ \A u \in Task : u # t => task'[u] = task[u]
    BY EstablishCInv
  <2>2. /\ \A q \in Id : ~conn[task[t].call][q].open
        /\ calls[task[t].call].joined # {}
    BY EstablishCInv
  <2>3. \A d \in Call : d = task[t].call => ~Connecting(d)'
    BY EstablishCInv
  <2>4. \A d \in Call, q \in Id : \/ conn'[d][q] = conn[d][q]
                                  \/ d = task[t].call /\ q = task[t].who /\ conn'[d][q] = NewConn
    BY EstablishCInv
  <2>5. QED
    BY <2>1, <2>2, <2>3, <2>4
<1>2. \A d \in Call : /\ Pending(d)' <=> Pending(d)
                      /\ d # c => (Connecting(d)' <=> Connecting(d))
    BY <1>1, IdleType DEF Pending, Connecting
<1>3. \A d \in Call : d # c => Link(d)' = Link(d)
    BY <1>1, <1>2, LinkSame
<1>4. \A d \in Call : Phase(d)' = Phase(d) /\ calls'[d].joined = calls[d].joined
    BY <1>1, <1>2, PhaseSame
<1>5. Link(c) = "pending"
  <2>1. Connecting(c)
    BY <1>1 DEF Connecting
  <2>2. QED
    BY <1>1, <2>1 DEF Link
<1>6. Link(c)' = "up" \/ Link(c)' = "down"
    BY <1>1 DEF Link
<1>7. CASE Link(c)' = "up"
    BY <1>3, <1>4, <1>5, <1>7 DEF Phases!Connect
<1>8. CASE Link(c)' = "down"
    BY <1>3, <1>4, <1>5, <1>8 DEF Phases!Connect
<1>9. QED
    BY <1>6, <1>7, <1>8

\* A connection is closed: it was the only one of its call.
LEMMA DisconnectPhases ==
    ASSUME CInv, NEW t \in Task, Disconnect(t), NEW c \in Call, c = task[t].call
    PROVE  Phases!Disconnect(c) \/ UNCHANGED Phases!vars
<1>1. PICK p \in Id : p = task[t].who
    BY DisconnectLess
<1>2. /\ UNCHANGED calls /\ task[t].op = "close" /\ task'[t] = Idle
      /\ \A u \in Task : u # t => task'[u] = task[u]
      /\ conn'[c][p] = NoConn
      /\ \A d \in Call, q \in Id : d # c \/ q # p => conn'[d][q] = conn[d][q]
    BY <1>1, DisconnectLess
<1>3. \A d \in Call : (Pending(d)' <=> Pending(d)) /\ (Connecting(d)' <=> Connecting(d))
    BY <1>2, SameTasks, IdleType
<1>4. CASE conn[c][p].open
  <2>1. \A d \in Call : d # c => Link(d)' = Link(d)
    BY <1>2, <1>3, LinkSame
  <2>2. \A d \in Call : Phase(d)' = Phase(d) /\ calls'[d].joined = calls[d].joined
    BY <1>2, <1>3, PhaseSame
  <2>3. Link(c) = "up"
    BY <1>4 DEF Link
  <2>4. \A q \in Id : ~conn'[c][q].open
    <3>1. \A q \in Id : conn[c][q].open => q = p
      BY <1>4 DEF CInv, ConnectInv, AnswerInv
    <3>2. QED
      BY <1>2, <3>1, ConnType
  <2>5. ~Connecting(c)' /\ calls'[c].joined # {}
    <3>1. ~Connecting(c)
      BY <1>4 DEF Connecting, CInv, ConnectInv
    <3>2. calls[c].joined # {}
      BY <1>4 DEF CInv, ConnectInv
    <3>3. QED
      BY <1>2, <1>3, <3>1, <3>2
  <2>6. Link(c)' = "down"
    BY <2>4, <2>5 DEF Link
  <2>7. QED
    BY <2>1, <2>2, <2>3, <2>6 DEF Phases!Disconnect
<1>5. CASE ~conn[c][p].open
  <2>1. \A d \in Call, q \in Id : conn'[d][q].open <=> conn[d][q].open
    BY <1>2, <1>5, ConnType
  <2>2. QED
    BY <1>2, <1>3, <2>1, QuietPhases
<1>6. QED
    BY <1>4, <1>5

LEMMA StepPhases == CInv /\ [Next]_vars => [Phases!Next]_(Phases!vars)
<1>1. SUFFICES ASSUME CInv, [Next]_vars PROVE Phases!Next \/ UNCHANGED Phases!vars
    OBVIOUS
<1>2. \A c \in Call : \/ Phases!Place(c) \/ Phases!Ring(c) \/ Phases!Finish(c)
                      \/ Phases!Connect(c) \/ Phases!Disconnect(c)
                      \/ \E p \in Id : Phases!Answer(c, p)
                      => Phases!Next
    BY DEF Phases!Next
<1>3. CASE UNCHANGED vars
  <2>1. UNCHANGED <<calls, task, conn>>
    BY <1>3 DEF vars
  <2>2. QED
    BY <2>1, QuietPhases DEF Pending, Connecting
<1>4. CASE (\E p \in Id : RegisterClient(p) \/ DropClient(p)) \/ StopListening
  <2>1. UNCHANGED <<calls, task, conn>>
    BY <1>1, <1>4, SignalLess DEF media
  <2>2. QED
    BY <2>1, QuietPhases DEF Pending, Connecting
<1>5. ASSUME NEW t \in Task, Initiate(t) PROVE UNCHANGED Phases!vars
  <2>1. /\ UNCHANGED <<calls, conn>> /\ task[t] = Idle /\ task'[t].op = "store"
        /\ \A u \in Task : u # t => task'[u] = task[u]
    BY <1>1, <1>5, CheckLimitCInv DEF media
  <2>2. \A d \in Call : (Pending(d)' <=> Pending(d)) /\ (Connecting(d)' <=> Connecting(d))
    BY <2>1, SameTasks, IdleType
  <2>3. QED
    BY <2>1, <2>2, QuietPhases
<1>6. ASSUME NEW t \in Task, NEW c \in Call, NEW p \in Id, AcceptCall(t, c, p) PROVE Phases!Next
    BY <1>1, <1>2, <1>6, AcceptPhases
<1>7. ASSUME NEW t \in Task, NEW c \in Call, NEW p \in Id, EndCall(t, c, p)
      PROVE  Phases!Next \/ UNCHANGED Phases!vars
  <2>1. /\ Less /\ UNCHANGED conn /\ task[t] = Idle /\ task'[t].op = "close"
        /\ \A u \in Task : u # t => task'[u] = task[u]
        /\ \A d \in Call : d # c => calls'[d].state = calls[d].state
    BY <1>1, <1>7, EndLess DEF media
  <2>2. \A d \in Call : (Pending(d)' <=> Pending(d)) /\ (Connecting(d)' <=> Connecting(d))
    BY <2>1, SameTasks, IdleType
  <2>3. Phases!Finish(c) \/ UNCHANGED Phases!vars
    BY <1>1, <2>1, <2>2, FinishPhases
  <2>4. QED
    BY <1>2, <2>3
<1>8. ASSUME NEW t \in Task, NEW v \in BOOLEAN, NEW m \in BOOLEAN, StoreCall(t, v, m) PROVE Phases!Next
  <2>1. PICK c \in Call : c = task[t].call
    BY <1>1, <1>8, StoreCInv
  <2>2. QED
    BY <1>1, <1>2, <1>8, <2>1, StorePhases
<1>9. ASSUME NEW t \in Task, SendInvitations(t) PROVE Phases!Next \/ UNCHANGED Phases!vars
  <2>1. PICK c \in Call : c = task[t].call
    BY <1>1, <1>9, InviteCInv
  <2>2. QED
    BY <1>1, <1>2, <1>9, <2>1, InvitePhases
<1>10. ASSUME NEW t \in Task, Ring(t) PROVE Phases!Next
  <2>1. PICK c \in Call : c = task[t].call
    BY <1>1, <1>10, RingCInv
  <2>2. QED
    BY <1>1, <1>2, <1>10, <2>1, RingPhases
<1>11. ASSUME NEW t \in Task, EstablishPeerConnection(t) PROVE Phases!Next
  <2>1. PICK c \in Call : c = task[t].call
    BY <1>1, <1>11, EstablishCInv
  <2>2. QED
    BY <1>1, <1>2, <1>11, <2>1, EstablishPhases
<1>12. ASSUME NEW t \in Task, Disconnect(t) PROVE Phases!Next \/ UNCHANGED Phases!vars
  <2>1. PICK c \in Call : c = task[t].call
    BY <1>1, <1>12, DisconnectLess
  <2>2. QED
    BY <1>1, <1>2, <1>12, <2>1, DisconnectPhases
<1>13. ASSUME NEW t \in Task, UpdateTrack(t) PROVE UNCHANGED Phases!vars
  <2>1. /\ UNCHANGED calls /\ task[t].op \in {"audio", "video", "screen"} /\ task'[t] = Idle
        /\ \A u \in Task : u # t => task'[u] = task[u]
        /\ \A d \in Call, q \in Id : (conn'[d][q].open <=> conn[d][q].open)
    BY <1>1, <1>13, UpdateTrackLess
  <2>2. \A d \in Call : (Pending(d)' <=> Pending(d)) /\ (Connecting(d)' <=> Connecting(d))
    BY <2>1, SameTasks, IdleType
  <2>3. QED
    BY <2>1, <2>2, QuietPhases
<1>13a. ASSUME NEW t \in Task, FailTrack(t) PROVE UNCHANGED Phases!vars
  <2>1. /\ UNCHANGED <<calls, conn>> /\ task[t].op \in {"audio", "video", "screen"} /\ task'[t] = Idle
        /\ \A u \in Task : u # t => task'[u] = task[u]
    BY <1>1, <1>13a, FailTrackLess
  <2>2. \A d \in Call : (Pending(d)' <=> Pending(d)) /\ (Connecting(d)' <=> Connecting(d))
    BY <2>1, SameTasks, IdleType
  <2>3. QED
    BY <2>1, <2>2, QuietPhases
<1>14. ASSUME NEW t \in Task, NEW c \in Call, NEW p \in Id,
              ToggleMute(t, c, p) \/ ToggleVideo(t, c, p) \/ StartScreenShare(t, c, p)
       PROVE  UNCHANGED Phases!vars
  <2>1. /\ UNCHANGED conn /\ task[t] = Idle /\ task'[t].op \in {"audio", "video", "screen"}
        /\ \A u \in Task : u # t => task'[u] = task[u]
        /\ \A d \in Call : calls'[d].state = calls[d].state /\ calls'[d].joined = calls[d].joined
    BY <1>1, <1>14, ToggleCInv
  <2>2. \A d \in Call : (Pending(d)' <=> Pending(d)) /\ (Connecting(d)' <=> Connecting(d))
    BY <2>1, SameTasks, IdleType
  <2>3. QED
    BY <2>1, <2>2, QuietPhases
<1>15. ASSUME NEW c \in Call, RingTimeout(c) PROVE Phases!Next \/ UNCHANGED Phases!vars
  <2>1. /\ Less /\ UNCHANGED <<task, conn>> /\ \A d \in Call : d # c => calls'[d].state = calls[d].state
    BY <1>1, <1>15, TimeoutLess DEF media
  <2>2. \A d \in Call : (Pending(d)' <=> Pending(d)) /\ (Connecting(d)' <=> Connecting(d))
    BY <2>1 DEF Pending, Connecting
  <2>3. Phases!Finish(c) \/ UNCHANGED Phases!vars
    BY <1>1, <2>1, <2>2, FinishPhases
  <2>4. QED
    BY <1>2, <2>3
<1>16. ASSUME NEW c \in Call, NEW p \in Id, RejectCall(c, p) PROVE Phases!Next \/ UNCHANGED Phases!vars
  <2>1. /\ Less /\ UNCHANGED <<task, conn>> /\ \A d \in Call : d # c => calls'[d].state = calls[d].state
    BY <1>1, <1>16, RejectLess DEF media
  <2>2. \A d \in Call : (Pending(d)' <=> Pending(d)) /\ (Connecting(d)' <=> Connecting(d))
    BY <2>1 DEF Pending, Connecting
  <2>3. Phases!Finish(c) \/ UNCHANGED Phases!vars
    BY <1>1, <2>1, <2>2, FinishPhases
  <2>4. QED
    BY <1>2, <2>3
<1>17. CASE Negotiate
  <2>1. /\ UNCHANGED <<calls, task>>
        /\ \A d \in Call, q \in Id : conn'[d][q].open <=> conn[d][q].open
    BY <1>1, <1>17, NegotiateLess DEF Negotiate
  <2>2. \A d \in Call : (Pending(d)' <=> Pending(d)) /\ (Connecting(d)' <=> Connecting(d))
    BY <2>1 DEF Pending, Connecting
  <2>3. QED
    BY <2>1, <2>2, QuietPhases
<1>18. CASE \E t \in Task : Continue(t)
    BY <1>8, <1>9, <1>10, <1>11, <1>12, <1>13, <1>13a, <1>18 DEF Continue
<1>19. CASE \E t \in Task : Initiate(t) \/ Answer(t) \/ HangUp(t) \/ Toggle(t)
    BY <1>5, <1>6, <1>7, <1>14, <1>19 DEF Answer, HangUp, Toggle
<1>20. QED
    BY <1>1, <1>3, <1>4, <1>15, <1>16, <1>17, <1>18, <1>19 DEF Next

\* Whatever the tasks of the runtime, the timers and the peers do, and in any
\* order: every call is placed, rings, is answered and ends at most once, is
\* answered by one participant at most, and its one connection does not come
\* back once it is down.
THEOREM CallsHavePhases == Spec => PhasesSpec
<1>1. Init => Phases!Init
  <2>1. SUFFICES ASSUME Init PROVE Phases!Init
    OBVIOUS
  <2>2. \A c \in Call : calls[c].state = "None" /\ calls[c].joined = {}
    BY <2>1, NoCallType DEF Init
  <2>3. CInv
    BY <2>1, InitCInv
  <2>4. \A c \in Call : Phase(c) = "none" /\ Link(c) = "none"
    BY <2>2, <2>3, PhaseOf
  <2>5. QED
    BY <2>2, <2>4 DEF Phases!Init
<1>2. CInv /\ [Next]_vars => [Phases!Next]_(Phases!vars)
    BY StepPhases
<1>3. QED
    BY <1>1, <1>2, AlwaysCInv, PTL DEF Spec, PhasesSpec, Phases!Spec
================================================================================
