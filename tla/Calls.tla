--------------------------------- MODULE Calls ---------------------------------
(***************************************************************************)
(* Voice and video calls: the table of CallManager, the clients of the     *)
(* SignalingServer, the peer connections and the ICE cache of              *)
(* WebRTCManager.                                                          *)
(*                                                                         *)
(* An operation is a task of the async runtime: it takes a lock, changes   *)
(* one table, releases the lock and goes on after other tasks have run.    *)
(* One action is what a task does under one lock.  An operation that fails *)
(* before it changed anything is left out.  CallManager keeps no history,  *)
(* entries of the table are never removed.                                 *)
(***************************************************************************)
EXTENDS Integers, FiniteSets

CONSTANTS Call,             \* call identifiers
          Id,               \* identities
          Task,             \* tasks that run operations
          Caller,           \* the tasks among them that run initiate_call
          Candidate,        \* ICE candidates
          MaxConcurrent,    \* max_concurrent_calls
          MaxParticipants,  \* max_participants
          Ops,              \* operations of the instance
          None              \* no call, nobody

ASSUME LimitsAssumption == MaxConcurrent \in Nat /\ MaxParticipants \in Nat
ASSUME CallerAssumption == Caller \subseteq Task /\ Caller # {} /\ IsFiniteSet(Caller)
ASSUME NoneAssumption == None \notin Call \cup Id

VARIABLES
    calls,      \* calls[c]: the entry of the table
    client,     \* identities with a signalling client that can receive
    listening,  \* whether the application still receives call events
    timers,     \* calls whose ring timeout has not run
    task,       \* task[t]: what t has left to do
    conn,       \* conn[c][p]: the peer connection
    ice,        \* ice[c][p]: cached candidates
    accepted,   \* accepted[c][p]: history, candidates taken since the last close and not
                \* given up with an error
    stray       \* stray[c][p]: history, tracks whose last change ran beside another one or
                \* did not turn them off

vars == <<calls, client, listening, timers, task, conn, ice, accepted, stray>>
signalling == <<client, listening>>
media == <<conn, ice, accepted, stray>>

--------------------------------------------------------------------------------

Over == {"Ended", "Rejected", "TimedOut"}
CallState == {"None", "Initiating", "Ringing", "Active"} \cup Over
ParticipantState == {"None", "Invited", "Connecting", "Left"}

CallRecord == [state : CallState, initiator : Id \cup {None}, part : [Id -> ParticipantState],
               joined : SUBSET Id, muted : SUBSET Id, video : SUBSET Id, sharing : SUBSET Id]

\* An entry of the table that is not there
NoCall == [state |-> "None", initiator |-> None,
           part |-> [p \in Id |-> "None"],
           joined |-> {}, muted |-> {}, video |-> {}, sharing |-> {}]

\* The call that initiate_call stores
NewCall(initiator, ps, video, mute) ==
    [state |-> "Initiating", initiator |-> initiator,
     part |-> [p \in Id |-> IF p \in ps THEN "Invited" ELSE "None"],
     joined |-> {}, muted |-> IF mute THEN ps ELSE {},
     video |-> IF video THEN ps ELSE {}, sharing |-> {}]

NoConn == [open |-> FALSE, audio |-> FALSE, video |-> FALSE,
           offered |-> FALSE, remote |-> FALSE, answered |-> FALSE, cands |-> {}]

\* PeerConnection, on top of webrtc-rs.  A new one has no tracks and no descriptions.
NewConn == [NoConn EXCEPT !.open = TRUE]

\* Mutant: disabling does not take the track off the sender
WithAudioOnly(k, on) == [k EXCEPT !.audio = @ \/ on]

\* A track is created when it is first enabled, and taken off the sender to disable it
WithAudio(k, on) == [k EXCEPT !.audio = on]
WithVideo(k, on) == [k EXCEPT !.video = on]

\* Screen sharing uses the video track
WithScreen(k) == WithVideo(k, TRUE)

\* create_offer installs a local offer; create_answer installs the other side's offer and
\* the answer; set_remote_description the answer to our offer.
WithOffer(k) == [k EXCEPT !.offered = TRUE]
WithAnswer(k) == [k EXCEPT !.remote = TRUE]
WithRemote(k) == [k EXCEPT !.remote = TRUE, !.answered = TRUE, !.offered = FALSE]
WithCandidates(k, xs) == [k EXCEPT !.cands = @ \cup xs]

Idle == [op |-> "idle", call |-> None, who |-> None, ps |-> {}, on |-> FALSE]

TaskRecord == [op : {"idle", "store", "invite", "ring", "connect", "close",
                     "audio", "video", "screen"},
               call : Call \cup {None}, who : Id \cup {None}, ps : SUBSET Id, on : BOOLEAN]

ConnRecord == [open : BOOLEAN, audio : BOOLEAN, video : BOOLEAN,
               offered : BOOLEAN, remote : BOOLEAN, answered : BOOLEAN,
               cands : SUBSET Candidate]

TypeOK ==
    /\ calls \in [Call -> CallRecord]
    /\ client \subseteq Id
    /\ listening \in BOOLEAN
    /\ timers \subseteq Call
    /\ task \in [Task -> TaskRecord]
    /\ conn \in [Call -> [Id -> ConnRecord]]
    /\ \A c \in Call, p \in Id : conn[c][p].open \/ conn[c][p] = NoConn
    /\ ice \in [Call -> [Id -> SUBSET Candidate]]
    /\ accepted \in [Call -> [Id -> SUBSET Candidate]]
    /\ stray \in [Call -> [Id -> SUBSET {"audio", "video"}]]

Init ==
    /\ calls = [c \in Call |-> NoCall]
    /\ client = {}
    /\ listening = TRUE
    /\ timers = {}
    /\ task = [t \in Task |-> Idle]
    /\ conn = [c \in Call |-> [p \in Id |-> NoConn]]
    /\ ice = [c \in Call |-> [p \in Id |-> {}]]
    /\ accepted = [c \in Call |-> [p \in Id |-> {}]]
    /\ stray = [c \in Call |-> [p \in Id |-> {}]]

--------------------------------------------------------------------------------

Live == {c \in Call : calls[c].state \in {"Active", "Ringing"}}
Fresh == {c \in Call : calls[c].state = "None" /\ \A t \in Task : task[t].op = "store" => task[t].call # c}
Participants(c) == {p \in Id : calls[c].part[p] # "None"}

Begin(t, op, c, p) == task[t] = Idle /\ task' = [task EXCEPT ![t] = [Idle EXCEPT !.op = op, !.call = c, !.who = p]]
At(t, op) == task[t].op = op
Goto(t, op) == task' = [task EXCEPT ![t].op = op]
Return(t) == task' = [task EXCEPT ![t] = Idle]

(***************************************************************************)
(* SignalingServer: a registered client replaces the one before; one whose *)
(* receiver is gone stays in the map and sending to it fails.              *)
(***************************************************************************)
RegisterClient(p) ==
    /\ "signal" \in Ops
    /\ p \notin client
    /\ client' = client \cup {p}
    /\ UNCHANGED <<calls, listening, timers, task, media>>

DropClient(p) ==
    /\ "drop" \in Ops
    /\ p \in client
    /\ client' = client \ {p}
    /\ UNCHANGED <<calls, listening, timers, task, media>>

\* The application drops the receiver of call events
StopListening ==
    /\ "deaf" \in Ops
    /\ listening
    /\ listening' = FALSE
    /\ UNCHANGED <<calls, client, timers, task, media>>

(***************************************************************************)
(* initiate_call: the limits are checked under a read lock, the call is    *)
(* stored, the invitations go out, the state becomes Ringing whatever it   *)
(* is by then, and the ring timeout is started.                            *)
(***************************************************************************)
\* Mutant: the limit is compared one too late
CheckLimitLate(t, c, p, ps) ==
    /\ task[t] = Idle
    /\ c \in Fresh
    /\ ps # {} /\ Cardinality(ps) <= MaxParticipants
    /\ Cardinality(Live) <= MaxConcurrent
    /\ task' = [task EXCEPT ![t] = [Idle EXCEPT !.op = "store", !.call = c, !.who = p, !.ps = ps]]
    /\ UNCHANGED <<calls, signalling, timers, media>>

CheckLimit(t, c, p, ps) ==
    /\ task[t] = Idle
    /\ c \in Fresh
    /\ ps # {} /\ Cardinality(ps) <= MaxParticipants
    /\ Cardinality(Live) < MaxConcurrent
    /\ task' = [task EXCEPT ![t] = [Idle EXCEPT !.op = "store", !.call = c, !.who = p, !.ps = ps]]
    /\ UNCHANGED <<calls, signalling, timers, media>>

StoreCall(t, video, mute) ==
    /\ At(t, "store")
    /\ video \/ mute => "media" \in Ops
    /\ calls' = [calls EXCEPT ![task[t].call] = NewCall(task[t].who, task[t].ps, video, mute)]
    /\ task' = [task EXCEPT ![t].op = "invite", ![t].ps = {}]
    /\ UNCHANGED <<signalling, timers, media>>

\* Everybody but the initiator is sent an invitation and an event is raised for
\* each; the first that fails ends the operation and leaves the call Initiating.
SendInvitations(t) ==
    LET c == task[t].call
        guests == Participants(c) \ {calls[c].initiator} IN
    /\ At(t, "invite")
    /\ IF guests \subseteq client /\ (listening \/ guests = {}) THEN Goto(t, "ring") ELSE Return(t)
    /\ UNCHANGED <<calls, signalling, timers, media>>

\* Mutant: no timer is started
RingWithoutTimer(t) ==
    /\ At(t, "ring")
    /\ calls' = [calls EXCEPT ![task[t].call].state = "Ringing"]
    /\ Return(t)
    /\ UNCHANGED <<signalling, timers, media>>

\* update_call_state, then start_ring_timeout unless the event could not be sent
Ring(t) ==
    /\ At(t, "ring")
    /\ calls' = [calls EXCEPT ![task[t].call].state = "Ringing"]
    /\ timers' = IF listening THEN timers \cup {task[t].call} ELSE timers
    /\ Return(t)
    /\ UNCHANGED <<signalling, media>>

RingTimeout(c) ==
    /\ c \in timers
    /\ timers' = timers \ {c}
    /\ calls' = IF calls[c].state = "Ringing" THEN [calls EXCEPT ![c].state = "TimedOut"] ELSE calls
    /\ UNCHANGED <<signalling, task, media>>

(***************************************************************************)
(* accept_call: the table, then the peer connection                        *)
(***************************************************************************)
\* Mutant: a call that is active may be accepted as well
AcceptActive(t, c, p) ==
    /\ p \in Participants(c)
    /\ calls[c].state \in {"Ringing", "Active"}
    /\ Begin(t, "connect", c, p)
    /\ calls' = [calls EXCEPT ![c].part[p] = "Connecting", ![c].joined = @ \cup {p}, ![c].state = "Active"]
    /\ UNCHANGED <<signalling, timers, media>>

\* The first to accept makes the call Active, after which nobody else can.
AcceptCall(t, c, p) ==
    LET part == [calls[c].part EXCEPT ![p] = "Connecting"] IN
    /\ p \in Participants(c)
    /\ calls[c].state = "Ringing"
    /\ Begin(t, "connect", c, p)
    /\ calls' = [calls EXCEPT ![c].part = part, ![c].joined = @ \cup {p},
                    ![c].state = IF Cardinality({q \in Id : part[q] = "Connecting"}) = 1
                                 THEN "Active" ELSE @]
    /\ UNCHANGED <<signalling, timers, media>>

\* WebRTCManager inserts the connection when PeerConnection::new, which may fail, is done
CreatePeerConnection(c, p) == conn' \in {conn, [conn EXCEPT ![c][p] = NewConn]}

EstablishPeerConnection(t) ==
    /\ At(t, "connect")
    /\ CreatePeerConnection(task[t].call, task[t].who)
    /\ Return(t)
    /\ UNCHANGED <<calls, signalling, timers, ice, accepted, stray>>

RejectCall(c, p) ==
    LET part == [calls[c].part EXCEPT ![p] = "Left"] IN
    /\ "reject" \in Ops
    /\ p \in Participants(c)
    /\ calls' = [calls EXCEPT ![c].part = part,
                    ![c].state = IF \E q \in Id : part[q] \in {"Invited", "Connecting"} THEN @ ELSE "Rejected"]
    /\ UNCHANGED <<signalling, timers, task, media>>

(***************************************************************************)
(* end_call: the initiator ends the call for everyone.  The others leave;  *)
(* as no participant is ever Connected in the table, the call ends for     *)
(* everyone then too, even when the caller was not part of it.             *)
(***************************************************************************)
EndCall(t, c, p) ==
    /\ calls[c].state # "None"
    /\ Begin(t, "close", c, p)
    /\ calls' = [calls EXCEPT ![c].state = "Ended",
                    ![c].part[p] = IF p # calls[c].initiator /\ @ # "None" THEN "Left" ELSE @]
    /\ UNCHANGED <<signalling, timers, media>>

\* A close that fails keeps the cached candidates
ClosePeerConnection(c, p) ==
    /\ conn' = [conn EXCEPT ![c][p] = NoConn]
    /\ \/ ice' = [ice EXCEPT ![c][p] = {}]
       \/ conn[c][p].open /\ UNCHANGED ice
    /\ accepted' = [accepted EXCEPT ![c][p] = {}]

\* Only the connection of the caller is closed
Disconnect(t) ==
    /\ At(t, "close")
    /\ ClosePeerConnection(task[t].call, task[t].who)
    /\ Return(t)
    /\ UNCHANGED <<calls, signalling, timers, stray>>

--------------------------------------------------------------------------------
(***************************************************************************)
(* Media.  The flag of the participant changes in the table, the track     *)
(* after the lock on the table is gone, if there is a connection by then.  *)
(***************************************************************************)

\* The tracks that op turns off and on; a screen share only turns one on
Toggled(op) == {op} \cap {"audio", "video"}

Toggling(c, p, op) == \E t \in Task : task[t].op = op /\ task[t].call = c /\ task[t].who = p

\* p asks for a change of its tracks: what is left is to do op, with on
Change(t, c, p, op, on) ==
    /\ "media" \in Ops
    /\ p \in Participants(c)
    /\ task[t] = Idle
    /\ task' = [task EXCEPT ![t] = [Idle EXCEPT !.op = op, !.call = c, !.who = p, !.on = on]]
    /\ stray' = [stray EXCEPT ![c][p] = IF Toggling(c, p, op) THEN @ \cup Toggled(op) ELSE @ \ Toggled(op)]
    /\ UNCHANGED <<signalling, timers, conn, ice, accepted>>

ToggleMute(t, c, p) ==
    LET muted == p \notin calls[c].muted IN
    /\ Change(t, c, p, "audio", ~muted)
    /\ calls' = [calls EXCEPT ![c].muted = IF muted THEN @ \cup {p} ELSE @ \ {p}]

ToggleVideo(t, c, p) ==
    LET on == p \notin calls[c].video IN
    /\ Change(t, c, p, "video", on)
    /\ calls' = [calls EXCEPT ![c].video = IF on THEN @ \cup {p} ELSE @ \ {p}]

StartScreenShare(t, c, p) ==
    /\ Change(t, c, p, "screen", TRUE)
    /\ calls' = [calls EXCEPT ![c].sharing = @ \cup {p}]

\* Mutant: the track is set without a look for the connection
SetAudioUnchecked(c, p, on) == conn' = [conn EXCEPT ![c][p] = WithAudio(@, on)]

SetAudioEnabled(c, p, on) == conn' = IF conn[c][p].open THEN [conn EXCEPT ![c][p] = WithAudio(@, on)] ELSE conn
SetVideoEnabled(c, p, on) == conn' = IF conn[c][p].open THEN [conn EXCEPT ![c][p] = WithVideo(@, on)] ELSE conn
StartScreenCapture(c, p) == conn' = IF conn[c][p].open THEN [conn EXCEPT ![c][p] = WithScreen(@)] ELSE conn

UpdateTrack(t) ==
    LET c == task[t].call p == task[t].who IN
    /\ \/ At(t, "audio") /\ SetAudioEnabled(c, p, task[t].on)
       \/ At(t, "video") /\ SetVideoEnabled(c, p, task[t].on)
       \/ At(t, "screen") /\ StartScreenCapture(c, p)
    /\ Return(t)
    /\ UNCHANGED <<calls, signalling, timers, ice, accepted, stray>>

Sends(k, op) == IF op = "audio" THEN k.audio ELSE k.video

\* add_track or replace_track fails: the error is returned, the flag stays as it was
\* changed and the track as it was
FailTrack(t) ==
    LET c == task[t].call p == task[t].who op == task[t].op IN
    /\ op \in {"audio", "video", "screen"}
    /\ conn[c][p].open
    /\ task[t].on \/ Sends(conn[c][p], op)
    /\ stray' = IF task[t].on THEN stray ELSE [stray EXCEPT ![c][p] = @ \cup Toggled(op)]
    /\ Return(t)
    /\ UNCHANGED <<calls, signalling, timers, conn, ice, accepted>>

(***************************************************************************)
(* Session descriptions and ICE candidates.  The lock on the connections   *)
(* is held throughout each of these, so each is one step.  webrtc-rs takes *)
(* a candidate only once it has a remote description.                      *)
(***************************************************************************)
CreateOffer(c, p) ==
    /\ "sdp" \in Ops
    /\ conn[c][p].open
    /\ conn' = [conn EXCEPT ![c][p] = WithOffer(@)]
    /\ UNCHANGED <<calls, signalling, timers, task, ice, accepted, stray>>

CreateAnswer(c, p) ==
    /\ "sdp" \in Ops
    /\ conn[c][p].open /\ ~conn[c][p].offered
    /\ conn' = [conn EXCEPT ![c][p] = WithAnswer(@)]
    /\ UNCHANGED <<calls, signalling, timers, task, ice, accepted, stray>>

\* Mutant: the cached candidates are dropped instead of applied
SetRemoteOnly(c, p) ==
    /\ "sdp" \in Ops
    /\ conn[c][p].open /\ conn[c][p].offered
    /\ conn' = [conn EXCEPT ![c][p] = WithRemote(@)]
    /\ ice' = [ice EXCEPT ![c][p] = {}]
    /\ UNCHANGED <<calls, signalling, timers, task, accepted, stray>>

\* The cached candidates follow the description
SetRemoteDescription(c, p) ==
    /\ "sdp" \in Ops
    /\ conn[c][p].open /\ conn[c][p].offered
    /\ conn' = [conn EXCEPT ![c][p] = WithCandidates(WithRemote(@), ice[c][p])]
    /\ ice' = [ice EXCEPT ![c][p] = {}]
    /\ UNCHANGED <<calls, signalling, timers, task, accepted, stray>>

\* The cache is taken out of the table and its candidates are added one by one: one
\* that webrtc-rs refuses ends the operation with an error, after xs, and the others
\* are gone.
FailCandidates(c, p, xs) ==
    /\ "sdp" \in Ops
    /\ conn[c][p].open /\ conn[c][p].offered
    /\ xs \subseteq ice[c][p] /\ xs # ice[c][p]
    /\ conn' = [conn EXCEPT ![c][p] = WithCandidates(WithRemote(@), xs)]
    /\ ice' = [ice EXCEPT ![c][p] = {}]
    /\ accepted' = [accepted EXCEPT ![c][p] = @ \ (ice[c][p] \ xs)]
    /\ UNCHANGED <<calls, signalling, timers, task, stray>>

AddIceCandidate(c, p, x) ==
    /\ "sdp" \in Ops
    /\ \/ /\ conn[c][p].open /\ conn[c][p].remote
          /\ conn' = [conn EXCEPT ![c][p] = WithCandidates(@, {x})]
          /\ UNCHANGED ice
       \/ /\ ~conn[c][p].open
          /\ ice' = [ice EXCEPT ![c][p] = @ \cup {x}]
          /\ UNCHANGED conn
    /\ accepted' = [accepted EXCEPT ![c][p] = @ \cup {x}]
    /\ UNCHANGED <<calls, signalling, timers, task, stray>>

--------------------------------------------------------------------------------

Initiate(t) ==
    /\ t \in Caller
    /\ \E c \in Call, p \in Id, ps \in SUBSET Id : CheckLimit(t, c, p, ps)

Answer(t) ==
    /\ "accept" \in Ops
    /\ \E c \in Call, p \in Id : AcceptCall(t, c, p)

HangUp(t) ==
    /\ "end" \in Ops
    /\ \E c \in Call, p \in Id : EndCall(t, c, p)

\* What a task that has begun an operation does next
Continue(t) ==
    \/ \E video, mute \in BOOLEAN : StoreCall(t, video, mute)
    \/ SendInvitations(t)
    \/ Ring(t)
    \/ EstablishPeerConnection(t)
    \/ Disconnect(t)
    \/ UpdateTrack(t)
    \/ FailTrack(t)

Toggle(t) == \E c \in Call, p \in Id : ToggleMute(t, c, p) \/ ToggleVideo(t, c, p) \/ StartScreenShare(t, c, p)

Negotiate ==
    \E c \in Call, p \in Id :
        \/ CreateOffer(c, p)
        \/ CreateAnswer(c, p)
        \/ SetRemoteDescription(c, p)
        \/ \E xs \in SUBSET Candidate : FailCandidates(c, p, xs)
        \/ \E x \in Candidate : AddIceCandidate(c, p, x)

Next ==
    \/ \E p \in Id : RegisterClient(p) \/ DropClient(p)
    \/ StopListening
    \/ \E t \in Task : Initiate(t) \/ Answer(t) \/ HangUp(t) \/ Continue(t) \/ Toggle(t)
    \/ \E c \in Call : RingTimeout(c)
    \/ \E c \in Call, p \in Id : RejectCall(c, p)
    \/ Negotiate

Spec == Init /\ [][Next]_vars

\* The timers of the runtime fire; a task may wait for its next lock for ever
FairSpec == Spec /\ \A c \in Call : WF_vars(RingTimeout(c))

--------------------------------------------------------------------------------

Pending(c) == \E t \in Task : task[t].op \in {"invite", "ring"} /\ task[t].call = c
Connecting(c) == \E t \in Task : task[t].op = "connect" /\ task[t].call = c

Phase(c) ==
    IF calls[c].state = "None" THEN "none"
    ELSE IF Pending(c) \/ calls[c].state = "Initiating" THEN "setup"
    ELSE IF calls[c].state = "Ringing" THEN "ringing"
    ELSE IF calls[c].state = "Active" THEN "active"
    ELSE "over"

Link(c) ==
    IF \E p \in Id : conn[c][p].open THEN "up"
    ELSE IF Connecting(c) THEN "pending"
    ELSE IF calls[c].joined = {} THEN "none"
    ELSE "down"

Phases == INSTANCE CallPhases
    WITH phase <- [c \in Call |-> Phase(c)],
         answered <- [c \in Call |-> calls[c].joined],
         link <- [c \in Call |-> Link(c)]

\* Whatever the interleaving of initiate_call, accept_call, reject_call, end_call, the ring timeout and
\* the peer connections, every call goes through its phases once, is answered by one participant at most
\* and has one connection at most, which does not come back once it is down.
PhasesSpec == Phases!Spec

\* max_concurrent_calls is checked before the call is stored, and the lock is released in between: the
\* limit is exceeded by what other tasks have checked in the meantime, and by no more.
OverrunBounded == Cardinality(Live) <= MaxConcurrent + Cardinality(Caller) - 1

\* start_ring_timeout: no call rings for ever, unless the event of its ringing found no receiver.
RingingEnds == \A c \in Call : (calls[c].state = "Ringing" /\ listening) ~> (calls[c].state # "Ringing" \/ ~listening)

\* toggle_mute changes the flag and later the track: once no toggle is on its way, no connection sends
\* the audio of a participant that is muted, nor video of one that neither shows nor shares anything,
\* unless two toggles of that track overlapped or the last one reported that the track was not turned
\* off.  The next toggle that runs alone and succeeds brings the two together again.
MutedIsSilent ==
    \A c \in Call, p \in Id :
        /\ ~Toggling(c, p, "audio") /\ "audio" \notin stray[c][p] /\ p \in calls[c].muted
           => ~conn[c][p].audio
        /\ ~Toggling(c, p, "video") /\ "video" \notin stray[c][p] /\ conn[c][p].video
           => p \in calls[c].video \cup calls[c].sharing

\* A candidate that add_ice_candidate took, before there was a connection or after, is with the
\* connection once the answer to its offer has been installed, unless set_remote_description gave it
\* up when it returned the error of another one.
CandidatesArrive ==
    \A c \in Call, p \in Id : conn[c][p].answered => accepted[c][p] \subseteq conn[c][p].cands
================================================================================
