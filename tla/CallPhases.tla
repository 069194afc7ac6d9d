------------------------------- MODULE CallPhases -------------------------------
(***************************************************************************)
(* What the call stack promises about every call, whatever its tasks do:   *)
(* a call rings at most once and is answered at most once, a call that is  *)
(* over stays over, and the answer leads to at most one peer connection,   *)
(* which never comes back once it is down.                                 *)
(*                                                                         *)
(* What it does not promise is left open here: hanging up while a call is  *)
(* being set up may be undone by the ringing, and a connection may come up *)
(* or stay up after the call is over.                                      *)
(***************************************************************************)

CONSTANTS Call, Id

VARIABLES
    phase,     \* phase[c]: none, setup, ringing, active or over
    answered,  \* answered[c]: who answered c, at most one identity
    link       \* link[c]: none, pending, up or down

vars == <<phase, answered, link>>

Init ==
    /\ phase = [c \in Call |-> "none"]
    /\ answered = [c \in Call |-> {}]
    /\ link = [c \in Call |-> "none"]

Move(c, from, to) ==
    /\ phase[c] \in from
    /\ phase' = [phase EXCEPT ![c] = to]

Place(c) == Move(c, {"none"}, "setup") /\ UNCHANGED <<answered, link>>

Ring(c) == Move(c, {"setup"}, "ringing") /\ UNCHANGED <<answered, link>>

Answer(c, p) ==
    /\ Move(c, {"ringing"}, "active")
    /\ answered[c] = {}
    /\ answered' = [answered EXCEPT ![c] = {p}]
    /\ link' = [link EXCEPT ![c] = "pending"]

Finish(c) == Move(c, {"setup", "ringing", "active"}, "over") /\ UNCHANGED <<answered, link>>

Connect(c) ==
    /\ link[c] = "pending"
    /\ link' \in {[link EXCEPT ![c] = "up"], [link EXCEPT ![c] = "down"]}
    /\ UNCHANGED <<phase, answered>>

Disconnect(c) ==
    /\ link[c] = "up"
    /\ link' = [link EXCEPT ![c] = "down"]
    /\ UNCHANGED <<phase, answered>>

Next ==
    \E c \in Call :
        \/ Place(c) \/ Ring(c) \/ Finish(c) \/ Connect(c) \/ Disconnect(c)
        \/ \E p \in Id : Answer(c, p)

Spec == Init /\ [][Next]_vars
================================================================================
