-------------------------------- MODULE MCCalls --------------------------------
(***************************************************************************)
(* Calls on small sets of calls, identities and tasks, for TLC.            *)
(***************************************************************************)
EXTENDS Calls, TLC

\* Callers are interchangeable, and so are calls and identities.
Symmetry == Permutations(Call) \cup Permutations(Id) \cup Permutations(Caller)

\* No track is, was asked to be or will be on, and nobody is muted
Untoggled(c) ==
    /\ calls[c].muted \cup calls[c].video \cup calls[c].sharing = {}
    /\ \A p \in Id : ~conn[c][p].audio /\ ~conn[c][p].video
    /\ \A t \in Task : task[t].op \notin {"audio", "video", "screen"}

\* No description is installed and no candidate is kept
Unnegotiated(c) ==
    \A p \in Id : ~conn[c][p].offered /\ ~conn[c][p].remote /\ conn[c][p].cands \cup ice[c][p] = {}

\* Tracks and session descriptions are different parts of a connection, and no
\* operation reads both: a state that has some of each is not explored further.
OneAspect == \A c \in Call : Untoggled(c) \/ Unnegotiated(c)
================================================================================
