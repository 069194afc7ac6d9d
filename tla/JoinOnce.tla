-------------------------------- MODULE JoinOnce --------------------------------
(***************************************************************************)
(* What the joiner promises about the Kyber keypairs of its requests,      *)
(* whatever its threads and event loops do: an acceptance is installed     *)
(* only with the keypair it was wrapped for, while the joiner still has    *)
(* that keypair, and at most once, however many copies of the frame the    *)
(* event loops get; and a group that is there does not go away.            *)
(*                                                                         *)
(* What it does not promise is left open here: a keypair may be lost at    *)
(* any time, and a later acceptance replaces the record of an earlier one. *)
(***************************************************************************)
EXTENDS Integers

VARIABLES
    drawn,     \* the keypairs drawn so far are 1..drawn
    waiting,   \* those with which an acceptance can still be installed
    accepted,  \* those an inviter wrapped the group key for
    group      \* the one the group was joined with, 0 before

vars == <<drawn, waiting, accepted, group>>

Init == drawn = 0 /\ waiting = {} /\ accepted = {} /\ group = 0

\* A new keypair may replace others.
Draw ==
    /\ drawn' = drawn + 1
    /\ drawn + 1 \in waiting' /\ waiting' \subseteq waiting \cup {drawn + 1}
    /\ UNCHANGED <<accepted, group>>

Lose == waiting' \subseteq waiting /\ UNCHANGED <<drawn, accepted, group>>

Accept ==
    /\ \E k \in 1..drawn : accepted' = accepted \cup {k}
    /\ UNCHANGED <<drawn, waiting, group>>

Install ==
    /\ group' \in waiting \cap accepted
    /\ waiting' = waiting \ {group'}
    /\ UNCHANGED <<drawn, accepted>>

Next == Draw \/ Lose \/ Accept \/ Install

Spec == Init /\ [][Next]_vars
================================================================================
