------------------------------- MODULE MCKeystore -------------------------------
(***************************************************************************)
(* CoreKeystore on small sets of callers and keys, for TLC.                *)
(***************************************************************************)
EXTENDS CoreKeystore, TLC

Symmetry == Permutations(Caller) \cup Permutations(Name)

\* After the last death the coroutines initialise the core one after the other;
\* before it they do so at the same time.
LastLaunchAlone == deaths = MaxDeaths => \A c, d \in Caller : pc[c] = "idle" \/ pc[d] = "idle" \/ c = d
================================================================================
