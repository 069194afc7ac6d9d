-------------------------------- MODULE MCSync ---------------------------------
(***************************************************************************)
(* GroupSync on small sets of devices, for TLC.                            *)
(***************************************************************************)
EXTENDS GroupSync, TLC

\* Founders other than the creator are interchangeable, and so are outsiders.
Symmetry == Permutations(Founders \ {Creator}) \cup Permutations(Device \ Founders)
================================================================================
