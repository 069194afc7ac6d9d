-------------------------------- MODULE MCGroup --------------------------------
(***************************************************************************)
(* GroupProtocol on small sets of devices, for TLC.                        *)
(***************************************************************************)
EXTENDS GroupProtocol, TLC

\* The devices other than the creator are interchangeable.
Joiners == Permutations(Device \ {Creator})

\* A state constraint for long counterexamples: two removals, one promotion.
Frames(type) == {m \in msgs : m.type = type}

ShortHistory ==
    Cardinality(Frames("KeyRotation")) <= 2 /\ Cardinality(Frames("RoleChange")) <= 1
================================================================================
