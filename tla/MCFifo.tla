-------------------------------- MODULE MCFifo ---------------------------------
(***************************************************************************)
(* GroupFifo on small sets of devices, for TLC.                            *)
(***************************************************************************)
EXTENDS GroupFifo

Retried == \E d \in Device : attempts[d] > 1
Changed == \E m \in msgs : m.type \in {"KeyRotation", "RoleChange"}

\* Members are removed and change their roles in one behaviour, somebody asks to join
\* a second time in another.
RetryOrChange == ~(Retried /\ Changed)
================================================================================
