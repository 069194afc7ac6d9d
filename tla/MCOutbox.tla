-------------------------------- MODULE MCOutbox --------------------------------
(***************************************************************************)
(* Outbox on small sets of messages and peers, for TLC.                    *)
(***************************************************************************)
EXTENDS Outbox
================================================================================
