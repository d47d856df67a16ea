---------------------------- MODULE MCStatusSync ----------------------------
(* Instances of StatusSync for TLC, see the MCStatusSync*.cfg files. *)
EXTENDS StatusSync
=============================================================================
