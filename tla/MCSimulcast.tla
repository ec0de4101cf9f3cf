---------------------------- MODULE MCSimulcast -----------------------------
(***************************************************************************)
(* Simulcast for TLC.                                                      *)
(***************************************************************************)
EXTENDS Simulcast
=============================================================================
