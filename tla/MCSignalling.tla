---------------------------- MODULE MCSignalling ----------------------------
(***************************************************************************)
(* Signalling for TLC: two users who may come back.          *)
(***************************************************************************)
EXTENDS Signalling, TLC

CONSTANTS c1, c2, u1, u2

MCUserOf == (c1 :> u1) @@ (c2 :> u2)
=============================================================================
