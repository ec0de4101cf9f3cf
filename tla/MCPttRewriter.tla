--------------------------- MODULE MCPttRewriter ----------------------------
(***************************************************************************)
(* PttRewriter for TLC. The users are interchangeable.                     *)
(***************************************************************************)
EXTENDS PttRewriter, TLC

UserSymmetry == Permutations(Users)
=============================================================================
