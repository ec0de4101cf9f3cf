----------------------------- MODULE MCPttRoom ------------------------------
(***************************************************************************)
(* PttRoom for TLC. The users are interchangeable, and nothing in a room   *)
(* reads prev_speaker or the actions of an earlier call.                   *)
(***************************************************************************)
EXTENDS PttRoom, TLC

UserSymmetry == Permutations(Users)

WhatIsRead == <<state, queue, audio, video, members, told, todo, raced>>
=============================================================================
