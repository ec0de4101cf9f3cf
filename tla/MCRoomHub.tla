----------------------------- MODULE MCRoomHub ------------------------------
(***************************************************************************)
(* RoomHub for TLC. All the sets are sets of interchangeable values.       *)
(***************************************************************************)
EXTENDS RoomHub, TLC

HubSymmetry ==
  Permutations(Users) \cup Permutations(Rooms) \cup Permutations(Addrs)
    \cup Permutations(Parts) \cup Permutations(Tasks)
=============================================================================
