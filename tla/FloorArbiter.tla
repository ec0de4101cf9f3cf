---------------------------- MODULE FloorArbiter ----------------------------
(***************************************************************************)
(* What floor control promises, whatever its queue, its timers and its     *)
(* callers do: one holder at a time; the floor is taken from a holder only *)
(* by a strictly higher priority; a floor given up goes to a waiting user  *)
(* of the highest priority waiting, and is free only if nobody waits.      *)
(***************************************************************************)
EXTENDS Integers

CONSTANTS Users, NoOne, Priorities

VARIABLES
  holder,   \* the user that may talk, or NoOne
  rank,     \* the priority the holder was granted the floor with
  waiting   \* the entries waiting for the floor

arbiterVars == <<holder, rank, waiting>>

Entry == [user: Users, priority: Priorities]

Init ==
  /\ holder = NoOne
  /\ rank = 0
  /\ waiting = {}

Grant(u, p) ==
  /\ holder = NoOne
  /\ waiting = {}
  /\ holder' = u
  /\ rank' = p
  /\ UNCHANGED waiting

Preempt(u, p) ==
  /\ holder \in Users \ {u}
  /\ p > rank
  /\ holder' = u
  /\ rank' = p
  /\ UNCHANGED waiting

Wait(u, p) ==
  /\ holder \in Users \ {u}
  /\ \A w \in waiting : w.user # u
  /\ waiting' = waiting \cup {[user |-> u, priority |-> p]}
  /\ UNCHANGED <<holder, rank>>

Without(u) == {w \in waiting : w.user # u}

Withdraw(u) ==
  /\ waiting' = Without(u)
  /\ UNCHANGED <<holder, rank>>

\* The floor changes hands among the entries W still waiting.
HandOver(W) ==
  /\ holder # NoOne
  /\ \/ /\ W = {}
        /\ holder' = NoOne
        /\ rank' = 0
        /\ waiting' = {}
     \/ \E w \in W :
          /\ \A v \in W : v.priority <= w.priority
          /\ holder' = w.user
          /\ rank' = w.priority
          /\ waiting' = W \ {w}

Next ==
  \/ \E u \in Users, p \in Priorities : Grant(u, p) \/ Preempt(u, p) \/ Wait(u, p)
  \/ \E u \in Users : Withdraw(u)
  \/ HandOver(waiting)
  \/ HandOver(Without(holder))

Spec == Init /\ [][Next]_arbiterVars
=============================================================================
