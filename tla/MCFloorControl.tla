--------------------------- MODULE MCFloorControl ---------------------------
(***************************************************************************)
(* FloorControl on small instances, and its two queue operators against    *)
(* what the code literally does to the Vec.                                *)
(***************************************************************************)
EXTENDS FloorControl

\* The stable sort of s: position i goes where its entry, and on a tie its index, puts it.
StableSort(s) ==
  LET First(i, j) == Before(s[i], s[j]) \/ (~Before(s[j], s[i]) /\ i < j)
      Place(i) == 1 + Cardinality({j \in 1..Len(s) : First(j, i)})
  IN  [k \in 1..Len(s) |-> s[CHOOSE i \in 1..Len(s) : Place(i) = k]]

\* On every queue the controller can reach, inserting at InsertPos is push plus
\* sort_by (floor.rs 292-301), and Retain is retain (floor.rs 350, 398, 456).
QueueOpsAsCoded ==
  /\ \A e \in QueueEntry : PushSorted(queue, e) = StableSort(Append(queue, e))
  /\ \A u \in Users : Retain(queue, u) = SelectSeq(queue, LAMBDA e : e.user_id # u)
=============================================================================
