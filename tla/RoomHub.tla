------------------------------ MODULE RoomHub -------------------------------
(***************************************************************************)
(* Room and RoomHub of src/room/room.rs: who is in which room, and the     *)
(* indices that find a participant by ICE ufrag (STUN) and by address      *)
(* (media). Each index is a DashMap of its own, so an operation is one map *)
(* access after the other and operations of WebSocket tasks, UDP workers   *)
(* and the reaper overlap between any two of them.                         *)
(*                                                                         *)
(* A join makes a new Participant with ufrags of its own; `parts' are such *)
(* objects. Its two ufrags are written and removed side by side and are    *)
(* kept as one fact: the participant is registered or it is not.           *)
(***************************************************************************)
EXTENDS Integers, Sequences, FiniteSets

CONSTANTS
  Users, Rooms, Addrs,
  PcTypes,    \* Publish, Subscribe: the sessions of a participant
  Parts,      \* bound: the Participant objects that are ever made
  Tasks,      \* bound: operations under way at the same time
  Capacity,   \* Room.capacity
  None

ASSUME HubAssumption ==
  /\ None \notin Users \cup Rooms \cup Addrs \cup Parts \cup (Parts \X PcTypes)
  /\ Capacity \in Nat
  /\ IsFiniteSet(Tasks) /\ IsFiniteSet(Users)

VARIABLES
  owner, home,    \* per part: its user_id and room_id
  address,        \* per session: the address STUN latched
  participants,   \* per room and user: Room.participants
  by_ufrag,       \* the parts whose ufrags are in Room.by_ufrag
  by_addr,        \* per room and address: Room.by_addr
  ufrag_index,    \* the parts whose ufrags are in RoomHub.ufrag_index
  addr_index,     \* per address: RoomHub.addr_index
  todo,           \* per task: the accesses its operation has still to do
  removed,        \* history: the parts whose removal has been completed
  raced           \* history: operations have overlapped

hubVars == <<owner, home, address, participants, by_ufrag, by_addr, ufrag_index,
             addr_index, todo, removed, raced>>

Sessions == Parts \X PcTypes

Busy(t) == todo[t] # <<>>

Settled == \A t \in Tasks : ~Busy(t)

Count(r) == Cardinality({u \in Users : participants[r][u] # None})

-----------------------------------------------------------------------------
Accesses == {"ufrags", "participant", "hub_ufrags", "rm_ufrags", "rm_addrs",
             "rm_hub_ufrags", "rm_hub_addrs", "rebind", "address", "addr", "hub_addr"}

Access(op, p) == [op |-> op, part |-> p, pc |-> None, addr |-> None]

LatchAccess(op, s, a) == [op |-> op, part |-> s[1], pc |-> s[2], addr |-> a]

Init ==
  /\ owner = [p \in Parts |-> None]
  /\ home = [p \in Parts |-> None]
  /\ address = [s \in Sessions |-> None]
  /\ participants = [r \in Rooms |-> [u \in Users |-> None]]
  /\ by_ufrag = {}
  /\ by_addr = [r \in Rooms |-> [a \in Addrs |-> None]]
  /\ ufrag_index = {}
  /\ addr_index = [a \in Addrs |-> None]
  /\ todo = [t \in Tasks |-> <<>>]
  /\ removed = {}
  /\ raced = FALSE

Start(t, accesses) ==
  /\ ~Busy(t)
  /\ todo' = [todo EXCEPT ![t] = accesses]
  /\ raced' = (raced \/ ~Settled)

\* RoomFull, AlreadyInRoom
MayJoin(r, u) == Count(r) < Capacity /\ participants[r][u] = None

JoinAccesses_mut_order(p) ==
  <<Access("participant", p), Access("ufrags", p), Access("hub_ufrags", p)>>

JoinAccesses_mut_nohub(p) == <<Access("ufrags", p), Access("participant", p)>>

JoinAccesses(p) ==
  <<Access("ufrags", p), Access("participant", p), Access("hub_ufrags", p)>>

\* A new object for u passes the checks of add_participant.
add_participant(t, p, u, r) ==
  /\ owner[p] = None
  /\ MayJoin(r, u)
  /\ owner' = [owner EXCEPT ![p] = u]
  /\ home' = [home EXCEPT ![p] = r]
  /\ Start(t, JoinAccesses(p))
  /\ UNCHANGED <<address, participants, by_ufrag, by_addr, ufrag_index, addr_index, removed>>

\* ROOM_LEAVE, the end of a WebSocket and the reaper all go by room and user:
\* whichever object is there then is taken out.
remove_participant(t, u, r) ==
  LET p == participants[r][u]
  IN  /\ p # None
      /\ participants' = [participants EXCEPT ![r][u] = None]
      /\ Start(t, <<Access("rm_ufrags", p), Access("rm_addrs", p),
                    Access("rm_hub_ufrags", p), Access("rm_hub_addrs", p)>>)
      /\ UNCHANGED <<owner, home, address, by_ufrag, by_addr, ufrag_index, addr_index, removed>>

\* A STUN request with a ufrag that both indices know.
latch_by_ufrag(t, s, a) ==
  /\ s[1] \in ufrag_index /\ s[1] \in by_ufrag
  /\ Start(t, <<LatchAccess("rebind", s, a), LatchAccess("address", s, a),
                LatchAccess("addr", s, a), LatchAccess("hub_addr", s, a)>>)
  /\ UNCHANGED <<owner, home, address, participants, by_ufrag, by_addr, ufrag_index,
                 addr_index, removed>>

-----------------------------------------------------------------------------
(* One access. An address that a removal takes out is the one the session has
   at that moment. *)

AddrsOf(p) == {address[<<p, pc>>] : pc \in PcTypes} \ {None}

Without(f, as) == [a \in Addrs |-> IF a \in as THEN None ELSE f[a]]

Rebind_mut_keep(e) == by_addr

Rebind(e) ==
  [by_addr EXCEPT ![home[e.part]] = Without(@, {address[<<e.part, e.pc>>]} \ {e.addr})]

ByAddrAfter(e) ==
  LET r == home[e.part] IN
  CASE e.op = "rm_addrs" -> [by_addr EXCEPT ![r] = Without(@, AddrsOf(e.part))]
    [] e.op = "rebind"   -> Rebind(e)
    [] e.op = "addr"     -> [by_addr EXCEPT ![r][e.addr] = <<e.part, e.pc>>]
    [] OTHER -> by_addr

RegisteredAfter(set, e, add, rm) ==
  CASE e.op = add -> set \cup {e.part}
    [] e.op = rm  -> set \ {e.part}
    [] OTHER -> set

AddrIndexAfter_mut_part(e) ==
  CASE e.op = "rm_hub_addrs" -> Without(addr_index, AddrsOf(e.part))
    [] e.op = "hub_addr"     -> [addr_index EXCEPT ![e.addr] = <<e.part, e.pc>>]
    [] OTHER -> addr_index

AddrIndexAfter(e) ==
  CASE e.op = "rm_hub_addrs" -> Without(addr_index, AddrsOf(e.part))
    [] e.op = "hub_addr"     -> [addr_index EXCEPT ![e.addr] = home[e.part]]
    [] OTHER -> addr_index

Step(t) ==
  /\ Busy(t)
  /\ LET e == Head(todo[t])
     IN  /\ participants' = IF e.op = "participant"
                            THEN [participants EXCEPT ![home[e.part]][owner[e.part]] = e.part]
                            ELSE participants
         /\ by_ufrag' = RegisteredAfter(by_ufrag, e, "ufrags", "rm_ufrags")
         /\ ufrag_index' = RegisteredAfter(ufrag_index, e, "hub_ufrags", "rm_hub_ufrags")
         /\ address' = IF e.op = "address" THEN [address EXCEPT ![<<e.part, e.pc>>] = e.addr]
                       ELSE address
         /\ by_addr' = ByAddrAfter(e)
         /\ addr_index' = AddrIndexAfter(e)
         /\ removed' = IF e.op = "rm_hub_addrs" THEN removed \cup {e.part} ELSE removed
  /\ todo' = [todo EXCEPT ![t] = Tail(@)]
  /\ UNCHANGED <<owner, home, raced>>

\* The last Arc of a removed participant is gone: the object is free for a new
\* join, which will have other ufrags.
Drop(p) ==
  /\ p \in removed \ (by_ufrag \cup ufrag_index)
  /\ \A r \in Rooms, a \in Addrs, pc \in PcTypes : by_addr[r][a] # <<p, pc>>
  /\ \A t \in Tasks, i \in 1..4 : i <= Len(todo[t]) => todo[t][i].part # p
  /\ owner' = [owner EXCEPT ![p] = None]
  /\ home' = [home EXCEPT ![p] = None]
  /\ address' = [s \in Sessions |-> IF s[1] = p THEN None ELSE address[s]]
  /\ removed' = removed \ {p}
  /\ UNCHANGED <<participants, by_ufrag, by_addr, ufrag_index, addr_index, todo, raced>>

Next ==
  \E t \in Tasks :
    \/ \E p \in Parts, u \in Users, r \in Rooms : add_participant(t, p, u, r)
    \/ \E u \in Users, r \in Rooms : remove_participant(t, u, r)
    \/ \E s \in Sessions, a \in Addrs : latch_by_ufrag(t, s, a)
    \/ Step(t)
    \/ \E p \in Parts : Drop(p)

Spec == Init /\ [][Next]_hubVars

-----------------------------------------------------------------------------
(* Lookups *)

find_by_ufrag(p) == IF p \in ufrag_index /\ p \in by_ufrag THEN p ELSE None

\* The session that media from address a is taken to come from.
find_by_addr(a) == IF addr_index[a] = None THEN None ELSE by_addr[addr_index[a]][a]

-----------------------------------------------------------------------------
(* Properties *)

\* The state has its types.
TypeOK ==
  /\ owner \in [Parts -> Users \cup {None}]
  /\ home \in [Parts -> Rooms \cup {None}]
  /\ address \in [Sessions -> Addrs \cup {None}]
  /\ participants \in [Rooms -> [Users -> Parts \cup {None}]]
  /\ by_ufrag \subseteq Parts
  /\ by_addr \in [Rooms -> [Addrs -> Sessions \cup {None}]]
  /\ ufrag_index \subseteq Parts
  /\ addr_index \in [Addrs -> Rooms \cup {None}]
  /\ todo \in [Tasks -> Seq([op: Accesses, part: Parts, pc: PcTypes \cup {None},
                             addr: Addrs \cup {None}])]
  /\ removed \subseteq Parts
  /\ raced \in BOOLEAN

\* However joins, leaves, reaping and latches overlap: a participant that is in
\* its room when things have settled can be found by its ufrags, so its STUN
\* requests are answered.
MemberReachable ==
  Settled => \A r \in Rooms, u \in Users :
    participants[r][u] # None => find_by_ufrag(participants[r][u]) = participants[r][u]

\* However operations overlap: once a removal has been completed, no STUN
\* request can bring the participant back. It rests on add_participant writing
\* the ufrags before the participant.
RemovedUnreachable == \A p \in removed : find_by_ufrag(p) = None

\* While operations do not overlap, media from an address is only ever taken
\* for a session that is in its room and whose current address it is, also
\* after rebinding, and after two sessions had the same address one after the
\* other.
MediaOwner ==
  Settled /\ ~raced => \A a \in Addrs :
    LET s == find_by_addr(a)
    IN  s # None => /\ address[s] = a
                    /\ participants[home[s[1]]][owner[s[1]]] = s[1]
=============================================================================
