----------------------------- MODULE Transport ------------------------------
(***************************************************************************)
(* From the first STUN request to SRTP keys and the egress task:           *)
(* src/transport/udp/mod.rs with the DTLS session map, DemuxConn, and the  *)
(* MediaSession of src/room/participant.rs.                                *)
(*                                                                         *)
(* The UDP worker that has an address (SO_REUSEPORT sends all packets of   *)
(* one address to one worker) latches it by ufrag, makes a DTLS task for   *)
(* it and from then on hands every DTLS packet from that ADDRESS to the    *)
(* task's channel, while the task installs the keys in the SESSION it was  *)
(* made for. Nothing but the end of the task closes the channel, and an    *)
(* entry of a closed channel stays in the map until the next sweep.        *)
(*                                                                         *)
(* A session is one PeerConnection: the client's end is in `client'. Its   *)
(* handshake is cut down to ClientHello, the server's flight and the       *)
(* client's last flight; any packet may be lost, then it is sent again.    *)
(* LiveAddrReuse says whether a NAT may give an address to another client  *)
(* while a DTLS task or a latch of the client that had it is still there.  *)
(***************************************************************************)
EXTENDS Integers, FiniteSets

CONSTANTS
  Sessions,    \* bound: MediaSession objects
  Subscribe,   \* those of subscribe PeerConnections
  Patient,     \* those whose client does not stop trying
  Addrs,
  LiveAddrReuse,
  None

ASSUME TransportAssumption ==
  /\ Subscribe \subseteq Sessions /\ Patient \subseteq Sessions
  /\ LiveAddrReuse \in BOOLEAN
  /\ None \notin Sessions \cup Addrs

VARIABLES
  in_hub,      \* the sessions whose participant is in a room
  address,     \* per session: the latched address
  by_addr,     \* per address: the session find_by_addr gives
  dtls_map,    \* the addresses with an entry in the DTLS map
  task,        \* per address: its last DTLS task, the session the task is for and
               \* the client it talks to
  keys,        \* per session: the client its SRTP keys are shared with
  egress,      \* the sessions whose egress task runs
  client       \* per session: state and address of the client's end, and the
               \* address whose task it has its DTLS association with

transportVars == <<in_hub, address, by_addr, dtls_map, task, keys, egress, client>>

EndedTask == [state |-> "ended", session |-> None, peer |-> None]

ClientOff == [state |-> "off", addr |-> None, assoc |-> None]

Init ==
  /\ in_hub = {}
  /\ address = [s \in Sessions |-> None]
  /\ by_addr = [a \in Addrs |-> None]
  /\ dtls_map = {}
  /\ task = [a \in Addrs |-> EndedTask]
  /\ keys = [s \in Sessions |-> None]
  /\ egress = {}
  /\ client = [s \in Sessions |-> ClientOff]

\* The task has the receiver of its channel. A second task for an address is
\* only made when the first one has ended.
IsOpen(a) == task[a].state # "ended"

Online(s) == client[s].state # "off"

\* No client has the address and, unless LiveAddrReuse, nothing in the server
\* still takes it for that of an earlier client.
FreshAddr(a) ==
  /\ \A s \in Sessions : client[s].addr # a
  /\ \/ LiveAddrReuse
     \/ ~IsOpen(a) /\ \A s \in in_hub : address[s] # a

-----------------------------------------------------------------------------
(* The client *)

\* ROOM_JOIN gives ufrags; the PeerConnection starts. The object is new: no task
\* holds an Arc of an earlier participant.
Join(s, a) ==
  /\ ~Online(s) /\ s \notin in_hub /\ s \notin egress
  /\ \A b \in Addrs : task[b].session # s
  /\ FreshAddr(a)
  /\ in_hub' = in_hub \cup {s}
  /\ address' = [address EXCEPT ![s] = None]
  /\ keys' = [keys EXCEPT ![s] = None]
  /\ client' = [client EXCEPT ![s] = [state |-> "ice", addr |-> a, assoc |-> None]]
  /\ UNCHANGED <<by_addr, dtls_map, task, egress>>

Forget_mut_kept(s) == by_addr

\* The index without the address the session was latched to last, whoever has
\* that address now.
Forget(s) == [a \in Addrs |-> IF a = address[s] THEN None ELSE by_addr[a]]

\* The client leaves, or gives up and will join again. remove_participant takes
\* the session and its address out of the indices; the DTLS map is left alone.
Leave(s) ==
  /\ Online(s)
  /\ in_hub' = in_hub \ {s}
  /\ by_addr' = Forget(s)
  /\ client' = [client EXCEPT ![s] = ClientOff]
  /\ UNCHANGED <<address, dtls_map, task, keys, egress>>

\* The NAT gives the client another address.
Rebind(s, a) ==
  /\ Online(s)
  /\ FreshAddr(a)
  /\ client' = [client EXCEPT ![s].addr = a]
  /\ UNCHANGED <<in_hub, address, by_addr, dtls_map, task, keys, egress>>

-----------------------------------------------------------------------------
(* The UDP worker *)

\* start_dtls_handshake: the channel of the new task replaces an earlier one.
start_dtls_handshake(a, s, peer) ==
  /\ task' = [task EXCEPT ![a] = [state |-> IF peer = None THEN "accept" ELSE "flight",
                                  session |-> s, peer |-> peer]]
  /\ dtls_map' = dtls_map \cup {a}

\* A binding request, with or without USE-CANDIDATE. latch() takes a former address
\* out. No task is made while the address has an entry, be its channel closed.
handle_stun(s, use_candidate) ==
  LET a == client[s].addr
  IN  /\ Online(s) /\ s \in in_hub
      /\ address' = [address EXCEPT ![s] = a]
      /\ by_addr' = [Forget(s) EXCEPT ![a] = s]
      /\ client' = [client EXCEPT ![s].state = IF @ = "ice" THEN "hello" ELSE @]
      /\ IF use_candidate /\ a \notin dtls_map THEN start_dtls_handshake(a, s, None)
         ELSE UNCHANGED <<task, dtls_map>>
      /\ UNCHANGED <<in_hub, keys, egress>>

\* inject: the packet reaches a task that has not ended.
Injected(a) == a \in dtls_map /\ IsOpen(a)

MayRestart_mut_never(a) == FALSE

\* No channel takes the packet, and find_by_addr knows the address.
MayRestart(a) == ~Injected(a) /\ by_addr[a] # None

\* A ClientHello. Without an open channel a new task is made, for the session
\* that has the address, and gets the packet.
handle_dtls_hello(s) ==
  LET a == client[s].addr
  IN  /\ client[s].state = "hello"
      /\ \/ /\ Injected(a) /\ task[a].state = "accept"
            /\ task' = [task EXCEPT ![a].state = "flight", ![a].peer = s]
            /\ UNCHANGED dtls_map
         \/ MayRestart(a) /\ start_dtls_handshake(a, by_addr[a], s)
      /\ UNCHANGED <<in_hub, address, by_addr, keys, egress, client>>

\* The flight of the server goes to the address of the task.
ServerFlight(a) ==
  LET s == task[a].peer
  IN  /\ task[a].state = "flight"
      /\ client[s].state = "hello" /\ client[s].addr = a
      /\ client' = [client EXCEPT ![s].state = "finish", ![s].assoc = a]
      /\ UNCHANGED <<in_hub, address, by_addr, dtls_map, task, keys, egress>>

\* The last flight of the client completes the handshake of the task it answers.
\* A later task for the address, or one for a new address, knows nothing of it.
handle_dtls_finish(s) ==
  LET a == client[s].addr
  IN  /\ client[s].state = "finish"
      /\ \/ /\ Injected(a) /\ task[a].state = "flight" /\ task[a].peer = s
            /\ task' = [task EXCEPT ![a].state = "install"]
            /\ client' = [client EXCEPT ![s].state = "done"]
            /\ UNCHANGED dtls_map
         \/ MayRestart(a) /\ start_dtls_handshake(a, by_addr[a], None) /\ UNCHANGED client
      /\ UNCHANGED <<in_hub, address, by_addr, keys, egress>>

\* Every 1000 packets.
remove_stale ==
  /\ \E a \in dtls_map : ~IsOpen(a)
  /\ dtls_map' = {a \in dtls_map : IsOpen(a)}
  /\ UNCHANGED <<in_hub, address, by_addr, task, keys, egress, client>>

-----------------------------------------------------------------------------
(* The DTLS task of an address *)

KeysFor_mut_current(a) == by_addr[a]

\* The session the task was made for.
KeysFor(a) == task[a].session

NeedsEgress_mut_all(a) == TRUE

NeedsEgress(a) == task[a].session \in Subscribe

install_srtp_keys(a) ==
  /\ task[a].state = "install"
  /\ keys' = IF KeysFor(a) = None THEN keys
             ELSE [keys EXCEPT ![KeysFor(a)] = task[a].peer]
  /\ task' = [task EXCEPT ![a].state = IF NeedsEgress(a) THEN "spawn" ELSE "keepalive"]
  /\ UNCHANGED <<in_hub, address, by_addr, dtls_map, egress, client>>

\* egress_rx is taken once. The egress task holds its participant, which holds
\* the sender of the queue: it does not end.
spawn_egress(a) ==
  /\ task[a].state = "spawn"
  /\ egress' = egress \cup {task[a].session}
  /\ task' = [task EXCEPT ![a].state = "keepalive"]
  /\ UNCHANGED <<in_hub, address, by_addr, dtls_map, keys, client>>

End(a) ==
  /\ task' = [task EXCEPT ![a] = EndedTask]
  /\ UNCHANGED <<in_hub, address, by_addr, dtls_map, keys, egress, client>>

\* 10 s without a complete handshake, or a handshake that fails.
HandshakeTimeout(a) == task[a].state \in {"accept", "flight"} /\ End(a)

\* recv fails: the client has closed the association. (Without that close the
\* task and its entry stay for ever.)
ConnClosed(a) == task[a].state = "keepalive" /\ client[task[a].peer].assoc # a /\ End(a)

-----------------------------------------------------------------------------
Next ==
  \/ \E s \in Sessions :
       \/ \E a \in Addrs : Join(s, a) \/ Rebind(s, a)
       \/ Leave(s)
       \/ \E use_candidate \in BOOLEAN : handle_stun(s, use_candidate)
       \/ handle_dtls_hello(s)
       \/ handle_dtls_finish(s)
  \/ \E a \in Addrs :
       \/ ServerFlight(a)
       \/ install_srtp_keys(a) \/ spawn_egress(a)
       \/ HandshakeTimeout(a) \/ ConnClosed(a)
  \/ remove_stale

\* For the patient clients: what was sent and lost is sent again, and gets through
\* in the end if it is sent again and again; a client that does not get on
\* joins anew. Tasks run, and a close reaches the task of the association. How
\* often the map is swept depends on the traffic: nothing is assumed.
Fairness ==
  /\ \A s \in Patient :
       /\ SF_transportVars(\E a \in Addrs : Join(s, a))
       /\ WF_transportVars(client[s].state # "done" /\ Leave(s))
       /\ SF_transportVars(\E use_candidate \in BOOLEAN : handle_stun(s, use_candidate))
       /\ SF_transportVars(handle_dtls_hello(s))
       /\ SF_transportVars(\E a \in Addrs : task[a].peer = s /\ ServerFlight(a))
       /\ SF_transportVars(client[s].state = "finish" /\ task[client[s].addr].peer = s
                              /\ handle_dtls_finish(s))
  /\ \A a \in Addrs :
       /\ WF_transportVars(install_srtp_keys(a)) /\ WF_transportVars(spawn_egress(a))
       /\ WF_transportVars(HandshakeTimeout(a)) /\ WF_transportVars(ConnClosed(a))

Spec == Init /\ [][Next]_transportVars

FairSpec == Spec /\ Fairness

-----------------------------------------------------------------------------
(* Properties *)

\* The state has its types.
TypeOK ==
  /\ in_hub \subseteq Sessions /\ egress \subseteq Subscribe
  /\ address \in [Sessions -> Addrs \cup {None}]
  /\ by_addr \in [Addrs -> Sessions \cup {None}]
  /\ dtls_map \subseteq Addrs
  /\ task \in [Addrs -> [state: {"accept", "flight", "install", "spawn", "keepalive", "ended"},
                         session: Sessions \cup {None}, peer: Sessions \cup {None}]]
  /\ keys \in [Sessions -> Sessions \cup {None}]
  /\ client \in [Sessions -> [state: {"off", "ice", "hello", "finish", "done"},
                              addr: Addrs \cup {None}, assoc: Addrs \cup {None}]]

\* Although packets are handed out by address and keys by session: a session
\* only ever has keys shared with its own client, also when addresses change,
\* are used again by other clients, and handshakes time out and start over.
KeysOfOwnClient == \A s \in Sessions : keys[s] \in {s, None}

\* A client that has completed its handshake and whose last STUN request came
\* from its present address has media or is about to: media from the address
\* is taken for its session, and its keys and, for a subscriber, the egress
\* task are there or the DTLS task is at it.
DoneMeansMedia ==
  \A s \in Sessions : client[s].state = "done" /\ address[s] = client[s].addr =>
    /\ by_addr[address[s]] = s
    /\ \/ keys[s] = s /\ (s \in Subscribe => s \in egress)
       \/ /\ task[client[s].assoc].session = s
          /\ task[client[s].assoc].state \in {"install", "spawn"}

\* A client that keeps trying, and is not kept off by the lack of an address, gets
\* its keys in the end, whatever the other clients do, in spite of lost packets,
\* of handshakes the server gives up after 10 s, and of entries in the map
\* that belong to nobody any more.
Served ==
  \A s \in Patient : []<>(Online(s) \/ \E a \in Addrs : FreshAddr(a)) => <>(keys[s] = s)
=============================================================================
