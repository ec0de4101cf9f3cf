--------------------------- MODULE TransportProofs --------------------------
(***************************************************************************)
(* Transport for any number of sessions and addresses: the state keeps its *)
(* types, and as long as an address is not given to another client while   *)
(* the server still holds a task or a latch of the former one, no session  *)
(* ever gets keys that are shared with another client, and a client that   *)
(* is done with its handshake has media.                                   *)
(***************************************************************************)
EXTENDS Transport, TLAPS

(* The types need a few facts of what the states mean.                        *)

\* A client that is there has an address.
HasAddr == \A s \in Sessions : client[s].state # "off" => client[s].addr # None

\* An open task has a session, and a client once it has heard from one; only
\* the task of a subscriber goes on to start the egress task.
TaskWellFormed ==
  \A a \in Addrs : IsOpen(a) =>
    /\ task[a].session # None
    /\ task[a].state # "accept" => task[a].peer # None
    /\ task[a].state = "spawn" => task[a].session \in Subscribe

Sound == TypeOK /\ HasAddr /\ TaskWellFormed

(* Packets go by address and keys by session. What holds the two together is *)
(* said of each address a client has: the index and an open task have it for *)
(* that client, or not at all.                                               *)

\* No two clients have the same address.
OneClient ==
  \A s, t \in Sessions : client[s].addr = client[t].addr /\ client[s].addr # None => s = t

\* The index leads to sessions in a room that are latched to the address.
IndexIsLatch ==
  \A a \in Addrs : by_addr[a] # None => by_addr[a] \in in_hub /\ address[by_addr[a]] = a

\* The index has the address of a client for that client.
IndexIsOwner ==
  \A s \in Sessions, a \in Addrs : client[s].addr = a /\ by_addr[a] # None => by_addr[a] = s

\* So has the task that is open for it.
TaskIsOwner ==
  \A s \in Sessions, a \in Addrs : client[s].addr = a /\ IsOpen(a) => task[a].session = s

\* A task that has heard from a client is for the session of that client.
PeerIsSession ==
  \A a \in Addrs : IsOpen(a) /\ task[a].state # "accept" => task[a].peer = task[a].session

Owned == OneClient /\ IndexIsLatch /\ IndexIsOwner /\ TaskIsOwner /\ PeerIsSession

IInv == Sound /\ Owned /\ KeysOfOwnClient

-----------------------------------------------------------------------------

\* The records of TypeOK.
TaskRec == [state: {"accept", "flight", "install", "spawn", "keepalive", "ended"},
            session: Sessions \cup {None}, peer: Sessions \cup {None}]

ClientRec == [state: {"off", "ice", "hello", "finish", "done"},
              addr: Addrs \cup {None}, assoc: Addrs \cup {None}]

\* A new task is well formed and for a client or none; the others stay.
LEMMA StartSound ==
  ASSUME NEW a \in Addrs, NEW s \in Sessions, NEW peer \in Sessions \cup {None},
         task \in [Addrs -> TaskRec], dtls_map \subseteq Addrs, TaskWellFormed,
         start_dtls_handshake(a, s, peer)
  PROVE  task' \in [Addrs -> TaskRec] /\ dtls_map' \subseteq Addrs /\ TaskWellFormed'
<1> USE TransportAssumption
<1> DEFINE t == [state |-> IF peer = None THEN "accept" ELSE "flight", session |-> s, peer |-> peer]
<1>1. t \in TaskRec
  BY DEF TaskRec
<1>2. task' = [task EXCEPT ![a] = t] /\ dtls_map' \subseteq Addrs
  BY DEF start_dtls_handshake
<1>3. t.session # None /\ (t.state # "accept" => t.peer # None) /\ t.state # "spawn"
  OBVIOUS
<1>4. task' \in [Addrs -> TaskRec] /\ task'[a] = t /\ \A b \in Addrs \ {a} : task'[b] = task[b]
  <2> HIDE DEF t
  <2> QED BY <1>1, <1>2
<1>5. TaskWellFormed'
  <2> HIDE DEF t
  <2> QED BY <1>3, <1>4 DEF TaskWellFormed, IsOpen
<1> QED BY <1>2, <1>4, <1>5

\* Every step keeps the types, whoever has which address.
LEMMA NextSound ==
  ASSUME Sound, [Next]_transportVars
  PROVE  Sound'
<1> USE TransportAssumption
<1>1. ASSUME NEW s \in Sessions, NEW a \in Addrs, Join(s, a)
      PROVE  Sound'
  BY <1>1 DEF Sound, TypeOK, HasAddr, TaskWellFormed, IsOpen, Online, Join
<1>2. ASSUME NEW s \in Sessions, NEW a \in Addrs, Rebind(s, a)
      PROVE  Sound'
  <2>1. client[s] \in ClientRec
    BY DEF Sound, TypeOK, ClientRec
  <2>2. [client[s] EXCEPT !.addr = a] \in ClientRec
    BY <2>1 DEF ClientRec
  <2>3. client' = [client EXCEPT ![s] = [client[s] EXCEPT !.addr = a]]
    BY <1>2 DEF Rebind
  <2>4. client' \in [Sessions -> ClientRec] /\ HasAddr'
    BY <2>1, <2>2, <2>3 DEF Sound, TypeOK, HasAddr, ClientRec
  <2> QED BY <1>2, <2>4 DEF Sound, TypeOK, TaskWellFormed, IsOpen, Rebind, ClientRec
<1>3. ASSUME NEW s \in Sessions, Leave(s)
      PROVE  Sound'
  BY <1>3 DEF Sound, TypeOK, HasAddr, TaskWellFormed, IsOpen, Online, Leave, Forget, ClientOff
<1>4. ASSUME NEW s \in Sessions, NEW u \in BOOLEAN, handle_stun(s, u)
      PROVE  Sound'
  <2> DEFINE a == client[s].addr
             c == [client[s] EXCEPT !.state = IF @ = "ice" THEN "hello" ELSE @]
  <2>1. client[s] \in ClientRec /\ a \in Addrs
    BY <1>4 DEF Sound, TypeOK, HasAddr, handle_stun, Online, ClientRec
  <2>2. c \in ClientRec /\ c.addr = client[s].addr
    BY <2>1 DEF ClientRec
  <2>3. client' = [client EXCEPT ![s] = c]
    BY <1>4 DEF handle_stun
  <2>4. client' \in [Sessions -> ClientRec] /\ HasAddr'
    <3> HIDE DEF c
    <3> QED BY <2>1, <2>2, <2>3 DEF Sound, TypeOK, HasAddr, ClientRec
  <2>5. /\ address' \in [Sessions -> Addrs \cup {None}]
        /\ by_addr' \in [Addrs -> Sessions \cup {None}]
        /\ UNCHANGED <<in_hub, keys, egress>>
    BY <1>4, <2>1 DEF Sound, TypeOK, handle_stun, Forget
  <2>6. task' \in [Addrs -> TaskRec] /\ dtls_map' \subseteq Addrs /\ TaskWellFormed'
    <3>1. CASE UNCHANGED <<task, dtls_map>>
      BY <3>1 DEF Sound, TypeOK, TaskWellFormed, IsOpen, TaskRec
    <3>2. CASE start_dtls_handshake(a, s, None)
      BY <3>2, <2>1, StartSound DEF Sound, TypeOK, TaskRec
    <3> QED BY <1>4, <3>1, <3>2 DEF handle_stun
  <2> QED BY <2>4, <2>5, <2>6 DEF Sound, TypeOK, TaskRec, ClientRec
<1>5. ASSUME NEW s \in Sessions, handle_dtls_hello(s)
      PROVE  Sound'
  <2> DEFINE a == client[s].addr
  <2>1. a \in Addrs
    BY <1>5 DEF Sound, TypeOK, HasAddr, handle_dtls_hello, ClientRec
  <2>2. /\ UNCHANGED <<in_hub, address, by_addr, keys, egress>>
        /\ client' \in [Sessions -> ClientRec] /\ HasAddr'
    BY <1>5 DEF Sound, TypeOK, HasAddr, handle_dtls_hello, ClientRec
  <2>3. task' \in [Addrs -> TaskRec] /\ dtls_map' \subseteq Addrs /\ TaskWellFormed'
    <3>1. CASE MayRestart(a) /\ start_dtls_handshake(a, by_addr[a], s)
      <4>1. by_addr[a] \in Sessions
        BY <2>1, <3>1 DEF MayRestart, Sound, TypeOK
      <4> QED BY <3>1, <4>1, <2>1, StartSound DEF Sound, TypeOK, TaskRec
    <3>2. CASE /\ task[a].state = "accept" /\ UNCHANGED dtls_map
               /\ task' = [task EXCEPT ![a].state = "flight", ![a].peer = s]
      <4> DEFINE t == [task[a] EXCEPT !.state = "flight", !.peer = s]
      <4>1. task[a] \in TaskRec /\ task[a].session # None
        BY <2>1, <3>2 DEF Sound, TypeOK, TaskRec, TaskWellFormed, IsOpen
      <4>2. t \in TaskRec /\ t.state = "flight" /\ t.peer = s /\ t.session = task[a].session
        BY <4>1 DEF TaskRec
      <4>3. task' = [task EXCEPT ![a] = t]
        BY <3>2, <4>1 DEF TaskRec
      <4> HIDE DEF t
      <4>4. /\ task' \in [Addrs -> TaskRec] /\ task'[a] = t
            /\ \A b \in Addrs : b # a => task'[b] = task[b]
        BY <2>1, <4>2, <4>3 DEF Sound, TypeOK, TaskRec
      <4>5. TaskWellFormed'
        BY <2>1, <4>1, <4>2, <4>4, TransportAssumption DEF Sound, TaskWellFormed, IsOpen
      <4> QED BY <3>2, <4>4, <4>5 DEF Sound, TypeOK
    <3> QED BY <1>5, <3>1, <3>2 DEF handle_dtls_hello
  <2> QED BY <2>2, <2>3 DEF Sound, TypeOK, TaskRec, ClientRec
<1>6. ASSUME NEW s \in Sessions, handle_dtls_finish(s)
      PROVE  Sound'
  <2> DEFINE a == client[s].addr
  <2>1. a \in Addrs
    BY <1>6 DEF Sound, TypeOK, HasAddr, handle_dtls_finish, ClientRec
  <2>2. UNCHANGED <<in_hub, address, by_addr, keys, egress>>
    BY <1>6 DEF handle_dtls_finish
  <2>3. CASE MayRestart(a) /\ start_dtls_handshake(a, by_addr[a], None) /\ UNCHANGED client
    <3>1. by_addr[a] \in Sessions
      BY <2>1, <2>3 DEF MayRestart, Sound, TypeOK
    <3>2. task' \in [Addrs -> TaskRec] /\ dtls_map' \subseteq Addrs /\ TaskWellFormed'
      BY <2>3, <3>1, <2>1, StartSound DEF Sound, TypeOK, TaskRec
    <3> QED BY <2>2, <2>3, <3>2 DEF Sound, TypeOK, TaskRec, HasAddr
  <2>4. CASE /\ task[a].state = "flight" /\ UNCHANGED dtls_map
             /\ task' = [task EXCEPT ![a].state = "install"]
             /\ client' = [client EXCEPT ![s].state = "done"]
    <3> DEFINE t == [task[a] EXCEPT !.state = "install"]
               c == [client[s] EXCEPT !.state = "done"]
    <3>1. task[a] \in TaskRec /\ task[a].session # None /\ task[a].peer # None
      BY <2>1, <2>4 DEF Sound, TypeOK, TaskRec, TaskWellFormed, IsOpen
    <3>2. /\ t \in TaskRec /\ t.state = "install"
          /\ t.peer = task[a].peer /\ t.session = task[a].session
      BY <3>1 DEF TaskRec
    <3>3. client[s] \in ClientRec
      BY DEF Sound, TypeOK, ClientRec
    <3>4. c \in ClientRec /\ c.addr = a
      BY <3>3 DEF ClientRec
    <3>5. task' = [task EXCEPT ![a] = t] /\ client' = [client EXCEPT ![s] = c]
      BY <2>4
    <3> HIDE DEF t, c
    <3>6. client' \in [Sessions -> ClientRec] /\ HasAddr'
      BY <2>1, <3>3, <3>4, <3>5 DEF Sound, TypeOK, HasAddr, ClientRec
    <3>7. task' \in [Addrs -> TaskRec] /\ TaskWellFormed'
      BY <2>1, <3>1, <3>2, <3>5 DEF Sound, TypeOK, TaskRec, TaskWellFormed, IsOpen
    <3> QED BY <2>2, <2>4, <3>6, <3>7 DEF Sound, TypeOK, TaskRec, ClientRec
  <2> QED BY <1>6, <2>3, <2>4 DEF handle_dtls_finish
<1>7. ASSUME NEW a \in Addrs, ServerFlight(a)
      PROVE  Sound'
  BY <1>7 DEF Sound, TypeOK, HasAddr, TaskWellFormed, IsOpen, Online, ServerFlight
<1>8. ASSUME NEW a \in Addrs, install_srtp_keys(a)
      PROVE  Sound'
  BY <1>8 DEF Sound, TypeOK, HasAddr, TaskWellFormed, IsOpen, Online, install_srtp_keys, KeysFor, NeedsEgress
<1>9. ASSUME NEW a \in Addrs, spawn_egress(a)
      PROVE  Sound'
  BY <1>9 DEF Sound, TypeOK, HasAddr, TaskWellFormed, IsOpen, Online, spawn_egress
<1>10. ASSUME NEW a \in Addrs, HandshakeTimeout(a)
      PROVE  Sound'
  BY <1>10 DEF Sound, TypeOK, HasAddr, TaskWellFormed, IsOpen, Online, HandshakeTimeout, End, EndedTask
<1>11. ASSUME NEW a \in Addrs, ConnClosed(a)
      PROVE  Sound'
  BY <1>11 DEF Sound, TypeOK, HasAddr, TaskWellFormed, IsOpen, Online, ConnClosed, End, EndedTask
<1>12. ASSUME remove_stale PROVE Sound'
  BY <1>12 DEF Sound, TypeOK, HasAddr, TaskWellFormed, IsOpen, Online, remove_stale
<1>13. CASE UNCHANGED transportVars
  BY <1>13 DEF Sound, TypeOK, HasAddr, TaskWellFormed, IsOpen, Online, transportVars
<1> QED
  BY <1>1, <1>2, <1>3, <1>4, <1>5, <1>6, <1>7, <1>8, <1>9, <1>10, <1>11, <1>12, <1>13 DEF Next

-----------------------------------------------------------------------------
\* The initial states: no address, no task, no key.
LEMMA InitIInv == Init => IInv
  BY TransportAssumption
  DEF Init, IInv, Sound, TypeOK, HasAddr, TaskWellFormed, Owned, OneClient, IndexIsLatch,
      IndexIsOwner, TaskIsOwner, PeerIsSession, KeysOfOwnClient, IsOpen, EndedTask, ClientOff

\* A client that takes an address finds no other client, no index entry and no
\* open task there.
LEMMA FreshIsFree ==
  ASSUME Sound, IndexIsLatch, ~LiveAddrReuse, NEW a \in Addrs, FreshAddr(a)
  PROVE  /\ \A s \in Sessions : client[s].addr # a
         /\ by_addr[a] = None
         /\ ~IsOpen(a)
<1>1. ~IsOpen(a) /\ (\A s \in in_hub : address[s] # a) /\ \A s \in Sessions : client[s].addr # a
  BY DEF FreshAddr
<1> QED BY <1>1 DEF IndexIsLatch

\* A client moves to a free address, or is there for the first time.
LEMMA MoveOwned ==
  ASSUME IInv, NEW s \in Sessions, NEW a \in Addrs,
         \A t \in Sessions : client[t].addr # a,
         by_addr[a] = None, ~IsOpen(a),
         \A t \in Sessions : client'[t].addr = IF t = s THEN a ELSE client[t].addr,
         in_hub \subseteq in_hub',
         \A t \in Sessions : t \in in_hub => address'[t] = address[t],
         UNCHANGED <<by_addr, task>>
  PROVE  Owned'
<1> USE TransportAssumption DEF IInv, Sound, Owned
<1>1. OneClient'
  BY DEF OneClient
<1>2. IndexIsLatch'
  BY DEF IndexIsLatch, TypeOK
<1>3. IndexIsOwner'
  BY DEF IndexIsOwner
<1>4. TaskIsOwner' /\ PeerIsSession'
  BY DEF TaskIsOwner, PeerIsSession, IsOpen
<1> QED BY <1>1, <1>2, <1>3, <1>4

\* A task that is made for the owner of its address, and has heard from nobody
\* else.
LEMMA StartOwned ==
  ASSUME Sound, TaskIsOwner, PeerIsSession,
         NEW a \in Addrs, NEW s \in Sessions, NEW peer \in {s, None},
         \A t \in Sessions : client[t].addr = a => t = s,
         \A t \in Sessions : client'[t].addr = client[t].addr,
         start_dtls_handshake(a, s, peer)
  PROVE  TaskIsOwner' /\ PeerIsSession'
<1> DEFINE t == [state |-> IF peer = None THEN "accept" ELSE "flight", session |-> s, peer |-> peer]
<1>1. task'[a] = t /\ \A b \in Addrs \ {a} : task'[b] = task[b]
  BY DEF start_dtls_handshake, Sound, TypeOK
<1>2. t.session = s /\ (t.state # "accept" => t.peer = s)
  OBVIOUS
<1> HIDE DEF t
<1> QED BY <1>1, <1>2 DEF TaskIsOwner, PeerIsSession, IsOpen

\* Every step keeps addresses, index, tasks and keys with their owners.
LEMMA NextOwned ==
  ASSUME IInv, ~LiveAddrReuse, [Next]_transportVars
  PROVE  Owned' /\ KeysOfOwnClient'
<1> USE TransportAssumption
<1> USE DEF IInv, Sound
<1>1. ASSUME NEW s \in Sessions, NEW a \in Addrs, Join(s, a)
      PROVE  Owned' /\ KeysOfOwnClient'
  <2>1. \A t \in Sessions : client'[t].addr = IF t = s THEN a ELSE client[t].addr
    BY <1>1 DEF Join, TypeOK
  <2>2. /\ FreshAddr(a) /\ in_hub \subseteq in_hub' /\ s \notin in_hub
        /\ \A t \in Sessions : t \in in_hub => address'[t] = address[t]
        /\ UNCHANGED <<by_addr, task>>
    BY <1>1 DEF Join, TypeOK
  <2>3. Owned'
    BY <2>1, <2>2, FreshIsFree, MoveOwned DEF Owned
  <2> QED BY <1>1, <2>3 DEF Join, KeysOfOwnClient, TypeOK
<1>2. ASSUME NEW s \in Sessions, NEW a \in Addrs, Rebind(s, a)
      PROVE  Owned' /\ KeysOfOwnClient'
  <2>1. \A t \in Sessions : client'[t].addr = IF t = s THEN a ELSE client[t].addr
    BY <1>2 DEF Rebind, TypeOK
  <2>2. FreshAddr(a) /\ UNCHANGED <<in_hub, address, by_addr, task, keys>>
    BY <1>2 DEF Rebind
  <2>3. Owned'
    BY <2>1, <2>2, FreshIsFree, MoveOwned DEF Owned
  <2> QED BY <2>2, <2>3 DEF KeysOfOwnClient
<1>3. ASSUME NEW s \in Sessions, Leave(s)
      PROVE  Owned' /\ KeysOfOwnClient'
  <2>1. \A t \in Sessions : client'[t].addr = IF t = s THEN None ELSE client[t].addr
    BY <1>3 DEF Leave, ClientOff, TypeOK
  <2>2. \A a \in Addrs : by_addr'[a] = IF a = address[s] THEN None ELSE by_addr[a]
    BY <1>3 DEF Leave, Forget
  <2>3. in_hub' = in_hub \ {s} /\ UNCHANGED <<address, task, keys>>
    BY <1>3 DEF Leave
  <2>4. OneClient'
    BY <2>1 DEF Owned, OneClient
  <2>5. IndexIsLatch'
    BY <2>2, <2>3 DEF Owned, IndexIsLatch
  <2>6. IndexIsOwner' /\ TaskIsOwner' /\ PeerIsSession'
    BY <2>1, <2>2, <2>3 DEF Owned, IndexIsOwner, TaskIsOwner, PeerIsSession, IsOpen
  <2> QED BY <2>3, <2>4, <2>5, <2>6 DEF Owned, KeysOfOwnClient
<1>4. ASSUME NEW s \in Sessions, NEW u \in BOOLEAN, handle_stun(s, u)
      PROVE  Owned' /\ KeysOfOwnClient'
  <2> DEFINE a == client[s].addr
  <2>1. a \in Addrs /\ s \in in_hub
    BY <1>4 DEF handle_stun, Online, HasAddr, TypeOK
  <2>2. \A t \in Sessions : client'[t].addr = client[t].addr
    BY <1>4 DEF handle_stun, TypeOK
  <2>3. \A b \in Addrs : by_addr'[b] = IF b = a THEN s
                                       ELSE IF b = address[s] THEN None ELSE by_addr[b]
    BY <1>4, <2>1 DEF handle_stun, Forget
  <2>4. /\ \A t \in Sessions : address'[t] = IF t = s THEN a ELSE address[t]
        /\ UNCHANGED <<in_hub, keys>>
    BY <1>4 DEF handle_stun, TypeOK
  <2> HIDE DEF a
  <2>5. \A t \in Sessions : client[t].addr = a => t = s
    BY <2>1 DEF a, Owned, OneClient
  <2>6. OneClient'
    BY <2>2 DEF Owned, OneClient
  <2>7. IndexIsLatch'
    BY <2>1, <2>3, <2>4 DEF Owned, IndexIsLatch, TypeOK
  <2>8. IndexIsOwner'
    BY <2>2, <2>3, <2>5 DEF Owned, IndexIsOwner
  <2>9. TaskIsOwner' /\ PeerIsSession'
    <3>1. CASE UNCHANGED <<task, dtls_map>>
      BY <2>2, <3>1 DEF Owned, TaskIsOwner, PeerIsSession, IsOpen
    <3>2. CASE start_dtls_handshake(a, s, None)
      BY <2>1, <2>2, <2>5, <3>2, StartOwned DEF Owned
    <3> QED BY <1>4, <3>1, <3>2 DEF handle_stun, a
  <2> QED BY <2>4, <2>6, <2>7, <2>8, <2>9 DEF Owned, KeysOfOwnClient
<1>5. ASSUME NEW s \in Sessions, handle_dtls_hello(s)
      PROVE  Owned' /\ KeysOfOwnClient'
  <2> DEFINE a == client[s].addr
  <2>1. a \in Addrs
    BY <1>5 DEF handle_dtls_hello, HasAddr, TypeOK
  <2>2. UNCHANGED <<in_hub, address, by_addr, keys, client>>
    BY <1>5 DEF handle_dtls_hello
  <2>3. TaskIsOwner' /\ PeerIsSession'
    <3>1. CASE MayRestart(a) /\ start_dtls_handshake(a, by_addr[a], s)
      <4>1. by_addr[a] = s
        BY <2>1, <3>1 DEF MayRestart, Owned, IndexIsOwner
      <4>2. \A t \in Sessions : client[t].addr = a => t = s
        BY <2>1 DEF Owned, OneClient
      <4> QED BY <2>1, <2>2, <3>1, <4>1, <4>2, StartOwned DEF Owned
    <3>2. CASE /\ task[a].state = "accept"
               /\ task' = [task EXCEPT ![a].state = "flight", ![a].peer = s]
      <4>1. IsOpen(a) /\ task[a].session = s
        BY <2>1, <3>2 DEF Owned, TaskIsOwner, IsOpen
      <4>2. task'[a].session = s /\ task'[a].peer = s /\ \A b \in Addrs \ {a} : task'[b] = task[b]
        BY <2>1, <3>2, <4>1 DEF TypeOK
      <4>3. \A t \in Sessions : client[t].addr = a => t = s
        BY <2>1 DEF Owned, OneClient
      <4> HIDE DEF a
      <4> QED BY <2>1, <2>2, <4>2, <4>3 DEF Owned, TaskIsOwner, PeerIsSession, IsOpen
    <3> QED BY <1>5, <3>1, <3>2 DEF handle_dtls_hello
  <2> QED BY <2>2, <2>3 DEF Owned, OneClient, IndexIsLatch, IndexIsOwner, KeysOfOwnClient
<1>6. ASSUME NEW s \in Sessions, handle_dtls_finish(s)
      PROVE  Owned' /\ KeysOfOwnClient'
  <2> DEFINE a == client[s].addr
  <2>1. a \in Addrs
    BY <1>6 DEF handle_dtls_finish, HasAddr, TypeOK
  <2>2. UNCHANGED <<in_hub, address, by_addr, keys>>
    BY <1>6 DEF handle_dtls_finish
  <2>3. \A t \in Sessions : client'[t].addr = client[t].addr
    BY <1>6 DEF handle_dtls_finish, TypeOK
  <2>4. TaskIsOwner' /\ PeerIsSession'
    <3>1. CASE MayRestart(a) /\ start_dtls_handshake(a, by_addr[a], None)
      <4>1. by_addr[a] = s
        BY <2>1, <3>1 DEF MayRestart, Owned, IndexIsOwner
      <4>2. \A t \in Sessions : client[t].addr = a => t = s
        BY <2>1 DEF Owned, OneClient
      <4> QED BY <2>1, <2>3, <3>1, <4>1, <4>2, StartOwned DEF Owned
    <3>2. CASE task[a].state = "flight" /\ task' = [task EXCEPT ![a].state = "install"]
      <4>1. /\ task'[a].session = task[a].session /\ task'[a].peer = task[a].peer
            /\ \A b \in Addrs \ {a} : task'[b] = task[b]
        BY <2>1, <3>2 DEF TypeOK
      <4> HIDE DEF a
      <4> QED BY <2>1, <2>3, <3>2, <4>1 DEF Owned, TaskIsOwner, PeerIsSession, IsOpen
    <3> QED BY <1>6, <3>1, <3>2 DEF handle_dtls_finish
  <2> QED BY <2>2, <2>3, <2>4 DEF Owned, OneClient, IndexIsLatch, IndexIsOwner, KeysOfOwnClient
<1>7. ASSUME NEW a \in Addrs, ServerFlight(a)
      PROVE  Owned' /\ KeysOfOwnClient'
  <2>1. UNCHANGED <<in_hub, address, by_addr, keys, task>>
    BY <1>7 DEF ServerFlight
  <2>2. \A t \in Sessions : client'[t].addr = client[t].addr
    BY <1>7 DEF ServerFlight, TypeOK
  <2> QED BY <2>1, <2>2 DEF Owned, OneClient, IndexIsLatch, IndexIsOwner, KeysOfOwnClient,
                            TaskIsOwner, PeerIsSession, IsOpen
<1>8. ASSUME NEW a \in Addrs, install_srtp_keys(a)
      PROVE  Owned' /\ KeysOfOwnClient'
  <2>1. UNCHANGED <<in_hub, address, by_addr, client>>
    BY <1>8 DEF install_srtp_keys
  <2>2. /\ task'[a].session = task[a].session /\ task'[a].peer = task[a].peer
        /\ \A b \in Addrs \ {a} : task'[b] = task[b]
    BY <1>8 DEF install_srtp_keys, TypeOK
  <2>3. IsOpen(a) /\ task[a].peer = task[a].session /\ task[a].session \in Sessions
    BY <1>8 DEF install_srtp_keys, Owned, PeerIsSession, IsOpen, TaskWellFormed, TypeOK
  <2>4. KeysOfOwnClient'
    BY <1>8, <2>3 DEF install_srtp_keys, KeysFor, KeysOfOwnClient, TypeOK
  <2>5. TaskIsOwner' /\ PeerIsSession'
    BY <2>1, <2>2, <2>3 DEF Owned, TaskIsOwner, PeerIsSession, IsOpen
  <2> QED BY <2>1, <2>4, <2>5 DEF Owned, OneClient, IndexIsLatch, IndexIsOwner
<1>9. ASSUME NEW a \in Addrs, spawn_egress(a)
      PROVE  Owned' /\ KeysOfOwnClient'
  <2>1. UNCHANGED <<in_hub, address, by_addr, keys, client>> /\ task[a].state = "spawn"
    BY <1>9 DEF spawn_egress
  <2>2. /\ task'[a].session = task[a].session /\ task'[a].peer = task[a].peer
        /\ \A b \in Addrs \ {a} : task'[b] = task[b]
    BY <1>9 DEF spawn_egress, TypeOK
  <2> QED BY <2>1, <2>2 DEF Owned, OneClient, IndexIsLatch, IndexIsOwner, KeysOfOwnClient,
                            TaskIsOwner, PeerIsSession, IsOpen
<1>10. ASSUME NEW a \in Addrs, End(a)
       PROVE  Owned' /\ KeysOfOwnClient'
  <2>1. UNCHANGED <<in_hub, address, by_addr, keys, client>>
    BY <1>10 DEF End
  <2>2. task'[a].state = "ended" /\ \A b \in Addrs \ {a} : task'[b] = task[b]
    BY <1>10 DEF End, EndedTask, TypeOK
  <2> QED BY <2>1, <2>2 DEF Owned, OneClient, IndexIsLatch, IndexIsOwner, KeysOfOwnClient,
                            TaskIsOwner, PeerIsSession, IsOpen
<1>11. CASE remove_stale \/ UNCHANGED transportVars
  <2>1. UNCHANGED <<in_hub, address, by_addr, keys, task, client>>
    BY <1>11 DEF remove_stale, transportVars
  <2> QED BY <2>1 DEF Owned, OneClient, IndexIsLatch, IndexIsOwner, KeysOfOwnClient,
                      TaskIsOwner, PeerIsSession, IsOpen
<1> QED
  BY <1>1, <1>2, <1>3, <1>4, <1>5, <1>6, <1>7, <1>8, <1>9, <1>10, <1>11
  DEF Next, HandshakeTimeout, ConnClosed

-----------------------------------------------------------------------------
(* Media of a client that is done. Its latch must be its own, and the keys   *)
(* must be there whatever happens to its address and its task afterwards.    *)

\* A client is there as long as its session is in the hub.
OnlineInHub == \A s \in Sessions : Online(s) <=> s \in in_hub

\* A latch on the address of a client is a latch of that client.
LatchIsOwner ==
  \A s \in Sessions, t \in in_hub : address[t] # None /\ client[s].addr = address[t] => t = s

\* And the index has it.
LatchIsIndexed ==
  \A s \in in_hub : address[s] # None /\ client[s].addr = address[s] => by_addr[address[s]] = s

Latches == OnlineInHub /\ LatchIsOwner /\ LatchIsIndexed

\* An open task has an entry in the map, so handle_stun does not replace it.
OpenIsMapped == \A a \in Addrs : IsOpen(a) => a \in dtls_map

\* A task that waits for the last flight of a client is the one it answers.
FlightIsAssoc ==
  \A s \in Sessions, a \in Addrs :
    /\ client[s].state = "finish" /\ client[s].addr = a
    /\ task[a].state = "flight" /\ task[a].peer = s
    => client[s].assoc = a

\* Keys come before the egress task.
SpawnHasKeys == \A a \in Addrs : task[a].state = "spawn" => keys[task[a].session] = task[a].session

\* The task of the association is about to give the session what it lacks.
AtIt(s) ==
  /\ client[s].assoc \in Addrs
  /\ task[client[s].assoc].session = s /\ task[client[s].assoc].state \in {"install", "spawn"}

\* What DoneMeansMedia says of keys and egress, at whatever address.
DoneHasKeys ==
  \A s \in Sessions : client[s].state = "done" =>
    (keys[s] = s /\ (s \in Subscribe => s \in egress)) \/ AtIt(s)

Handshakes == OpenIsMapped /\ FlightIsAssoc /\ SpawnHasKeys /\ DoneHasKeys

\* Every step keeps the latches with their clients.
LEMMA NextLatches ==
  ASSUME IInv, Latches, ~LiveAddrReuse, [Next]_transportVars
  PROVE  Latches'
<1> USE TransportAssumption
<1> USE DEF IInv, Sound, Latches
<1>1. ASSUME NEW s \in Sessions, NEW a \in Addrs, Join(s, a)
      PROVE  Latches'
  <2>1. \A t \in Sessions : /\ client'[t].addr = IF t = s THEN a ELSE client[t].addr
                            /\ client'[t].state = IF t = s THEN "ice" ELSE client[t].state
    BY <1>1 DEF Join, TypeOK
  <2>2. /\ FreshAddr(a) /\ in_hub' = in_hub \cup {s} /\ by_addr' = by_addr
        /\ \A t \in Sessions : address'[t] = IF t = s THEN None ELSE address[t]
    BY <1>1 DEF Join, TypeOK
  <2>3. \A t \in in_hub : t \in Sessions /\ address[t] # a
    BY <2>2 DEF FreshAddr, TypeOK
  <2> QED BY <2>1, <2>2, <2>3, <1>1 DEF OnlineInHub, LatchIsOwner, LatchIsIndexed, Online
<1>2. ASSUME NEW s \in Sessions, NEW a \in Addrs, Rebind(s, a)
      PROVE  Latches'
  <2>1. \A t \in Sessions : /\ client'[t].addr = IF t = s THEN a ELSE client[t].addr
                            /\ client'[t].state = client[t].state
    BY <1>2 DEF Rebind, TypeOK
  <2>2. FreshAddr(a) /\ UNCHANGED <<in_hub, address, by_addr>>
    BY <1>2 DEF Rebind
  <2>3. \A t \in in_hub : t \in Sessions /\ address[t] # a
    BY <2>2 DEF FreshAddr, TypeOK
  <2> QED BY <2>1, <2>2, <2>3 DEF OnlineInHub, LatchIsOwner, LatchIsIndexed, Online
<1>3. ASSUME NEW s \in Sessions, Leave(s)
      PROVE  Latches'
  <2>1. \A t \in Sessions : /\ client'[t].addr = IF t = s THEN None ELSE client[t].addr
                            /\ client'[t].state = IF t = s THEN "off" ELSE client[t].state
    BY <1>3 DEF Leave, ClientOff, TypeOK
  <2>2. \A b \in Addrs : by_addr'[b] = IF b = address[s] THEN None ELSE by_addr[b]
    BY <1>3 DEF Leave, Forget
  <2>3. in_hub' = in_hub \ {s} /\ UNCHANGED address /\ s \in in_hub
    BY <1>3 DEF Leave, OnlineInHub
  <2>4. \A t \in in_hub : t \in Sessions /\ address[t] \in Addrs \cup {None}
    BY DEF TypeOK
  <2> QED BY <2>1, <2>2, <2>3, <2>4 DEF OnlineInHub, LatchIsOwner, LatchIsIndexed, Online
<1>4. ASSUME NEW s \in Sessions, NEW u \in BOOLEAN, handle_stun(s, u)
      PROVE  Latches'
  <2> DEFINE a == client[s].addr
  <2>1. a \in Addrs /\ s \in in_hub
    BY <1>4 DEF handle_stun, Online, HasAddr, TypeOK
  <2>2. \A t \in Sessions : /\ client'[t].addr = client[t].addr
                            /\ client'[t].state = "off" <=> client[t].state = "off"
    BY <1>4 DEF handle_stun, TypeOK
  <2>3. \A b \in Addrs : by_addr'[b] = IF b = a THEN s
                                       ELSE IF b = address[s] THEN None ELSE by_addr[b]
    BY <1>4, <2>1 DEF handle_stun, Forget
  <2>4. /\ \A t \in Sessions : address'[t] = IF t = s THEN a ELSE address[t]
        /\ UNCHANGED in_hub
    BY <1>4 DEF handle_stun, TypeOK
  <2>5. \A t \in Sessions : client[t].addr = a => t = s
    BY <2>1 DEF Owned, OneClient
  <2>6. \A t \in in_hub : t \in Sessions /\ address[t] \in Addrs \cup {None}
    BY DEF TypeOK
  <2> HIDE DEF a
  <2>7. OnlineInHub'
    BY <2>2, <2>4 DEF OnlineInHub, Online
  <2>8. LatchIsOwner'
    BY <2>2, <2>4, <2>5, <2>6 DEF LatchIsOwner
  <2>9. LatchIsIndexed'
    BY <2>1, <2>2, <2>3, <2>4, <2>5, <2>6 DEF LatchIsOwner, LatchIsIndexed, a
  <2> QED BY <2>7, <2>8, <2>9
<1>5. ASSUME NEW s \in Sessions, handle_dtls_hello(s)
      PROVE  Latches'
  BY <1>5 DEF handle_dtls_hello, OnlineInHub, LatchIsOwner, LatchIsIndexed, Online
<1>6. ASSUME NEW s \in Sessions, handle_dtls_finish(s)
      PROVE  Latches'
  <2>1. \A t \in Sessions : /\ client'[t].addr = client[t].addr
                            /\ client'[t].state = "off" <=> client[t].state = "off"
    <3>1. \/ client' = [client EXCEPT ![s].state = "done"] /\ client[s].state = "finish"
          \/ client' = client
      BY <1>6 DEF handle_dtls_finish
    <3> QED BY <3>1 DEF TypeOK
  <2>2. UNCHANGED <<in_hub, address, by_addr>>
    BY <1>6 DEF handle_dtls_finish
  <2>3. in_hub \subseteq Sessions
    BY DEF TypeOK
  <2> QED BY <2>1, <2>2, <2>3 DEF OnlineInHub, LatchIsOwner, LatchIsIndexed, Online
<1>7. ASSUME NEW a \in Addrs, ServerFlight(a)
      PROVE  Latches'
  <2>1. \A t \in Sessions : /\ client'[t].addr = client[t].addr
                            /\ client'[t].state = "off" <=> client[t].state = "off"
    BY <1>7 DEF ServerFlight, TypeOK
  <2> QED BY <1>7, <2>1 DEF ServerFlight, TypeOK, OnlineInHub, LatchIsOwner, LatchIsIndexed, Online
<1>8. ASSUME NEW a \in Addrs, install_srtp_keys(a)
      PROVE  Latches'
  BY <1>8 DEF install_srtp_keys, OnlineInHub, LatchIsOwner, LatchIsIndexed, Online
<1>9. ASSUME NEW a \in Addrs, spawn_egress(a)
      PROVE  Latches'
  BY <1>9 DEF spawn_egress, OnlineInHub, LatchIsOwner, LatchIsIndexed, Online
<1>10. ASSUME NEW a \in Addrs, End(a)
      PROVE  Latches'
  BY <1>10 DEF End, OnlineInHub, LatchIsOwner, LatchIsIndexed, Online
<1>11. CASE remove_stale \/ UNCHANGED transportVars
  BY <1>11 DEF remove_stale, transportVars, OnlineInHub, LatchIsOwner, LatchIsIndexed, Online
<1> QED
  BY <1>1, <1>2, <1>3, <1>4, <1>5, <1>6, <1>7, <1>8, <1>9, <1>10, <1>11
  DEF Next, HandshakeTimeout, ConnClosed

\* A new task at an address without an open one: no client waits for it, and no
\* client has its association with an open task there.
LEMMA StartHandshakes ==
  ASSUME IInv, Handshakes, NEW a \in Addrs, NEW s \in Sessions, NEW peer \in {s, None},
         ~IsOpen(a), peer # None => client[s].state = "hello",
         \A t \in Sessions : /\ client'[t].state = client[t].state \/ client'[t].state = "hello"
                             /\ client'[t].addr = client[t].addr
                             /\ client'[t].assoc = client[t].assoc,
         start_dtls_handshake(a, s, peer), UNCHANGED <<keys, egress>>
  PROVE  Handshakes'
<1> USE TransportAssumption DEF IInv, Sound, Handshakes
<1> DEFINE n == [state |-> IF peer = None THEN "accept" ELSE "flight", session |-> s, peer |-> peer]
<1>1. task'[a] = n /\ (\A b \in Addrs \ {a} : task'[b] = task[b]) /\ dtls_map' = dtls_map \cup {a}
  BY DEF start_dtls_handshake, TypeOK
<1>2. n.peer = peer /\ n.session = s /\ n.state \in {"accept", "flight"}
      /\ (n.state = "flight" => peer = s)
  OBVIOUS
<1> HIDE DEF n
<1>3. task[a].state = "ended"
  BY DEF IsOpen
<1>4. OpenIsMapped'
  BY <1>1 DEF OpenIsMapped, IsOpen
<1>5. FlightIsAssoc'
  <2> SUFFICES ASSUME NEW t \in Sessions, NEW b \in Addrs,
                      client'[t].state = "finish", client'[t].addr = b,
                      task'[b].state = "flight", task'[b].peer = t
               PROVE  client'[t].assoc = b
    BY DEF FlightIsAssoc
  <2>1. client[t].state = "finish" /\ client[t].addr = b
    OBVIOUS
  <2>2. b # a
    <3> SUFFICES ASSUME b = a PROVE FALSE
      OBVIOUS
    <3>1. t = s /\ peer = s
      BY <1>1, <1>2
    <3> QED BY <2>1, <3>1
  <2> QED BY <1>1, <2>1, <2>2 DEF FlightIsAssoc
<1>6. SpawnHasKeys'
  BY <1>1, <1>2 DEF SpawnHasKeys
<1>7. DoneHasKeys'
  BY <1>1, <1>3 DEF DoneHasKeys, AtIt
<1> QED BY <1>4, <1>5, <1>6, <1>7

\* Every step keeps what a done client has, or is about to get.
LEMMA NextHandshakes ==
  ASSUME IInv, Latches, Handshakes, ~LiveAddrReuse, [Next]_transportVars
  PROVE  Handshakes'
<1> USE TransportAssumption
<1> USE DEF IInv, Sound, Handshakes
<1>1. ASSUME NEW s \in Sessions, NEW a \in Addrs, Join(s, a)
      PROVE  Handshakes'
  <2>1. \A t \in Sessions \ {s} : client'[t] = client[t]
    BY <1>1 DEF Join, TypeOK
  <2>2. client'[s].state = "ice"
    BY <1>1 DEF Join, TypeOK
  <2>3. UNCHANGED <<dtls_map, task, egress>> /\ \A t \in Sessions \ {s} : keys'[t] = keys[t]
    BY <1>1 DEF Join, TypeOK
  <2>4. \A b \in Addrs : task[b].session # s
    BY <1>1 DEF Join
  <2>5. \A b \in Addrs : task[b].state = "spawn" => task[b].session \in Sessions
    BY DEF TypeOK, TaskWellFormed, IsOpen
  <2>6. SpawnHasKeys'
    BY <2>3, <2>4, <2>5 DEF SpawnHasKeys
  <2> QED BY <2>1, <2>2, <2>3, <2>6 DEF OpenIsMapped, FlightIsAssoc, DoneHasKeys, AtIt, IsOpen
<1>2. ASSUME NEW s \in Sessions, NEW a \in Addrs, Rebind(s, a)
      PROVE  Handshakes'
  <2>1. \A t \in Sessions : /\ client'[t].addr = IF t = s THEN a ELSE client[t].addr
                            /\ client'[t].state = client[t].state
                            /\ client'[t].assoc = client[t].assoc
    BY <1>2 DEF Rebind, TypeOK
  <2>2. FreshAddr(a) /\ UNCHANGED <<dtls_map, task, keys, egress>>
    BY <1>2 DEF Rebind
  <2>3. task[a].state = "ended"
    BY <2>2, FreshIsFree DEF IsOpen, Owned
  <2> QED BY <2>1, <2>2, <2>3 DEF OpenIsMapped, FlightIsAssoc, SpawnHasKeys, DoneHasKeys, AtIt, IsOpen
<1>3. ASSUME NEW s \in Sessions, Leave(s)
      PROVE  Handshakes'
  <2>1. client'[s].state = "off" /\ \A t \in Sessions \ {s} : client'[t] = client[t]
    BY <1>3 DEF Leave, ClientOff, TypeOK
  <2> QED BY <1>3, <2>1 DEF Leave, OpenIsMapped, FlightIsAssoc, SpawnHasKeys, DoneHasKeys, AtIt, IsOpen
<1>4. ASSUME NEW s \in Sessions, NEW u \in BOOLEAN, handle_stun(s, u)
      PROVE  Handshakes'
  <2> DEFINE a == client[s].addr
  <2>1. a \in Addrs
    BY <1>4 DEF handle_stun, Online, HasAddr, TypeOK
  <2>2. \A t \in Sessions : /\ client'[t].addr = client[t].addr /\ client'[t].assoc = client[t].assoc
                            /\ client'[t].state = client[t].state \/ client'[t].state = "hello"
    BY <1>4 DEF handle_stun, TypeOK
  <2>3. UNCHANGED <<keys, egress>>
    BY <1>4 DEF handle_stun
  <2>4. CASE UNCHANGED <<task, dtls_map>>
    BY <2>2, <2>3, <2>4 DEF OpenIsMapped, FlightIsAssoc, SpawnHasKeys, DoneHasKeys, AtIt, IsOpen
  <2>5. CASE a \notin dtls_map /\ start_dtls_handshake(a, s, None)
    <3>1. ~IsOpen(a)
      BY <2>1, <2>5 DEF OpenIsMapped
    <3> QED BY <2>1, <2>2, <2>3, <2>5, <3>1, StartHandshakes
  <2> QED BY <1>4, <2>4, <2>5 DEF handle_stun
<1>5. ASSUME NEW s \in Sessions, handle_dtls_hello(s)
      PROVE  Handshakes'
  <2> DEFINE a == client[s].addr
  <2>1. a \in Addrs /\ client[s].state = "hello"
    BY <1>5 DEF handle_dtls_hello, HasAddr, TypeOK
  <2>2. UNCHANGED <<keys, egress, client>>
    BY <1>5 DEF handle_dtls_hello
  <2>3. CASE MayRestart(a) /\ start_dtls_handshake(a, by_addr[a], s)
    <3>1. by_addr[a] = s
      BY <2>1, <2>3 DEF MayRestart, Owned, IndexIsOwner
    <3>2. ~IsOpen(a)
      BY <2>1, <2>3 DEF MayRestart, Injected, OpenIsMapped
    <3> QED BY <2>1, <2>2, <2>3, <3>1, <3>2, StartHandshakes
  <2>4. CASE /\ task[a].state = "accept" /\ UNCHANGED dtls_map
             /\ task' = [task EXCEPT ![a].state = "flight", ![a].peer = s]
    <3>1. task'[a].state = "flight" /\ task'[a].peer = s /\ \A b \in Addrs \ {a} : task'[b] = task[b]
      BY <2>1, <2>4 DEF TypeOK
    <3>2. OpenIsMapped' /\ SpawnHasKeys'
      BY <2>1, <2>2, <2>4, <3>1 DEF OpenIsMapped, SpawnHasKeys, IsOpen
    <3>3. FlightIsAssoc'
      BY <2>1, <2>2, <3>1 DEF FlightIsAssoc
    <3>4. \A t \in Sessions : AtIt(t) => AtIt(t)'
      <4> HIDE DEF a
      <4> QED BY <2>2, <2>4, <3>1 DEF AtIt
    <3>5. DoneHasKeys'
      BY <2>2, <3>4 DEF DoneHasKeys
    <3> QED BY <3>2, <3>3, <3>5
  <2> QED BY <1>5, <2>3, <2>4 DEF handle_dtls_hello
<1>6. ASSUME NEW s \in Sessions, handle_dtls_finish(s)
      PROVE  Handshakes'
  <2> DEFINE a == client[s].addr
  <2>1. a \in Addrs /\ client[s].state = "finish"
    BY <1>6 DEF handle_dtls_finish, HasAddr, TypeOK
  <2>2. UNCHANGED <<keys, egress>>
    BY <1>6 DEF handle_dtls_finish
  <2>3. CASE MayRestart(a) /\ start_dtls_handshake(a, by_addr[a], None) /\ UNCHANGED client
    <3>1. by_addr[a] = s
      BY <2>1, <2>3 DEF MayRestart, Owned, IndexIsOwner
    <3>2. ~IsOpen(a)
      BY <2>1, <2>3 DEF MayRestart, Injected, OpenIsMapped
    <3> QED BY <2>1, <2>2, <2>3, <3>1, <3>2, StartHandshakes
  <2>4. CASE /\ task[a].state = "flight" /\ task[a].peer = s /\ UNCHANGED dtls_map
             /\ task' = [task EXCEPT ![a].state = "install"]
             /\ client' = [client EXCEPT ![s].state = "done"]
    <3>1. /\ task'[a].state = "install" /\ task'[a].session = task[a].session
          /\ \A b \in Addrs \ {a} : task'[b] = task[b]
      BY <2>1, <2>4 DEF TypeOK
    <3>2. /\ client'[s].state = "done" /\ client'[s].assoc = client[s].assoc
          /\ \A t \in Sessions \ {s} : client'[t] = client[t]
      BY <2>4 DEF TypeOK
    <3>3. client[s].assoc = a /\ task[a].session = s
      BY <2>1, <2>4 DEF FlightIsAssoc, Owned, PeerIsSession, IsOpen
    <3>4. OpenIsMapped' /\ SpawnHasKeys' /\ FlightIsAssoc'
      BY <2>1, <2>2, <2>4, <3>1, <3>2 DEF OpenIsMapped, SpawnHasKeys, FlightIsAssoc, IsOpen
    <3>5. DoneHasKeys'
      BY <2>1, <2>2, <2>4, <3>1, <3>2, <3>3 DEF DoneHasKeys, AtIt
    <3> QED BY <3>4, <3>5
  <2> QED BY <1>6, <2>3, <2>4 DEF handle_dtls_finish
<1>7. ASSUME NEW a \in Addrs, ServerFlight(a)
      PROVE  Handshakes'
  <2> DEFINE s == task[a].peer
  <2>1. s \in Sessions
    BY <1>7 DEF ServerFlight, TypeOK, TaskWellFormed, IsOpen
  <2>2. /\ client'[s].state = "finish" /\ client'[s].assoc = a /\ client'[s].addr = a
        /\ \A t \in Sessions \ {s} : client'[t] = client[t]
    BY <1>7, <2>1 DEF ServerFlight, TypeOK
  <2>3. UNCHANGED <<dtls_map, task, keys, egress>>
    BY <1>7 DEF ServerFlight
  <2> HIDE DEF s
  <2> QED BY <2>1, <2>2, <2>3 DEF OpenIsMapped, FlightIsAssoc, SpawnHasKeys, DoneHasKeys, AtIt, IsOpen
<1>8. ASSUME NEW a \in Addrs, install_srtp_keys(a)
      PROVE  Handshakes'
  <2> DEFINE s == task[a].session
  <2>1. s \in Sessions /\ task[a].peer = s /\ task[a].state = "install"
    BY <1>8 DEF install_srtp_keys, Owned, PeerIsSession, IsOpen, TaskWellFormed, TypeOK
  <2>2. keys'[s] = s /\ \A t \in Sessions \ {s} : keys'[t] = keys[t]
    BY <1>8, <2>1 DEF install_srtp_keys, KeysFor, TypeOK
  <2>3. /\ task'[a].session = s /\ task'[a].state = IF s \in Subscribe THEN "spawn" ELSE "keepalive"
        /\ \A b \in Addrs \ {a} : task'[b] = task[b]
    BY <1>8, <2>1 DEF install_srtp_keys, NeedsEgress, TypeOK
  <2>4. UNCHANGED <<dtls_map, egress, client>>
    BY <1>8 DEF install_srtp_keys
  <2>5. \A b \in Addrs : task[b].state = "spawn" => task[b].session \in Sessions
    BY DEF TypeOK, TaskWellFormed, IsOpen
  <2> HIDE DEF s
  <2>6. OpenIsMapped' /\ FlightIsAssoc'
    BY <2>1, <2>3, <2>4 DEF OpenIsMapped, FlightIsAssoc, IsOpen
  <2>7. SpawnHasKeys'
    BY <2>2, <2>3, <2>5 DEF SpawnHasKeys
  <2>8. DoneHasKeys'
    BY <2>1, <2>2, <2>3, <2>4 DEF DoneHasKeys, AtIt, s
  <2> QED BY <2>6, <2>7, <2>8
<1>9. ASSUME NEW a \in Addrs, spawn_egress(a)
      PROVE  Handshakes'
  <2> DEFINE s == task[a].session
  <2>1. s \in Subscribe /\ keys[s] = s /\ task[a].state = "spawn"
    BY <1>9 DEF spawn_egress, TaskWellFormed, IsOpen, SpawnHasKeys
  <2>2. /\ egress' = egress \cup {s} /\ task'[a].state = "keepalive"
        /\ \A b \in Addrs \ {a} : task'[b] = task[b]
        /\ UNCHANGED <<dtls_map, keys, client>>
    BY <1>9 DEF spawn_egress, TypeOK
  <2>3. OpenIsMapped' /\ FlightIsAssoc' /\ SpawnHasKeys'
    BY <2>1, <2>2 DEF OpenIsMapped, FlightIsAssoc, SpawnHasKeys, IsOpen
  <2>4. DoneHasKeys'
    BY <2>1, <2>2 DEF DoneHasKeys, AtIt
  <2> QED BY <2>3, <2>4
<1>10. ASSUME NEW a \in Addrs, HandshakeTimeout(a) \/ ConnClosed(a)
      PROVE  Handshakes'
  <2>1. /\ task[a].state \notin {"install", "spawn"} /\ task'[a].state = "ended"
        /\ \A b \in Addrs \ {a} : task'[b] = task[b]
        /\ UNCHANGED <<dtls_map, keys, egress, client>>
    BY <1>10 DEF HandshakeTimeout, ConnClosed, End, EndedTask, TypeOK
  <2> QED BY <2>1 DEF OpenIsMapped, FlightIsAssoc, SpawnHasKeys, DoneHasKeys, AtIt, IsOpen
<1>11. CASE remove_stale
  BY <1>11 DEF remove_stale, OpenIsMapped, FlightIsAssoc, SpawnHasKeys, DoneHasKeys, AtIt, IsOpen
<1>12. CASE UNCHANGED transportVars
  BY <1>12 DEF transportVars, OpenIsMapped, FlightIsAssoc, SpawnHasKeys, DoneHasKeys, AtIt, IsOpen
<1> QED
  BY <1>1, <1>2, <1>3, <1>4, <1>5, <1>6, <1>7, <1>8, <1>9, <1>10, <1>11, <1>12 DEF Next

-----------------------------------------------------------------------------
\* For any sessions and addresses, reused or not, the state of latches, DTLS tasks,
\* keys and egress tasks keeps its types; only subscribers get an egress task.
THEOREM TransportTypes == Spec => []TypeOK
<1>1. Init => Sound
  BY InitIInv DEF IInv
<1>2. Sound /\ [Next]_transportVars => Sound'
  BY NextSound
<1>3. Sound => TypeOK
  BY DEF Sound
<1> QED BY <1>1, <1>2, <1>3, PTL DEF Spec

\* start_dtls_handshake and handle_dtls: if addresses are not reused while a task or
\* a latch of the client before is there, a session only ever has keys shared with
\* its own client, whatever clients, time-outs and rebindings there are.
THEOREM KeysStayWithOwner ==
  ASSUME ~LiveAddrReuse
  PROVE  Spec => []KeysOfOwnClient
<1>1. Init => IInv
  BY InitIInv
<1>2. IInv /\ [Next]_transportVars => IInv'
  BY NextSound, NextOwned DEF IInv
<1>3. IInv => KeysOfOwnClient
  BY DEF IInv
<1> QED BY <1>1, <1>2, <1>3, PTL DEF Spec

\* If addresses are not reused in that way, a client that has completed its handshake
\* and is latched to its present address has its entry in the index, its keys and,
\* for a subscriber, its egress task, or its DTLS task is just about to provide them.
THEOREM DoneClientHasMedia ==
  ASSUME ~LiveAddrReuse
  PROVE  Spec => []DoneMeansMedia
<1> DEFINE Inv == IInv /\ Latches /\ Handshakes
<1>1. Init => Inv
  <2> SUFFICES ASSUME Init PROVE Inv
    OBVIOUS
  <2>1. Latches
    BY TransportAssumption
    DEF Init, Latches, OnlineInHub, LatchIsOwner, LatchIsIndexed, Online, ClientOff
  <2>2. Handshakes
    BY TransportAssumption
    DEF Init, Handshakes, OpenIsMapped, FlightIsAssoc, SpawnHasKeys, DoneHasKeys, AtIt, IsOpen,
        EndedTask, ClientOff
  <2> QED BY <2>1, <2>2, InitIInv
<1>2. Inv /\ [Next]_transportVars => Inv'
  BY NextSound, NextOwned, NextLatches, NextHandshakes DEF IInv
<1>3. Inv => DoneMeansMedia
  <2> SUFFICES ASSUME Inv, NEW s \in Sessions,
                      client[s].state = "done", address[s] = client[s].addr
               PROVE  /\ by_addr[address[s]] = s
                      /\ \/ keys[s] = s /\ (s \in Subscribe => s \in egress)
                         \/ /\ task[client[s].assoc].session = s
                            /\ task[client[s].assoc].state \in {"install", "spawn"}
    BY DEF DoneMeansMedia
  <2>1. s \in in_hub /\ address[s] # None
    BY DEF IInv, Sound, HasAddr, Latches, OnlineInHub, Online
  <2>2. by_addr[address[s]] = s
    BY <2>1 DEF Latches, LatchIsIndexed
  <2> QED BY <2>2 DEF Handshakes, DoneHasKeys, AtIt
<1> QED BY <1>1, <1>2, <1>3, PTL DEF Spec
=============================================================================
