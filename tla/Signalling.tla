---------------------------- MODULE Signalling ------------------------------
(***************************************************************************)
(* The WebSocket sessions of src/signaling/handler and the zombie reaper:  *)
(* who is in a room, which tracks are in it, and which tracks the clients  *)
(* are told of. One task per connection reads a request, runs its handler  *)
(* to the end, writes the response to the socket and goes back to a        *)
(* select! over the socket and the queue ws_tx of events from other tasks. *)
(* Tasks run on several threads: the steps of two handlers interleave. An  *)
(* event waits in the queue while a response overtakes it.                 *)
(*                                                                         *)
(* A Participant is the number of the join that made it, and the track a   *)
(* client publishes has the SSRC with that number; the virtual SSRC of a   *)
(* Participant in a simulcast room is the negated number. Capacity and the *)
(* lookup indices are in RoomHub, the floor is in PttRoom, PLI bursts are  *)
(* in Keyframes. The events participant_joined and participant_left and    *)
(* the member lists go the same ways as the tracks and are left out.       *)
(***************************************************************************)
EXTENDS Integers, Sequences, FiniteSets, FiniteSetsExt

CONSTANTS
  Conns, Users, Rooms,
  UserOf,          \* per connection: the user it identifies as
  Reaper,          \* the task of run_zombie_reaper
  MaxJoins,        \* bound: the Participants that are ever made
  MaxQueue,        \* bound: no request starts while more events wait
  MaxBusy,         \* bound: handlers under way at the same time
  Simulcast,       \* Room.simulcast_enabled
  None

Parts == 1..MaxJoins

Actors == Conns \cup {Reaper}

ASSUME SignallingAssumption ==
  /\ MaxJoins \in Nat /\ MaxQueue \in Nat /\ MaxBusy \in Nat
  /\ Simulcast \in BOOLEAN
  /\ UserOf \in [Conns -> Users]
  /\ Reaper \notin Conns
  /\ None \notin Conns \cup Users \cup Rooms

VARIABLES
  session,       \* per connection: is the socket open, Session.current_room and
                 \* the part whose ufrags it keeps
  joins,         \* the Participants made so far
  ws_tx,         \* per part: the connection whose queue it writes to
  participants,  \* per room and user: the part, or 0
  tracks,        \* per part: the SSRCs of its tracks
  todo, ctx,     \* per actor: the steps its handler has still to do, its local variables
  queue,         \* per connection: the events waiting in ws_tx
  view,          \* per client: the SSRCs it expects media on
  owes           \* the clients that have a TRACKS_ACK to send

sessionVars == <<session, joins, ws_tx>>

roomVars == <<participants, tracks>>

handlerVars == <<todo, ctx>>

sigVars == <<sessionVars, roomVars, handlerVars, queue, view, owes>>

Ssrcs == Parts \cup {-p : p \in Parts}

\* The steps handlers consist of.
Ops == {"join_response", "leave_response", "reap_response", "add_track", "announce_add",
        "collect", "queue_resync", "announce_remove", "remove"}

NoCtx == [room |-> None, user |-> None, part |-> 0, ssrcs |-> {}]

\* The connections are open and identified. (IDENTIFY is taken again at any
\* time, under any name; clients send it once.)
Init ==
  /\ session = [c \in Conns |-> [open |-> TRUE, room |-> None, part |-> 0]]
  /\ joins = 0
  /\ ws_tx = [p \in Parts |-> None]
  /\ participants = [r \in Rooms |-> [u \in Users |-> 0]]
  /\ tracks = [p \in Parts |-> {}]
  /\ todo = [a \in Actors |-> <<>>]
  /\ ctx = [a \in Actors |-> NoCtx]
  /\ queue = [c \in Conns |-> <<>>]
  /\ view = [c \in Conns |-> {}]
  /\ owes = {}

-----------------------------------------------------------------------------
(* What the handlers read *)

Ready(c) == session[c].open /\ todo[c] = <<>>

InRoom(c) == session[c].room # None

\* The part that goes by the name of the session in its room.
Named(c) == participants[session[c].room][UserOf[c]]

Others(r, u) == {participants[r][v] : v \in Users \ {u}} \ {0}

\* The SSRCs under which subscribers see the tracks of a part.
WireSsrcs(p) == IF Simulcast /\ tracks[p] # {} THEN {-p} ELSE tracks[p]

collect_subscribe_tracks(r, u) == UNION {WireSsrcs(p) : p \in Others(r, u)}

Expected(c) == collect_subscribe_tracks(session[c].room, UserOf[c])

\* A participant gets its virtual SSRC when its tracks are first listed or
\* announced; the model gives it with the track. The reaper passes 0.
build_remove_tracks(p, has_vssrc) == IF has_vssrc THEN WireSsrcs(p) ELSE tracks[p]

Event(type, ssrcs) == [type |-> type, ssrcs |-> ssrcs]

\* TRACKS_UPDATE is sent to the participants of the room but `exclude'. A
\* connection that is closing does not read its queue any more.
broadcast(r, exclude, type, ssrcs) ==
  LET to == {ws_tx[p] : p \in Others(r, exclude)}
  IN  queue' = [c \in Conns |-> IF ssrcs # {} /\ c \in to /\ session[c].open
                                THEN Append(queue[c], Event(type, ssrcs)) ELSE queue[c]]

-----------------------------------------------------------------------------
(* Requests. A request that is refused changes nothing and is left out. *)

Begin(a, r, u, p, ssrcs, steps) ==
  /\ MapThenSumSet(LAMBDA c : Len(queue[c]), Conns) <= MaxQueue
  /\ Cardinality({b \in Actors : todo[b] # <<>>}) < MaxBusy
  /\ todo' = [todo EXCEPT ![a] = steps]
  /\ ctx' = [ctx EXCEPT ![a] = [room |-> r, user |-> u, part |-> p, ssrcs |-> ssrcs]]

BeginHere(c, p, steps) == Begin(c, session[c].room, UserOf[c], p, {}, steps)

\* A session that is in another room does not leave it.
handle_room_join(c, r) ==
  LET p == joins + 1
  IN  /\ Ready(c)
      /\ joins < MaxJoins
      /\ participants[r][UserOf[c]] = 0
      /\ joins' = p
      /\ ws_tx' = [ws_tx EXCEPT ![p] = c]
      /\ participants' = [participants EXCEPT ![r][UserOf[c]] = p]
      /\ session' = [session EXCEPT ![c].room = r, ![c].part = p]
      /\ Begin(c, r, UserOf[c], p, {}, <<"join_response">>)
      /\ UNCHANGED <<tracks, queue, view, owes>>

\* The room is the one named in the request, whether the session is in it or not.
handle_room_leave(c, r) ==
  LET p == participants[r][UserOf[c]]
  IN  /\ Ready(c)
      /\ p # 0
      /\ participants' = [participants EXCEPT ![r][UserOf[c]] = 0]
      /\ Begin(c, r, UserOf[c], p, {}, <<"leave_response">>)
      /\ UNCHANGED <<sessionVars, tracks, queue, view, owes>>

PublishSteps_mut_order == <<"announce_add", "add_track">>

PublishSteps == <<"add_track", "announce_add">>

\* (A repeated PUBLISH_TRACKS adds no track and is announced again: left out.)
handle_publish_tracks(c) ==
  /\ Ready(c) /\ InRoom(c)
  /\ Named(c) # 0
  /\ session[c].part \notin tracks[Named(c)]
  /\ BeginHere(c, Named(c), PublishSteps)
  /\ UNCHANGED <<sessionVars, roomVars, queue, view, owes>>

\* The client sends the SSRCs it has. If they are not the expected ones, the
\* list is collected a second time and queued.
handle_tracks_ack(c) ==
  /\ Ready(c) /\ InRoom(c)
  /\ c \in owes
  /\ owes' = owes \ {c}
  /\ IF view[c] = Expected(c) THEN UNCHANGED handlerVars
     ELSE BeginHere(c, 0, <<"collect", "queue_resync">>)
  /\ UNCHANGED <<sessionVars, roomVars, queue, view>>

Listed_mut_merge(c) == view[c] \cup Expected(c)

Listed(c) == Expected(c)

\* The list is written to the socket, ahead of the queue.
handle_room_sync(c) ==
  /\ Ready(c) /\ InRoom(c)
  /\ view' = [view EXCEPT ![c] = Listed(c)]
  /\ UNCHANGED <<sessionVars, roomVars, handlerVars, queue, owes>>

\* The socket is closed, fails, or has been silent for HEARTBEAT_TIMEOUT_MS.
\* The others are told before the participant is removed.
cleanup(c) ==
  /\ Ready(c)
  /\ session' = [session EXCEPT ![c] = [open |-> FALSE, room |-> None, part |-> 0]]
  /\ queue' = [queue EXCEPT ![c] = <<>>]
  /\ view' = [view EXCEPT ![c] = {}]
  /\ owes' = owes \ {c}
  /\ IF InRoom(c)
     THEN Begin(c, session[c].room, UserOf[c], 0,
                IF Named(c) = 0 THEN {} ELSE build_remove_tracks(Named(c), TRUE),
                <<"announce_remove", "remove">>)
     ELSE UNCHANGED handlerVars
  /\ UNCHANGED <<joins, ws_tx, roomVars>>

\* A participant whose last_seen is older than ZOMBIE_TIMEOUT_MS is found; it
\* is removed by name. HEARTBEAT, STUN and media put that off; whether they
\* come is up to the client, so any participant may be found.
reap_zombies(r, u) ==
  /\ todo[Reaper] = <<>>
  /\ participants[r][u] # 0
  /\ Begin(Reaper, r, u, 0, {}, <<"remove", "reap_response">>)
  /\ UNCHANGED <<sessionVars, roomVars, queue, view, owes>>

-----------------------------------------------------------------------------
(* The steps of the handlers; x is the handler's ctx *)

\* ROOM_JOIN lists the tracks once the participant is in the room.
JoinResponse(a, x) ==
  /\ view' = [view EXCEPT ![a] = collect_subscribe_tracks(x.room, x.user)]
  /\ UNCHANGED <<session, roomVars, queue, owes>>

\* A participant that is not in the room any more still gets the track.
AddTrack(a, x) ==
  /\ tracks' = [tracks EXCEPT ![x.part] = @ \cup {session[a].part}]
  /\ UNCHANGED <<session, participants, queue, view, owes>>

AddSsrc_mut_zero(a, q) == IF Simulcast THEN -q ELSE session[a].part

\* simulcast_replace_video_ssrc has looked the publisher up by name once more.
AddSsrc(a, q) == IF Simulcast /\ q # 0 THEN -q ELSE session[a].part

AnnounceAdd(a, x) ==
  LET q == participants[x.room][x.user]
  IN  /\ broadcast(x.room, x.user, "add", {AddSsrc(a, q)})
      /\ UNCHANGED <<session, roomVars, view, owes>>

\* On the own ws_tx, behind the events that have come since.
QueueResync(a, x) ==
  /\ queue' = [queue EXCEPT ![a] = Append(@, Event("resync", x.ssrcs))]
  /\ UNCHANGED <<session, roomVars, view, owes>>

\* The session is in no room after that, even if it was in another one.
LeaveResponse(a, x) ==
  /\ broadcast(x.room, None, "remove", build_remove_tracks(x.part, TRUE))
  /\ session' = [session EXCEPT ![a].room = None, ![a].part = 0]
  /\ view' = [view EXCEPT ![a] = {}]
  /\ owes' = owes \ {a}
  /\ UNCHANGED roomVars

\* The reaper gives build_remove_tracks no virtual SSRC.
ReapResponse(x) ==
  /\ broadcast(x.room, None, "remove", build_remove_tracks(x.part, FALSE))
  /\ UNCHANGED <<session, roomVars, view, owes>>

AnnounceRemove(x) ==
  /\ broadcast(x.room, x.user, "remove", x.ssrcs)
  /\ UNCHANGED <<session, roomVars, view, owes>>

Remove(x) ==
  /\ participants' = [participants EXCEPT ![x.room][x.user] = 0]
  /\ UNCHANGED <<session, tracks, queue, view, owes>>

Do(a, op, x) ==
  \/ op = "join_response" /\ JoinResponse(a, x)
  \/ op = "leave_response" /\ LeaveResponse(a, x)
  \/ op = "reap_response" /\ ReapResponse(x)
  \/ op = "add_track" /\ AddTrack(a, x)
  \/ op = "announce_add" /\ AnnounceAdd(a, x)
  \/ op = "queue_resync" /\ QueueResync(a, x)
  \/ op = "announce_remove" /\ AnnounceRemove(x)
  \/ op = "remove" /\ Remove(x)
  \/ op = "collect" /\ UNCHANGED <<session, roomVars, queue, view, owes>>

\* What the handler keeps for its next step.
CtxAfter(op, x) ==
  LET p == participants[x.room][x.user] IN
  CASE op = "collect" -> [x EXCEPT !.ssrcs = collect_subscribe_tracks(x.room, x.user)]
    [] op = "remove" -> [x EXCEPT !.part = p]
    [] OTHER -> x

\* remove_participant finds nobody: the reaper is done with this name.
NotInRoom(op, x) == op = "remove" /\ participants[x.room][x.user] = 0

Step(a) ==
  /\ todo[a] # <<>>
  /\ LET op == Head(todo[a])
         rest == IF NotInRoom(op, ctx[a]) THEN <<>> ELSE Tail(todo[a])
     IN  /\ Do(a, op, ctx[a])
         /\ todo' = [todo EXCEPT ![a] = rest]
         /\ ctx' = [ctx EXCEPT ![a] = IF rest = <<>> THEN NoCtx ELSE CtxAfter(op, @)]
  /\ UNCHANGED <<joins, ws_tx>>

-----------------------------------------------------------------------------
(* The client takes the next event. TRACKS_UPDATE and TRACKS_RESYNC do not say
   which room they are of; in a room it acknowledges what it then has. *)

ViewAfter(v, e) ==
  CASE e.type = "add"    -> v \cup e.ssrcs
    [] e.type = "remove" -> v \ e.ssrcs
    [] e.type = "resync" -> e.ssrcs

Deliver(c) ==
  /\ Ready(c)
  /\ queue[c] # <<>>
  /\ view' = [view EXCEPT ![c] = ViewAfter(@, Head(queue[c]))]
  /\ owes' = IF InRoom(c) THEN owes \cup {c} ELSE owes
  /\ queue' = [queue EXCEPT ![c] = Tail(@)]
  /\ UNCHANGED <<sessionVars, roomVars, handlerVars>>

-----------------------------------------------------------------------------
Next ==
  \/ \E c \in Conns :
       \/ \E r \in Rooms : handle_room_join(c, r) \/ handle_room_leave(c, r)
       \/ handle_publish_tracks(c)
       \/ handle_tracks_ack(c)
       \/ handle_room_sync(c)
       \/ cleanup(c)
       \/ Deliver(c)
  \/ \E r \in Rooms, u \in Users : reap_zombies(r, u)
  \/ \E a \in Actors : Step(a)

\* Handlers run to their end; select! picks a ready branch at random, so both a
\* waiting event and a waiting request get their turn; clients acknowledge and
\* poll ROOM_SYNC.
Fairness ==
  /\ \A a \in Actors : WF_sigVars(Step(a))
  /\ \A c \in Conns : WF_sigVars(Deliver(c)) /\ WF_sigVars(handle_room_sync(c))

Spec == Init /\ [][Next]_sigVars /\ Fairness

-----------------------------------------------------------------------------
(* Properties *)

\* The state has its types.
TypeOK ==
  /\ session \in [Conns -> [open: BOOLEAN, room: Rooms \cup {None}, part: Parts \cup {0}]]
  /\ joins \in 0..MaxJoins
  /\ ws_tx \in [Parts -> Conns \cup {None}]
  /\ participants \in [Rooms -> [Users -> Parts \cup {0}]]
  /\ tracks \in [Parts -> SUBSET Parts]
  /\ todo \in [Actors -> Seq(Ops)]
  /\ ctx \in [Actors -> [room: Rooms \cup {None}, user: Users \cup {None},
                         part: Parts \cup {0}, ssrcs: SUBSET Ssrcs]]
  /\ queue \in [Conns -> Seq([type: {"add", "remove", "resync"}, ssrcs: SUBSET Ssrcs])]
  /\ view \in [Conns -> SUBSET Ssrcs]
  /\ owes \subseteq Conns

\* A client in its room that has taken every event and acknowledged the last
\* one, while no handler is under way.
CaughtUp(c) ==
  /\ \A a \in Actors : todo[a] = <<>>
  /\ session[c].open /\ InRoom(c)
  /\ Named(c) # 0 /\ ws_tx[Named(c)] = c
  /\ queue[c] = <<>> /\ c \notin owes

\* However joins, publishing, leaving, reaping and resyncs overlap, a client
\* that has caught up has exactly the SSRCs of the publishers that are there:
\* it misses no track, so it can take all the media it is sent, and waits for
\* no SSRC that a publisher does not send. It may have tracks of somebody who
\* is gone.
PresentTracksExact ==
  \A c \in Conns : CaughtUp(c) =>
    \A p \in Others(session[c].room, UserOf[c]) :
      view[c] \cap (tracks[p] \cup {-p}) = WireSsrcs(p)

\* Once no more joins and publications come, every client in a room ends up
\* with exactly the tracks of the room and stays so, whatever went astray
\* before: a cleanup that tells the others of the tracks and then removes the
\* participant while somebody joins, a track published for a participant that
\* has been reaped, events of another room. ROOM_SYNC is the safety net.
EverybodyAgrees ==
  <>[](\A c \in Conns : session[c].open /\ InRoom(c) => view[c] = Expected(c))
=============================================================================
