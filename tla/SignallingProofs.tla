-------------------------- MODULE SignallingProofs --------------------------
(***************************************************************************)
(* Proofs about Signalling, for any connections, users, rooms and          *)
(* participants, any number of handlers under way at the same time and     *)
(* queues of any length.                                                   *)
(***************************************************************************)
EXTENDS Signalling, SequenceTheorems, TLAPS

-----------------------------------------------------------------------------
(* The invariant *)

\* The Participants made so far, and the SSRCs there can be of them.
Made == 1..joins

Known == Made \cup {-p : p \in Made}

EventRec == [type: {"add", "remove", "resync"}, ssrcs: SUBSET Known]

\* The types, with every Participant and SSRC one that has been made.
Typed ==
  /\ session \in [Conns -> [open: BOOLEAN, room: Rooms \cup {None}, part: Made \cup {0}]]
  /\ joins \in 0..MaxJoins
  /\ ws_tx \in [Parts -> Conns \cup {None}]
  /\ participants \in [Rooms -> [Users -> Made \cup {0}]]
  /\ tracks \in [Parts -> SUBSET Made]
  /\ todo \in [Actors -> Seq(Ops)]
  /\ ctx \in [Actors -> [room: Rooms \cup {None}, user: Users \cup {None},
                         part: Made \cup {0}, ssrcs: SUBSET Known]]
  /\ queue \in [Conns -> Seq(EventRec)]
  /\ view \in [Conns -> SUBSET Known]
  /\ owes \subseteq Conns

\* What can be left of a handler.
Publishing == {<<"add_track", "announce_add">>, <<"announce_add">>}

Resyncing == {<<"collect", "queue_resync">>, <<"queue_resync">>}

ConnSteps ==
  Publishing \cup Resyncing \cup
  {<<>>, <<"join_response">>, <<"leave_response">>, <<"announce_remove", "remove">>, <<"remove">>}

ReaperSteps == {<<>>, <<"remove", "reap_response">>, <<"reap_response">>}

\* Every handler is at a step of its own, and has the room, the user and, for a
\* response about a participant that is gone, that participant.
Shaped ==
  /\ \A c \in Conns : todo[c] \in ConnSteps
  /\ todo[Reaper] \in ReaperSteps
  /\ \A a \in Actors : todo[a] # <<>> =>
       /\ ctx[a].room \in Rooms /\ ctx[a].user \in Users
       /\ todo[a] \in {<<"leave_response">>, <<"reap_response">>} => ctx[a].part # 0

\* A Participant is of the user whose connection made it, and in one place.
Homes ==
  /\ \A p \in Made : ws_tx[p] \in Conns
  /\ \A r \in Rooms, u \in Users :
       participants[r][u] # 0 => UserOf[ws_tx[participants[r][u]]] = u
  /\ \A r, s \in Rooms, u \in Users :
       participants[r][u] = participants[s][u] /\ participants[r][u] # 0 => r = s

\* So are its tracks: their SSRCs belong to Participants of the same user.
TracksOwned ==
  \A p \in Parts : \A s \in tracks[p] : p \in Made /\ UserOf[ws_tx[s]] = UserOf[ws_tx[p]]

SessionsOwned ==
  \A c \in Conns :
    /\ session[c].part # 0 => ws_tx[session[c].part] = c
    /\ session[c].room # None => session[c].part # 0

\* A handler that joins or publishes is about the room and user of its session,
\* and the Participant it publishes for is in no other place.
HandlersOwn ==
  \A c \in Conns :
    /\ todo[c] \in Publishing \cup {<<"join_response">>} =>
         session[c].room # None /\ ctx[c].room = session[c].room /\ ctx[c].user = UserOf[c]
    /\ todo[c] \in Publishing =>
         /\ ctx[c].part # 0 /\ UserOf[ws_tx[ctx[c].part]] = UserOf[c]
         /\ \A r \in Rooms : participants[r][UserOf[c]] = ctx[c].part => r = ctx[c].room

Owned == Homes /\ TracksOwned /\ SessionsOwned /\ HandlersOwn

\* c has the SSRCs of p, or a handler is about to announce them.
Right(c, p) == view[c] \cap (tracks[p] \cup {-p}) = WireSsrcs(p)

Announcing(p) == \E a \in Conns : todo[a] = <<"announce_add">> /\ ctx[a].part = p

\* c is not in its room, or something is on its way to c that it will
\* acknowledge, whereupon it is told of everything.
Awaits(c) ==
  \/ ~session[c].open \/ ~InRoom(c) \/ Named(c) = 0 \/ ws_tx[Named(c)] # c
  \/ queue[c] # <<>> \/ c \in owes
  \/ todo[c] \in Resyncing \cup {<<"join_response">>}

Peers(c) == Others(session[c].room, UserOf[c])

Heard ==
  \A c \in Conns : ~Awaits(c) => \A p \in Peers(c) : Right(c, p) \/ Announcing(p)

SigInv == Typed /\ Shaped /\ Owned /\ Heard

-----------------------------------------------------------------------------
(* What the invariant says in the end *)

\* The types of the module.
LEMMA TypedMeaning == Typed => TypeOK
<1> SUFFICES ASSUME Typed PROVE TypeOK
  OBVIOUS
<1>1. joins \in 0..MaxJoins /\ MaxJoins \in Nat
  BY SignallingAssumption DEF Typed
<1>2. Made \subseteq Parts
  BY <1>1 DEF Made, Parts
<1>3. Known \subseteq Ssrcs
  BY <1>2 DEF Known, Ssrcs
<1>4. session \in [Conns -> [open: BOOLEAN, room: Rooms \cup {None}, part: Parts \cup {0}]]
  BY <1>2 DEF Typed
<1>5. participants \in [Rooms -> [Users -> Parts \cup {0}]]
  BY <1>2 DEF Typed
<1>6. tracks \in [Parts -> SUBSET Parts]
  BY <1>2 DEF Typed
<1>7. ctx \in [Actors -> [room: Rooms \cup {None}, user: Users \cup {None},
                          part: Parts \cup {0}, ssrcs: SUBSET Ssrcs]]
  <2>1. [room: Rooms \cup {None}, user: Users \cup {None}, part: Made \cup {0}, ssrcs: SUBSET Known]
          \subseteq [room: Rooms \cup {None}, user: Users \cup {None},
                     part: Parts \cup {0}, ssrcs: SUBSET Ssrcs]
    BY <1>2, <1>3
  <2> QED
    BY <2>1 DEF Typed
<1>8. queue \in [Conns -> Seq([type: {"add", "remove", "resync"}, ssrcs: SUBSET Ssrcs])]
  <2>1. EventRec \subseteq [type: {"add", "remove", "resync"}, ssrcs: SUBSET Ssrcs]
    BY <1>3 DEF EventRec
  <2>2. Seq(EventRec) \subseteq Seq([type: {"add", "remove", "resync"}, ssrcs: SUBSET Ssrcs])
    BY <2>1, SeqMonotonic
  <2> QED
    BY <2>2 DEF Typed
<1>9. view \in [Conns -> SUBSET Ssrcs]
  BY <1>3 DEF Typed
<1> QED
  BY <1>4, <1>5, <1>6, <1>7, <1>8, <1>9 DEF Typed, TypeOK

\* Nothing is on its way, so every client has heard of everything.
LEMMA HeardMeaning == SigInv => PresentTracksExact
<1> SUFFICES ASSUME SigInv, NEW c \in Conns, CaughtUp(c),
                    NEW p \in Others(session[c].room, UserOf[c])
             PROVE  view[c] \cap (tracks[p] \cup {-p}) = WireSsrcs(p)
  BY DEF PresentTracksExact
<1>1. \A a \in Actors : todo[a] = <<>>
  BY DEF CaughtUp
<1>2. Conns \subseteq Actors
  BY DEF Actors
<1>3. <<>> \notin Resyncing \cup {<<"join_response">>, <<"announce_add">>}
  BY DEF Resyncing
<1>4. ~Awaits(c)
  BY <1>1, <1>2, <1>3 DEF CaughtUp, Awaits
<1>5. ~Announcing(p)
  BY <1>1, <1>2, <1>3 DEF Announcing
<1> QED
  BY <1>4, <1>5 DEF SigInv, Heard, Right, Peers

-----------------------------------------------------------------------------
(* What the handlers read *)

\* The others in a room are Participants that have been made.
LEMMA OthersMade ==
  ASSUME Typed, NEW r \in Rooms, NEW u
  PROVE  Others(r, u) \subseteq Made
BY DEF Typed, Others

\* SSRCs that are listed or announced are known ones.
LEMMA WireKnown ==
  ASSUME Typed, NEW p \in Made
  PROVE  /\ WireSsrcs(p) \subseteq Known /\ tracks[p] \subseteq Known
         /\ \A has_vssrc \in BOOLEAN : build_remove_tracks(p, has_vssrc) \subseteq Known
<1>1. p \in Parts
  BY SignallingAssumption DEF Typed, Made, Parts
<1>2. tracks[p] \subseteq Made /\ -p \in Known /\ Made \subseteq Known
  BY <1>1 DEF Typed, Known
<1> QED
  BY <1>2 DEF WireSsrcs, build_remove_tracks

\* So is what ROOM_JOIN, ROOM_SYNC and TRACKS_RESYNC list.
LEMMA CollectKnown ==
  ASSUME Typed, NEW r \in Rooms, NEW u
  PROVE  collect_subscribe_tracks(r, u) \subseteq Known
BY OthersMade, WireKnown DEF collect_subscribe_tracks

\* What a broadcast puts on the queues.
LEMMA BroadcastQueues ==
  ASSUME Typed, NEW r, NEW exclude, NEW type \in {"add", "remove"}, NEW ssrcs \in SUBSET Known,
         broadcast(r, exclude, type, ssrcs)
  PROVE  /\ queue' \in [Conns -> Seq(EventRec)]
         /\ \A c \in Conns : queue'[c] = <<>> => queue[c] = <<>>
         /\ \A c \in Conns :
              (ssrcs # {} /\ session[c].open /\ \E p \in Others(r, exclude) : ws_tx[p] = c)
                => queue'[c] # <<>>
<1> DEFINE e == Event(type, ssrcs)
<1>1. e \in EventRec
  BY DEF Event, EventRec
<1> HIDE DEF e
<1>2. ASSUME NEW c \in Conns
      PROVE  Append(queue[c], e) \in Seq(EventRec) /\ Append(queue[c], e) # <<>>
  <2>1. queue[c] \in Seq(EventRec)
    BY DEF Typed
  <2> QED
    BY <1>1, <2>1, AppendProperties
<1>3. /\ queue' = [c \in Conns |-> IF /\ ssrcs # {}
                                      /\ c \in {ws_tx[p] : p \in Others(r, exclude)}
                                      /\ session[c].open
                                   THEN Append(queue[c], e) ELSE queue[c]]
  BY DEF broadcast, e
<1>4. queue' \in [Conns -> Seq(EventRec)]
  BY <1>2, <1>3 DEF Typed
<1>5. \A c \in Conns : queue'[c] = <<>> => queue[c] = <<>>
  BY <1>2, <1>3
<1>6. \A c \in Conns :
        (ssrcs # {} /\ session[c].open /\ \E p \in Others(r, exclude) : ws_tx[p] = c)
          => queue'[c] # <<>>
  BY <1>2, <1>3
<1> QED
  BY <1>4, <1>5, <1>6

\* A client that has what collect_subscribe_tracks lists has for each publisher
\* exactly what it sends.
ListExact ==
  \A r \in Rooms, u \in Users : \A p \in Others(r, u) :
    collect_subscribe_tracks(r, u) \cap (tracks[p] \cup {-p}) = WireSsrcs(p)

\* It does, since the SSRCs of two Participants in a room do not overlap.
LEMMA ListIsExact == Typed /\ Homes /\ TracksOwned => ListExact
<1> SUFFICES ASSUME Typed, Homes, TracksOwned,
                    NEW r \in Rooms, NEW u \in Users, NEW p \in Others(r, u)
             PROVE  collect_subscribe_tracks(r, u) \cap (tracks[p] \cup {-p}) = WireSsrcs(p)
  BY DEF ListExact
<1>1. p \in Made
  BY OthersMade
<1>2. ASSUME NEW q \in Others(r, u), q # p, NEW s \in WireSsrcs(q)
      PROVE  s \notin tracks[p] \cup {-p}
  <2>1. q \in Made
    BY OthersMade
  <2>2. PICK v \in Users, w \in Users : p = participants[r][v] /\ q = participants[r][w]
    BY DEF Others
  <2>3. p # 0 /\ q # 0 /\ v # w
    BY <1>2, <2>2 DEF Others
  <2>4. UserOf[ws_tx[p]] # UserOf[ws_tx[q]]
    BY <2>2, <2>3 DEF Homes
  <2>5. joins \in Nat /\ p \in Nat /\ q \in Nat /\ p > 0 /\ q > 0
    BY <1>1, <2>1, SignallingAssumption DEF Typed, Made
  <2>6. p \in Parts /\ q \in Parts
    BY <1>1, <2>1, SignallingAssumption DEF Typed, Made, Parts
  <2>7. tracks[p] \subseteq Made /\ tracks[q] \subseteq Made
    BY <2>6 DEF Typed
  <2>8. CASE s \in tracks[q]
    <3>1. s \notin tracks[p]
      BY <2>4, <2>6, <2>8 DEF TracksOwned
    <3>2. s # -p
      <4>1. s \in Made
        BY <2>7, <2>8
      <4> QED
        BY <2>5, <4>1 DEF Made
    <3> QED
      BY <3>1, <3>2
  <2>9. CASE s = -q
    <3>1. s # -p
      BY <1>2, <2>5, <2>9
    <3>2. s \notin Made
      BY <2>5, <2>9 DEF Made
    <3> QED
      BY <2>7, <3>1, <3>2
  <2> QED
    BY <1>2, <2>8, <2>9 DEF WireSsrcs
<1>3. WireSsrcs(p) \subseteq tracks[p] \cup {-p}
  BY DEF WireSsrcs
<1>4. WireSsrcs(p) \subseteq collect_subscribe_tracks(r, u)
  BY DEF collect_subscribe_tracks
<1>5. ASSUME NEW s \in collect_subscribe_tracks(r, u), s \in tracks[p] \cup {-p}
      PROVE  s \in WireSsrcs(p)
  <2>1. PICK q \in Others(r, u) : s \in WireSsrcs(q)
    BY DEF collect_subscribe_tracks
  <2> QED
    BY <1>2, <1>5, <2>1
<1> QED
  BY <1>3, <1>4, <1>5

\* A client that has just been sent the list.
Told(c) == session[c].room \in Rooms /\ view[c] = Expected(c)

ToldRight == \A c \in Conns : Told(c) => \A p \in Peers(c) : Right(c, p)

\* It is right about everybody.
LEMMA ToldIsRight == Typed /\ Homes /\ TracksOwned => ToldRight
<1> SUFFICES ASSUME Typed, Homes, TracksOwned, NEW c \in Conns, Told(c), NEW p \in Peers(c)
             PROVE  Right(c, p)
  BY DEF ToldRight
<1>1. UserOf[c] \in Users /\ session[c].room \in Rooms
  BY SignallingAssumption DEF Told
<1>2. ListExact
  BY ListIsExact
<1>3. p \in Others(session[c].room, UserOf[c])
  BY DEF Peers
<1>4. collect_subscribe_tracks(session[c].room, UserOf[c]) \cap (tracks[p] \cup {-p}) = WireSsrcs(p)
  BY <1>1, <1>2, <1>3 DEF ListExact
<1> QED
  BY <1>4 DEF Told, Expected, Right

-----------------------------------------------------------------------------
(* A step of one handler, and what it may do to the rest *)

CtxRec == [room: Rooms \cup {None}, user: Users \cup {None}, part: Made \cup {0}, ssrcs: SUBSET Known]

\* The handler of a is then at `steps' with the variables x.
Moves(a, steps, x) ==
  todo' = [todo EXCEPT ![a] = steps] /\ ctx' = [ctx EXCEPT ![a] = x]

\* Sequences of one or two.
LEMMA ShortSequences ==
  ASSUME NEW S
  PROVE  /\ <<>> \in Seq(S)
         /\ \A s \in S : <<s>> \in Seq(S)
         /\ \A s, t \in S : <<s, t>> \in Seq(S)
OBVIOUS

\* The sequences of steps, told apart.
LEMMA StepsDiffer ==
  /\ \A q \in ConnSteps \cup ReaperSteps : q \in Seq(Ops)
  /\ <<>> \notin Publishing \cup Resyncing \cup {<<"join_response">>}
  /\ \A q \in Resyncing \cup
        {<<"leave_response">>, <<"announce_remove", "remove">>, <<"remove">>,
         <<"remove", "reap_response">>, <<"reap_response">>} :
       q \notin Publishing \cup {<<"join_response">>}
<1>1. \A s, t \in Ops : <<s>> \in Seq(Ops) /\ <<s, t>> \in Seq(Ops)
  BY ShortSequences
<1>2. \A q \in ConnSteps \cup ReaperSteps : q \in Seq(Ops)
  <2>1. /\ "add_track" \in Ops /\ "announce_add" \in Ops /\ "collect" \in Ops
        /\ "queue_resync" \in Ops /\ "join_response" \in Ops /\ "leave_response" \in Ops
        /\ "announce_remove" \in Ops /\ "remove" \in Ops /\ "reap_response" \in Ops
    BY DEF Ops
  <2>2. /\ <<"add_track", "announce_add">> \in Seq(Ops) /\ <<"announce_add">> \in Seq(Ops)
        /\ <<"collect", "queue_resync">> \in Seq(Ops) /\ <<"queue_resync">> \in Seq(Ops)
        /\ <<"join_response">> \in Seq(Ops) /\ <<"leave_response">> \in Seq(Ops)
        /\ <<"announce_remove", "remove">> \in Seq(Ops) /\ <<"remove">> \in Seq(Ops)
        /\ <<"remove", "reap_response">> \in Seq(Ops) /\ <<"reap_response">> \in Seq(Ops)
    BY <1>1, <2>1, Zenon
  <2> QED
    BY <2>2, ShortSequences, Zenon DEF ConnSteps, ReaperSteps, Publishing, Resyncing
<1>3. <<>> \notin Publishing \cup Resyncing \cup {<<"join_response">>}
  BY DEF Publishing, Resyncing
<1>4. \A q \in Resyncing \cup
        {<<"leave_response">>, <<"announce_remove", "remove">>, <<"remove">>,
         <<"remove", "reap_response">>, <<"reap_response">>} :
       q \notin Publishing \cup {<<"join_response">>}
  BY DEF Publishing, Resyncing
<1> QED
  BY <1>2, <1>3, <1>4

\* No other handler is moved.
LEMMA MovesAlone ==
  ASSUME Typed, NEW a \in Actors, NEW steps, NEW x, Moves(a, steps, x)
  PROVE  /\ todo'[a] = steps /\ ctx'[a] = x
         /\ \A b \in Actors \ {a} : todo'[b] = todo[b] /\ ctx'[b] = ctx[b]
BY DEF Typed, Moves

\* A handler that comes to a step of its own with what it needs there.
LEMMA KeepHandlers ==
  ASSUME Typed, Shaped, NEW a \in Actors, NEW steps, NEW x, Moves(a, steps, x),
         NEW X, CtxRec \subseteq X, x \in X,
         a \in Conns => steps \in ConnSteps,
         a = Reaper => steps \in ReaperSteps,
         steps # <<>> =>
           /\ x.room \in Rooms /\ x.user \in Users
           /\ steps \in {<<"leave_response">>, <<"reap_response">>} => x.part # 0
  PROVE  /\ todo' \in [Actors -> Seq(Ops)] /\ ctx' \in [Actors -> X]
         /\ Shaped'
<1>1. a \in Conns \/ a = Reaper
  BY DEF Actors
<1>2. steps \in Seq(Ops)
  BY <1>1, StepsDiffer
<1>3. todo' \in [Actors -> Seq(Ops)] /\ ctx' \in [Actors -> X]
  BY <1>2 DEF Typed, Moves, CtxRec
<1>4. /\ todo'[a] = steps /\ ctx'[a] = x
      /\ \A b \in Actors \ {a} : todo'[b] = todo[b] /\ ctx'[b] = ctx[b]
  BY MovesAlone
<1>5. Shaped'
  <2>1. ASSUME NEW c \in Conns PROVE todo'[c] \in ConnSteps
    BY <1>4 DEF Shaped, Actors
  <2>2. todo'[Reaper] \in ReaperSteps
    BY <1>4 DEF Shaped, Actors
  <2>3. ASSUME NEW b \in Actors, todo'[b] # <<>>
        PROVE  /\ ctx'[b].room \in Rooms /\ ctx'[b].user \in Users
               /\ todo'[b] \in {<<"leave_response">>, <<"reap_response">>} => ctx'[b].part # 0
    <3>1. CASE b = a
      BY <1>4, <2>3, <3>1
    <3>2. CASE b # a
      BY <1>4, <2>3, <3>2 DEF Shaped
    <3> QED
      BY <3>1, <3>2
  <2> QED
    BY <2>1, <2>2, <2>3 DEF Shaped
<1> QED
  BY <1>3, <1>5

\* Participants are only taken out, and a session is only closed or left.
LEMMA KeepOwned ==
  ASSUME Typed, Owned, NEW a \in Actors, NEW steps, NEW x, Moves(a, steps, x),
         UNCHANGED <<joins, ws_tx, tracks>>,
         \A r \in Rooms, u \in Users : participants'[r][u] \in {participants[r][u], 0},
         \A c \in Conns : \/ session'[c] = session[c]
                          \/ c = a /\ session'[c].room = None /\ session'[c].part = 0,
         steps \in Publishing \cup {<<"join_response">>} /\ a \in Conns =>
           /\ session'[a] = session[a] /\ session[a].room # None
           /\ x.room = session[a].room /\ x.user = UserOf[a],
         steps \in Publishing /\ a \in Conns =>
           /\ x.part # 0 /\ UserOf[ws_tx[x.part]] = UserOf[a]
           /\ \A r \in Rooms : participants[r][UserOf[a]] = x.part => r = x.room
  PROVE  Owned'
<1>1. /\ todo'[a] = steps /\ ctx'[a] = x
      /\ \A b \in Actors \ {a} : todo'[b] = todo[b] /\ ctx'[b] = ctx[b]
  BY MovesAlone
<1>2. joins' = joins /\ ws_tx' = ws_tx /\ tracks' = tracks /\ Made' = Made
  BY DEF Made
<1>3. Homes'
  <2>1. ASSUME NEW r \in Rooms, NEW u \in Users, participants'[r][u] # 0
        PROVE  participants'[r][u] = participants[r][u]
    BY <2>1
  <2>2. \A p \in Made' : ws_tx'[p] \in Conns
    BY <1>2 DEF Owned, Homes
  <2>3. ASSUME NEW r \in Rooms, NEW u \in Users, participants'[r][u] # 0
        PROVE  UserOf[ws_tx'[participants'[r][u]]] = u
    BY <1>2, <2>1, <2>3 DEF Owned, Homes
  <2>4. ASSUME NEW r \in Rooms, NEW s \in Rooms, NEW u \in Users,
               participants'[r][u] = participants'[s][u], participants'[r][u] # 0
        PROVE  r = s
    BY <2>1, <2>4 DEF Owned, Homes
  <2> QED
    BY <2>2, <2>3, <2>4 DEF Homes
<1>4. TracksOwned'
  BY <1>2 DEF Owned, TracksOwned
<1>5. SessionsOwned'
  <2>1. ASSUME NEW c \in Conns
        PROVE  /\ session'[c].part # 0 => ws_tx'[session'[c].part] = c
               /\ session'[c].room # None => session'[c].part # 0
    <3>1. CASE session'[c] = session[c]
      BY <1>2, <3>1 DEF Owned, SessionsOwned
    <3>2. CASE session'[c].room = None /\ session'[c].part = 0
      BY <3>2
    <3> QED
      BY <3>1, <3>2
  <2> QED
    BY <2>1 DEF SessionsOwned
<1>6. HandlersOwn'
  <2>1. ASSUME NEW c \in Conns
        PROVE  /\ todo'[c] \in Publishing \cup {<<"join_response">>} =>
                    /\ session'[c].room # None
                    /\ ctx'[c].room = session'[c].room /\ ctx'[c].user = UserOf[c]
               /\ todo'[c] \in Publishing =>
                    /\ ctx'[c].part # 0 /\ UserOf[ws_tx'[ctx'[c].part]] = UserOf[c]
                    /\ \A r \in Rooms : participants'[r][UserOf[c]] = ctx'[c].part => r = ctx'[c].room
    <3>0. c \in Actors /\ UserOf[c] \in Users
      BY SignallingAssumption DEF Actors
    <3>1. CASE c = a
      BY <1>1, <1>2, <3>0, <3>1
    <3>2. CASE c # a
      BY <1>1, <1>2, <3>0, <3>2 DEF Owned, HandlersOwn
    <3> QED
      BY <3>1, <3>2
  <2> QED
    BY <2>1 DEF HandlersOwn
<1> QED
  BY <1>3, <1>4, <1>5, <1>6 DEF Owned

\* Nothing that c has, or that was on its way to c, is gone.
Undisturbed(c) ==
  /\ session'[c] = session[c] /\ view'[c] = view[c]
  /\ queue'[c] = <<>> => queue[c] = <<>>
  /\ c \in owes => c \in owes'
  /\ todo[c] \in Resyncing \cup {<<"join_response">>}
       => todo'[c] \in Resyncing \cup {<<"join_response">>}

\* Each client still awaits something, has just been told everything, or has
\* seen nothing of it.
LEMMA KeepHeard ==
  ASSUME Typed, Owned, Heard, Typed', Owned',
         NEW a \in Actors, NEW steps, NEW x, Moves(a, steps, x),
         UNCHANGED <<joins, ws_tx, tracks>>,
         \A r \in Rooms, u \in Users : participants'[r][u] \in {participants[r][u], 0},
         a \in Conns => todo[a] # <<"announce_add">>,
         \A c \in Conns : Awaits(c)' \/ Told(c)' \/ Undisturbed(c)
  PROVE  Heard'
<1>1. /\ todo'[a] = steps /\ ctx'[a] = x
      /\ \A b \in Actors \ {a} : todo'[b] = todo[b] /\ ctx'[b] = ctx[b]
  BY MovesAlone
<1>2. joins' = joins /\ ws_tx' = ws_tx /\ tracks' = tracks
  OBVIOUS
<1>3. ASSUME NEW c \in Conns, ~Awaits(c)', NEW p \in Peers(c)'
      PROVE  Right(c, p)' \/ Announcing(p)'
  <2>0. UserOf[c] \in Users
    BY SignallingAssumption
  <2>1. /\ session'[c].open /\ session'[c].room # None
        /\ participants'[session'[c].room][UserOf[c]] # 0
        /\ ws_tx'[participants'[session'[c].room][UserOf[c]]] = c
        /\ queue'[c] = <<>> /\ c \notin owes'
        /\ todo'[c] \notin Resyncing \cup {<<"join_response">>}
    BY <1>3 DEF Awaits, InRoom, Named
  <2>2. session'[c].room \in Rooms
    BY <2>1 DEF Typed
  <2>3. CASE Told(c)'
    <3>1. Homes' /\ TracksOwned'
      BY DEF Owned
    <3>2. ToldRight'
      BY <3>1, ToldIsRight, PTL
    <3> QED
      BY <1>3, <2>3, <3>2 DEF ToldRight
  <2>4. CASE Undisturbed(c)
    <3>0. /\ session'[c] = session[c] /\ view'[c] = view[c]
          /\ queue[c] = <<>> /\ c \notin owes
          /\ todo[c] \notin Resyncing \cup {<<"join_response">>}
      BY <2>1, <2>4 DEF Undisturbed
    <3>1. ~Awaits(c)
      BY <1>2, <2>0, <2>1, <2>2, <3>0 DEF Awaits, InRoom, Named
    <3>2. p \in Peers(c)
      BY <1>3, <2>0, <2>2, <3>0 DEF Peers, Others
    <3>3. Right(c, p) \/ Announcing(p)
      BY <3>1, <3>2 DEF Heard
    <3>4. Right(c, p) => Right(c, p)'
      BY <1>2, <3>0 DEF Right, WireSsrcs
    <3>5. Announcing(p) => Announcing(p)'
      BY <1>1 DEF Announcing, Actors
    <3> QED
      BY <3>3, <3>4, <3>5
  <2> QED
    BY <1>3, <2>3, <2>4
<1> QED
  BY <1>3 DEF Heard

-----------------------------------------------------------------------------
(* The steps that make no Participant, give it no track and announce none *)

SessionRec == [open: BOOLEAN, room: Rooms \cup {None}, part: Made \cup {0}]

\* The handler of a goes on; what of its step the invariant is about.
LEMMA StepKeeps ==
  ASSUME SigInv, NEW a \in Actors, NEW steps, NEW x, Moves(a, steps, x),
         x \in CtxRec,
         a \in Conns => steps \in ConnSteps /\ todo[a] # <<"announce_add">>,
         a = Reaper => steps \in ReaperSteps,
         steps # <<>> =>
           /\ x.room \in Rooms /\ x.user \in Users
           /\ steps \in {<<"leave_response">>, <<"reap_response">>} => x.part # 0,
         UNCHANGED <<joins, ws_tx, tracks>>,
         participants' \in [Rooms -> [Users -> Made \cup {0}]],
         \A r \in Rooms, u \in Users : participants'[r][u] \in {participants[r][u], 0},
         session' \in [Conns -> SessionRec],
         \A c \in Conns : \/ session'[c] = session[c]
                          \/ c = a /\ session'[c].room = None /\ session'[c].part = 0,
         steps \in Publishing \cup {<<"join_response">>} /\ a \in Conns =>
           /\ session'[a] = session[a] /\ session[a].room # None
           /\ x.room = session[a].room /\ x.user = UserOf[a],
         steps \in Publishing /\ a \in Conns =>
           /\ x.part # 0 /\ UserOf[ws_tx[x.part]] = UserOf[a]
           /\ \A r \in Rooms : participants[r][UserOf[a]] = x.part => r = x.room,
         queue' \in [Conns -> Seq(EventRec)], view' \in [Conns -> SUBSET Known],
         owes' \subseteq Conns,
         \A c \in Conns : Awaits(c)' \/ Told(c)' \/ Undisturbed(c)
  PROVE  SigInv'
<1>1. Typed /\ Shaped /\ Owned /\ Heard
  BY DEF SigInv
<1>2. todo' \in [Actors -> Seq(Ops)] /\ ctx' \in [Actors -> CtxRec] /\ Shaped'
  BY <1>1, KeepHandlers
<1>3. Owned'
  BY <1>1, KeepOwned
<1>4. Made' = Made /\ Known' = Known /\ EventRec' = EventRec
  BY DEF Made, Known, EventRec
<1>5. Typed'
  BY <1>1, <1>2, <1>4 DEF Typed, CtxRec, SessionRec
<1>6. Heard'
  BY <1>1, <1>3, <1>5, KeepHeard
<1> QED
  BY <1>2, <1>3, <1>5, <1>6 DEF SigInv

\* An actor whose handler does nothing.
LEMMA Stays ==
  ASSUME Typed, NEW a \in Actors, UNCHANGED handlerVars
  PROVE  Moves(a, todo[a], ctx[a]) /\ ctx[a] \in CtxRec
BY DEF Typed, CtxRec, Moves, handlerVars

\* A request starts a handler.
LEMMA Begins ==
  ASSUME NEW a \in Actors, NEW r, NEW u, NEW p, NEW ssrcs, NEW steps,
         Begin(a, r, u, p, ssrcs, steps)
  PROVE  Moves(a, steps, [room |-> r, user |-> u, part |-> p, ssrcs |-> ssrcs])
BY DEF Begin, Moves

\* ROOM_LEAVE.
LEMMA LeaveKeeps ==
  ASSUME SigInv, NEW c \in Conns, NEW r \in Rooms, handle_room_leave(c, r)
  PROVE  SigInv'
<1> DEFINE p == participants[r][UserOf[c]]
           x == [room |-> r, user |-> UserOf[c], part |-> p, ssrcs |-> {}]
<1>1. Typed /\ c \in Actors /\ c # Reaper /\ UserOf[c] \in Users
  BY SignallingAssumption DEF SigInv, Actors
<1>2. Moves(c, <<"leave_response">>, x)
  BY <1>1, Begins DEF handle_room_leave
<1>3. /\ p # 0 /\ todo[c] = <<>>
      /\ participants' = [participants EXCEPT ![r][UserOf[c]] = 0]
      /\ UNCHANGED <<session, joins, ws_tx, tracks, queue, view, owes>>
  BY DEF handle_room_leave, sessionVars, Ready
<1>4. x \in CtxRec /\ x.room \in Rooms /\ x.user \in Users /\ x.part # 0
  BY <1>1, <1>3 DEF Typed, CtxRec
<1>5. participants' \in [Rooms -> [Users -> Made \cup {0}]]
  BY <1>1, <1>3 DEF Typed
<1>6. \A s \in Rooms, u \in Users : participants'[s][u] \in {participants[s][u], 0}
  BY <1>1, <1>3 DEF Typed
<1> HIDE DEF x, p
<1>7. \A d \in Conns : Undisturbed(d)
  BY <1>1, <1>2, <1>3, MovesAlone, StepsDiffer DEF Undisturbed, Actors
<1>8. /\ session' \in [Conns -> SessionRec] /\ queue' \in [Conns -> Seq(EventRec)]
      /\ view' \in [Conns -> SUBSET Known] /\ owes' \subseteq Conns
  BY <1>1, <1>3 DEF Typed, SessionRec
<1>9. /\ <<"leave_response">> \in ConnSteps /\ todo[c] # <<"announce_add">>
      /\ <<"leave_response">> \notin Publishing \cup {<<"join_response">>}
  BY <1>3, StepsDiffer DEF ConnSteps
<1> QED
  BY <1>1, <1>2, <1>3, <1>4, <1>5, <1>6, <1>7, <1>8, <1>9, StepKeeps


\* PUBLISH_TRACKS is for the Participant that has the name of the session.
LEMMA PublishKeeps ==
  ASSUME SigInv, NEW c \in Conns, handle_publish_tracks(c)
  PROVE  SigInv'
<1> DEFINE p == Named(c)
           x == [room |-> session[c].room, user |-> UserOf[c], part |-> p, ssrcs |-> {}]
<1>1. Typed /\ Owned /\ c \in Actors /\ c # Reaper /\ UserOf[c] \in Users
  BY SignallingAssumption DEF SigInv, Actors
<1>2. Moves(c, PublishSteps, x)
  BY <1>1, Begins DEF handle_publish_tracks, BeginHere
<1>3. /\ p # 0 /\ todo[c] = <<>> /\ session[c].room # None
      /\ UNCHANGED <<session, joins, ws_tx, participants, tracks, queue, view, owes>>
  BY DEF handle_publish_tracks, sessionVars, roomVars, Ready, InRoom
<1>4. session[c].room \in Rooms
  BY <1>1, <1>3 DEF Typed
<1>5. x \in CtxRec /\ x.room = session[c].room /\ x.user = UserOf[c] /\ x.part # 0
  BY <1>1, <1>3, <1>4 DEF Typed, CtxRec, Named
<1>6. /\ UserOf[ws_tx[x.part]] = UserOf[c]
      /\ \A r \in Rooms : participants[r][UserOf[c]] = x.part => r = x.room
  BY <1>1, <1>3, <1>4 DEF Owned, Homes, Named
<1> HIDE DEF x, p
<1>7. PublishSteps \in Publishing /\ PublishSteps \in ConnSteps /\ todo[c] # <<"announce_add">>
  BY <1>3 DEF PublishSteps, Publishing, ConnSteps
<1>8. PublishSteps \notin {<<"leave_response">>, <<"reap_response">>}
  BY DEF PublishSteps
<1>9. \A d \in Conns : Undisturbed(d)
  BY <1>1, <1>2, <1>3, MovesAlone, StepsDiffer DEF Undisturbed, Actors
<1>10. /\ session' \in [Conns -> SessionRec] /\ queue' \in [Conns -> Seq(EventRec)]
       /\ view' \in [Conns -> SUBSET Known] /\ owes' \subseteq Conns
       /\ participants' \in [Rooms -> [Users -> Made \cup {0}]]
  BY <1>1, <1>3 DEF Typed, SessionRec
<1> QED
  BY <1>1, <1>2, <1>3, <1>4, <1>5, <1>6, <1>7, <1>8, <1>9, <1>10, StepKeeps

\* TRACKS_ACK: the client has the expected tracks, or is to be told.
LEMMA AckKeeps ==
  ASSUME SigInv, NEW c \in Conns, handle_tracks_ack(c)
  PROVE  SigInv'
<1> DEFINE x == [room |-> session[c].room, user |-> UserOf[c], part |-> 0, ssrcs |-> {}]
<1>1. Typed /\ c \in Actors /\ c # Reaper /\ UserOf[c] \in Users
  BY SignallingAssumption DEF SigInv, Actors
<1>2. /\ todo[c] = <<>> /\ session[c].room # None /\ owes' = owes \ {c}
      /\ UNCHANGED <<session, joins, ws_tx, participants, tracks, queue, view>>
  BY DEF handle_tracks_ack, sessionVars, roomVars, Ready, InRoom
<1>3. session[c].room \in Rooms
  BY <1>1, <1>2 DEF Typed
<1>4. /\ session' \in [Conns -> SessionRec] /\ queue' \in [Conns -> Seq(EventRec)]
      /\ view' \in [Conns -> SUBSET Known] /\ owes' \subseteq Conns
      /\ participants' \in [Rooms -> [Users -> Made \cup {0}]]
  BY <1>1, <1>2 DEF Typed, SessionRec
<1>5. todo[c] # <<"announce_add">> /\ <<>> \in ConnSteps
  BY <1>2 DEF ConnSteps
<1>6. CASE view[c] = Expected(c) /\ UNCHANGED handlerVars
  <2>1. Moves(c, todo[c], ctx[c]) /\ ctx[c] \in CtxRec
    BY <1>1, <1>6, Stays
  <2>2. Told(c)'
    BY <1>2, <1>3, <1>6 DEF Told, Expected, collect_subscribe_tracks, Others, WireSsrcs
  <2>3. \A d \in Conns : d # c => Undisturbed(d)
    BY <1>2, <1>6 DEF Undisturbed, handlerVars
  <2>4. todo[c] \notin Publishing \cup {<<"join_response">>}
    BY <1>2, StepsDiffer
  <2> QED
    BY <1>1, <1>2, <1>4, <1>5, <2>1, <2>2, <2>3, <2>4, StepKeeps
<1>7. CASE BeginHere(c, 0, <<"collect", "queue_resync">>)
  <2>1. Moves(c, <<"collect", "queue_resync">>, x)
    BY <1>1, <1>7, Begins DEF BeginHere
  <2>2. x \in CtxRec /\ x.room \in Rooms /\ x.user \in Users
    BY <1>1, <1>3 DEF CtxRec
  <2> HIDE DEF x
  <2>3. <<"collect", "queue_resync">> \in Resyncing
    BY DEF Resyncing
  <2>4. Awaits(c)'
    BY <1>1, <2>1, <2>3, MovesAlone DEF Awaits
  <2>5. \A d \in Conns : d # c => Undisturbed(d)
    BY <1>1, <1>2, <2>1, MovesAlone DEF Undisturbed, Actors
  <2>6. /\ <<"collect", "queue_resync">> \in ConnSteps
        /\ <<"collect", "queue_resync">> \notin Publishing \cup {<<"join_response">>}
        /\ <<"collect", "queue_resync">> \notin {<<"leave_response">>, <<"reap_response">>}
    BY <2>3, StepsDiffer DEF ConnSteps
  <2> QED
    BY <1>1, <1>2, <1>4, <1>5, <2>1, <2>2, <2>4, <2>5, <2>6, StepKeeps
<1> QED
  BY <1>6, <1>7 DEF handle_tracks_ack

\* ROOM_SYNC tells the client of everything.
LEMMA SyncKeeps ==
  ASSUME SigInv, NEW c \in Conns, handle_room_sync(c)
  PROVE  SigInv'
<1>1. Typed /\ c \in Actors /\ c # Reaper /\ UserOf[c] \in Users
  BY SignallingAssumption DEF SigInv, Actors
<1>2. /\ todo[c] = <<>> /\ session[c].room # None
      /\ view' = [view EXCEPT ![c] = Expected(c)]
      /\ UNCHANGED <<session, joins, ws_tx, participants, tracks, queue, owes>>
      /\ UNCHANGED handlerVars
  BY DEF handle_room_sync, sessionVars, roomVars, Ready, InRoom, Listed
<1>3. session[c].room \in Rooms
  BY <1>1, <1>2 DEF Typed
<1>4. Expected(c) \subseteq Known
  BY <1>1, <1>3, CollectKnown DEF Expected
<1>5. /\ session' \in [Conns -> SessionRec] /\ queue' \in [Conns -> Seq(EventRec)]
      /\ view' \in [Conns -> SUBSET Known] /\ owes' \subseteq Conns
      /\ participants' \in [Rooms -> [Users -> Made \cup {0}]]
  BY <1>1, <1>2, <1>4 DEF Typed, SessionRec
<1>6. Moves(c, todo[c], ctx[c]) /\ ctx[c] \in CtxRec
  BY <1>1, <1>2, Stays
<1>7. view'[c] = Expected(c) /\ \A d \in Conns : d # c => view'[d] = view[d]
  BY <1>1, <1>2 DEF Typed
<1>8. Told(c)'
  <2>1. Expected(c)' = Expected(c)
    BY <1>2 DEF Expected, collect_subscribe_tracks, Others, WireSsrcs
  <2> QED
    BY <1>2, <1>3, <1>7, <2>1 DEF Told
<1>9. \A d \in Conns : d # c => Undisturbed(d)
  BY <1>2, <1>7 DEF Undisturbed, handlerVars
<1>10. /\ todo[c] # <<"announce_add">> /\ <<>> \in ConnSteps
       /\ todo[c] \notin Publishing \cup {<<"join_response">>}
  BY <1>2, StepsDiffer DEF ConnSteps
<1> QED
  BY <1>1, <1>2, <1>5, <1>6, <1>8, <1>9, <1>10, StepKeeps

\* The connection of c has ended.
LEMMA CleanupKeeps ==
  ASSUME SigInv, NEW c \in Conns, cleanup(c)
  PROVE  SigInv'
<1> DEFINE gone == IF Named(c) = 0 THEN {} ELSE build_remove_tracks(Named(c), TRUE)
           x == [room |-> session[c].room, user |-> UserOf[c], part |-> 0, ssrcs |-> gone]
<1>1. Typed /\ c \in Actors /\ c # Reaper /\ UserOf[c] \in Users
  BY SignallingAssumption DEF SigInv, Actors
<1>2. /\ todo[c] = <<>>
      /\ session' = [session EXCEPT ![c] = [open |-> FALSE, room |-> None, part |-> 0]]
      /\ queue' = [queue EXCEPT ![c] = <<>>]
      /\ view' = [view EXCEPT ![c] = {}]
      /\ owes' = owes \ {c}
      /\ UNCHANGED <<joins, ws_tx, participants, tracks>>
  BY DEF cleanup, roomVars, Ready
<1>3. /\ session' \in [Conns -> SessionRec] /\ queue' \in [Conns -> Seq(EventRec)]
      /\ view' \in [Conns -> SUBSET Known] /\ owes' \subseteq Conns
      /\ participants' \in [Rooms -> [Users -> Made \cup {0}]]
  BY <1>1, <1>2, ShortSequences DEF Typed, SessionRec
<1>4. /\ ~session'[c].open /\ session'[c].room = None /\ session'[c].part = 0
      /\ \A d \in Conns : d # c =>
           session'[d] = session[d] /\ queue'[d] = queue[d] /\ view'[d] = view[d]
  BY <1>1, <1>2 DEF Typed
<1>5. Awaits(c)'
  BY <1>4 DEF Awaits
<1>6. /\ \A s \in Rooms, u \in Users : participants'[s][u] \in {participants[s][u], 0}
      /\ \A d \in Conns :
           \/ session'[d] = session[d]
           \/ d = c /\ session'[d].room = None /\ session'[d].part = 0
  BY <1>2, <1>4
<1>7. /\ todo[c] # <<"announce_add">> /\ <<>> \in ConnSteps
      /\ todo[c] \notin Publishing \cup {<<"join_response">>}
  BY <1>2, StepsDiffer DEF ConnSteps
<1>8. CASE UNCHANGED handlerVars
  <2>1. Moves(c, todo[c], ctx[c]) /\ ctx[c] \in CtxRec
    BY <1>1, <1>8, Stays
  <2>2. \A d \in Conns : d # c => Undisturbed(d)
    BY <1>2, <1>4, <1>8 DEF Undisturbed, handlerVars
  <2>3. \A d \in Conns : Awaits(d)' \/ Told(d)' \/ Undisturbed(d)
    BY <1>5, <2>2
  <2>4. todo[c] = <<>> /\ UNCHANGED <<joins, ws_tx, tracks>>
    BY <1>2
  <2> QED
    BY <1>1, <1>3, <1>6, <1>7, <2>1, <2>3, <2>4, StepKeeps
<1>9. CASE /\ session[c].room # None
           /\ Begin(c, session[c].room, UserOf[c], 0, gone, <<"announce_remove", "remove">>)
  <2>1. Moves(c, <<"announce_remove", "remove">>, x)
    BY <1>1, <1>9, Begins
  <2>2. session[c].room \in Rooms
    BY <1>1, <1>9 DEF Typed
  <2>3. gone \subseteq Known
    <3>1. Named(c) \in Made \cup {0}
      BY <1>1, <2>2 DEF Typed, Named
    <3> QED
      BY <1>1, <3>1, WireKnown
  <2> HIDE DEF gone
  <2>4. x \in CtxRec /\ x.room \in Rooms /\ x.user \in Users
    BY <1>1, <2>2, <2>3 DEF CtxRec
  <2> HIDE DEF x
  <2>5. \A d \in Conns : d # c => Undisturbed(d)
    BY <1>1, <1>2, <1>4, <2>1, MovesAlone DEF Undisturbed, Actors
  <2>6. /\ <<"announce_remove", "remove">> \in ConnSteps
        /\ <<"announce_remove", "remove">> \notin Publishing \cup {<<"join_response">>}
        /\ <<"announce_remove", "remove">> \notin {<<"leave_response">>, <<"reap_response">>}
    BY StepsDiffer DEF ConnSteps
  <2>7. \A d \in Conns : Awaits(d)' \/ Told(d)' \/ Undisturbed(d)
    BY <1>5, <2>5
  <2> QED
    BY <1>1, <1>2, <1>3, <1>7, <1>6, <2>1, <2>4, <2>6, <2>7, StepKeeps
<1> QED
  BY <1>8, <1>9 DEF cleanup, InRoom

\* The reaper has found a zombie.
LEMMA ReapKeeps ==
  ASSUME SigInv, NEW r \in Rooms, NEW u \in Users, reap_zombies(r, u)
  PROVE  SigInv'
<1> DEFINE x == [room |-> r, user |-> u, part |-> 0, ssrcs |-> {}]
<1>1. Typed /\ Reaper \in Actors /\ Reaper \notin Conns
  BY SignallingAssumption DEF SigInv, Actors
<1>2. Moves(Reaper, <<"remove", "reap_response">>, x)
  BY <1>1, Begins DEF reap_zombies
<1>3. UNCHANGED <<session, joins, ws_tx, participants, tracks, queue, view, owes>>
  BY DEF reap_zombies, sessionVars, roomVars
<1>4. x \in CtxRec /\ x.room \in Rooms /\ x.user \in Users
  BY DEF CtxRec
<1> HIDE DEF x
<1>5. \A d \in Conns : Undisturbed(d)
  BY <1>1, <1>2, <1>3, MovesAlone DEF Undisturbed, Actors
<1>6. /\ session' \in [Conns -> SessionRec] /\ queue' \in [Conns -> Seq(EventRec)]
      /\ view' \in [Conns -> SUBSET Known] /\ owes' \subseteq Conns
      /\ participants' \in [Rooms -> [Users -> Made \cup {0}]]
  BY <1>1, <1>3 DEF Typed, SessionRec
<1>7. /\ <<"remove", "reap_response">> \in ReaperSteps
      /\ <<"remove", "reap_response">> \notin {<<"leave_response">>, <<"reap_response">>}
  BY DEF ReaperSteps
<1> QED
  BY <1>1, <1>2, <1>3, <1>4, <1>5, <1>6, <1>7, StepKeeps

\* The client takes an event, and in a room it is then to acknowledge it.
LEMMA DeliverKeeps ==
  ASSUME SigInv, NEW c \in Conns, Deliver(c)
  PROVE  SigInv'
<1>1. Typed /\ c \in Actors /\ c # Reaper
  BY SignallingAssumption DEF SigInv, Actors
<1>2. /\ todo[c] = <<>> /\ queue[c] # <<>>
      /\ view' = [view EXCEPT ![c] = ViewAfter(@, Head(queue[c]))]
      /\ owes' = IF InRoom(c) THEN owes \cup {c} ELSE owes
      /\ queue' = [queue EXCEPT ![c] = Tail(@)]
      /\ UNCHANGED <<session, joins, ws_tx, participants, tracks>>
      /\ UNCHANGED handlerVars
  BY DEF Deliver, sessionVars, roomVars, Ready
<1>3. Head(queue[c]) \in EventRec /\ Tail(queue[c]) \in Seq(EventRec)
  BY <1>1, <1>2, HeadTailProperties DEF Typed
<1>4. ViewAfter(view[c], Head(queue[c])) \subseteq Known
  BY <1>1, <1>3 DEF Typed, EventRec, ViewAfter
<1>5. /\ session' \in [Conns -> SessionRec] /\ queue' \in [Conns -> Seq(EventRec)]
      /\ view' \in [Conns -> SUBSET Known] /\ owes' \subseteq Conns
      /\ participants' \in [Rooms -> [Users -> Made \cup {0}]]
  BY <1>1, <1>2, <1>3, <1>4 DEF Typed, SessionRec
<1>6. Moves(c, todo[c], ctx[c]) /\ ctx[c] \in CtxRec
  BY <1>1, <1>2, Stays
<1>7. Awaits(c)'
  BY <1>2 DEF Awaits, InRoom
<1>8. \A d \in Conns : d # c => queue'[d] = queue[d] /\ view'[d] = view[d]
  BY <1>1, <1>2 DEF Typed
<1>9. \A d \in Conns : d # c => Undisturbed(d)
  BY <1>2, <1>8 DEF Undisturbed, handlerVars
<1>10. /\ todo[c] # <<"announce_add">> /\ <<>> \in ConnSteps
       /\ todo[c] \notin Publishing \cup {<<"join_response">>}
  BY <1>2, StepsDiffer DEF ConnSteps
<1> QED
  BY <1>1, <1>2, <1>5, <1>6, <1>7, <1>9, <1>10, StepKeeps

-----------------------------------------------------------------------------
(* The steps of the handlers that are no different *)

\* The last step of a handler, after which it has no variables.
LEMMA LastStep ==
  ASSUME NEW a \in Actors, NEW op, Step(a), todo[a] = <<op>>
  PROVE  /\ Do(a, op, ctx[a]) /\ Moves(a, <<>>, NoCtx)
         /\ UNCHANGED <<joins, ws_tx>>
<1>1. Head(todo[a]) = op /\ Tail(todo[a]) = <<>>
  OBVIOUS
<1>2. (IF NotInRoom(op, ctx[a]) THEN <<>> ELSE Tail(todo[a])) = <<>>
  BY <1>1
<1> QED
  BY <1>1, <1>2 DEF Step, Moves

\* The first of two.
LEMMA FirstStep ==
  ASSUME NEW a \in Actors, NEW op, NEW next, Step(a), todo[a] = <<op, next>>
  PROVE  /\ Do(a, op, ctx[a])
         /\ NotInRoom(op, ctx[a]) => Moves(a, <<>>, NoCtx)
         /\ ~NotInRoom(op, ctx[a]) => Moves(a, <<next>>, CtxAfter(op, ctx[a]))
         /\ UNCHANGED <<joins, ws_tx>>
<1>1. Head(todo[a]) = op /\ Tail(todo[a]) = <<next>> /\ <<next>> # <<>>
  OBVIOUS
<1>2. CASE NotInRoom(op, ctx[a])
  BY <1>1, <1>2 DEF Step, Moves
<1>3. CASE ~NotInRoom(op, ctx[a])
  <2>1. ctx' = [ctx EXCEPT ![a] = CtxAfter(op, @)] /\ todo' = [todo EXCEPT ![a] = <<next>>]
    BY <1>1, <1>3 DEF Step
  <2> QED
    BY <1>1, <1>3, <2>1 DEF Step, Moves
<1> QED
  BY <1>2, <1>3

\* A handler that is done asks for nothing.
LEMMA NothingLeft ==
  /\ NoCtx \in CtxRec
  /\ <<>> \in ConnSteps /\ <<>> \in ReaperSteps
  /\ <<>> \notin Publishing \cup {<<"join_response">>}
BY StepsDiffer DEF NoCtx, CtxRec, ConnSteps, ReaperSteps

\* What is left to an actor tells whose step it is.
LEMMA WhoseStep ==
  ASSUME Shaped, NEW a \in Actors, todo[a] # <<>>
  PROVE  /\ ctx[a].room \in Rooms /\ ctx[a].user \in Users
         /\ todo[a] \in {<<"leave_response">>, <<"reap_response">>} => ctx[a].part # 0
         /\ todo[a] \in ReaperSteps \/ a \in Conns
         /\ todo[a] \in {<<"reap_response">>, <<"remove", "reap_response">>} => a = Reaper
BY DEF Shaped, Actors, ConnSteps, ReaperSteps, Publishing, Resyncing

\* The response to ROOM_JOIN tells the client of everything.
LEMMA JoinResponseKeeps ==
  ASSUME SigInv, NEW a \in Actors, Step(a), todo[a] = <<"join_response">>
  PROVE  SigInv'
<1>1. /\ Typed /\ Shaped /\ Owned
      /\ Do(a, "join_response", ctx[a]) /\ Moves(a, <<>>, NoCtx) /\ UNCHANGED <<joins, ws_tx>>
  BY LastStep DEF SigInv
<1>2. a \in Conns /\ a # Reaper /\ UserOf[a] \in Users
  BY <1>1, WhoseStep, SignallingAssumption DEF ReaperSteps
<1>3. /\ view' = [view EXCEPT ![a] = collect_subscribe_tracks(ctx[a].room, ctx[a].user)]
      /\ UNCHANGED <<session, participants, tracks, queue, owes>>
  BY <1>1 DEF Do, JoinResponse, roomVars
<1>4. /\ session[a].room \in Rooms
      /\ ctx[a].room = session[a].room /\ ctx[a].user = UserOf[a]
  BY <1>1, <1>2 DEF Owned, HandlersOwn, Typed
<1>5. view' = [view EXCEPT ![a] = Expected(a)]
  BY <1>3, <1>4 DEF Expected
<1>6. Expected(a) \subseteq Known
  BY <1>1, <1>4, CollectKnown DEF Expected
<1>7. view'[a] = Expected(a) /\ \A d \in Conns : d # a => view'[d] = view[d]
  BY <1>1, <1>2, <1>5 DEF Typed
<1>8. Told(a)'
  <2>1. Expected(a)' = Expected(a)
    BY <1>3 DEF Expected, collect_subscribe_tracks, Others, WireSsrcs
  <2> QED
    BY <1>3, <1>4, <1>7, <2>1 DEF Told
<1>9. \A d \in Conns : d # a => Undisturbed(d)
  BY <1>1, <1>3, <1>7, MovesAlone DEF Undisturbed, Actors
<1>10. \A d \in Conns : Awaits(d)' \/ Told(d)' \/ Undisturbed(d)
  BY <1>8, <1>9
<1>11. /\ session' \in [Conns -> SessionRec] /\ queue' \in [Conns -> Seq(EventRec)]
       /\ view' \in [Conns -> SUBSET Known] /\ owes' \subseteq Conns
       /\ participants' \in [Rooms -> [Users -> Made \cup {0}]]
  BY <1>1, <1>3, <1>5, <1>6 DEF Typed, SessionRec
<1>12. todo[a] # <<"announce_add">>
  OBVIOUS
<1> QED
  BY <1>1, <1>2, <1>3, <1>10, <1>11, <1>12, NothingLeft, StepKeeps

\* The response to ROOM_LEAVE.
LEMMA LeaveResponseKeeps ==
  ASSUME SigInv, NEW a \in Actors, Step(a), todo[a] = <<"leave_response">>
  PROVE  SigInv'
<1> DEFINE gone == build_remove_tracks(ctx[a].part, TRUE)
<1>1. /\ Typed /\ Shaped
      /\ Do(a, "leave_response", ctx[a]) /\ Moves(a, <<>>, NoCtx) /\ UNCHANGED <<joins, ws_tx>>
  BY LastStep DEF SigInv
<1>2. a \in Conns /\ a # Reaper /\ ctx[a].part # 0
  <2>1. todo[a] \notin ReaperSteps /\ todo[a] # <<>>
    BY DEF ReaperSteps
  <2> QED
    BY <1>1, <2>1, WhoseStep, SignallingAssumption
<1>3. /\ broadcast(ctx[a].room, None, "remove", gone)
      /\ session' = [session EXCEPT ![a].room = None, ![a].part = 0]
      /\ view' = [view EXCEPT ![a] = {}]
      /\ owes' = owes \ {a}
      /\ UNCHANGED <<participants, tracks>>
  BY <1>1 DEF Do, LeaveResponse, roomVars
<1>4. gone \in SUBSET Known
  <2>1. ctx[a].part \in Made
    BY <1>1, <1>2 DEF Typed
  <2> QED
    BY <1>1, <2>1, WireKnown
<1> HIDE DEF gone
<1>5. queue' \in [Conns -> Seq(EventRec)] /\ \A d \in Conns : queue'[d] = <<>> => queue[d] = <<>>
  BY <1>1, <1>3, <1>4, BroadcastQueues
<1>6. /\ session' \in [Conns -> SessionRec]
      /\ view' \in [Conns -> SUBSET Known] /\ owes' \subseteq Conns
      /\ participants' \in [Rooms -> [Users -> Made \cup {0}]]
  <2>1. session \in [Conns -> SessionRec] /\ view \in [Conns -> SUBSET Known]
    BY <1>1 DEF Typed, SessionRec
  <2>2. session[a] \in SessionRec /\ [session[a] EXCEPT !.room = None, !.part = 0] \in SessionRec
    BY <1>2, <2>1 DEF SessionRec
  <2>3. session' = [session EXCEPT ![a] = [session[a] EXCEPT !.room = None, !.part = 0]]
    BY <1>3
  <2>4. session' \in [Conns -> SessionRec]
    BY <2>1, <2>2, <2>3
  <2>5. view' \in [Conns -> SUBSET Known]
    BY <1>3, <2>1
  <2>6. owes' \subseteq Conns /\ participants' \in [Rooms -> [Users -> Made \cup {0}]]
    BY <1>1, <1>3 DEF Typed
  <2> QED
    BY <2>4, <2>5, <2>6
<1>7. /\ session'[a].room = None /\ session'[a].part = 0
      /\ \A d \in Conns : d # a => session'[d] = session[d] /\ view'[d] = view[d]
  BY <1>1, <1>2, <1>3 DEF Typed
<1>8. Awaits(a)'
  BY <1>7 DEF Awaits, InRoom
<1>9. \A d \in Conns : d # a => Undisturbed(d)
  <2>1. \A d \in Conns : d # a => todo'[d] = todo[d]
    BY <1>1, MovesAlone DEF Actors
  <2>2. \A d \in Conns : d # a /\ d \in owes => d \in owes'
    BY <1>3
  <2> QED
    BY <1>5, <1>7, <2>1, <2>2 DEF Undisturbed
<1>10. \A d \in Conns : Awaits(d)' \/ Told(d)' \/ Undisturbed(d)
  BY <1>8, <1>9
<1>11. /\ \A s \in Rooms, u \in Users : participants'[s][u] \in {participants[s][u], 0}
       /\ \A d \in Conns :
            \/ session'[d] = session[d]
            \/ d = a /\ session'[d].room = None /\ session'[d].part = 0
  BY <1>3, <1>7
<1>12. tracks' = tracks /\ todo[a] # <<"announce_add">>
  BY <1>3
<1> QED
  BY <1>1, <1>2, <1>5, <1>6, <1>10, <1>11, <1>12, NothingLeft, StepKeeps

\* A client whose list is collected stays in wait of it.
LEMMA CollectKeeps ==
  ASSUME SigInv, NEW a \in Actors, Step(a), todo[a] = <<"collect", "queue_resync">>
  PROVE  SigInv'
<1> DEFINE x == CtxAfter("collect", ctx[a])
<1>1. /\ Typed /\ Shaped
      /\ Do(a, "collect", ctx[a]) /\ Moves(a, <<"queue_resync">>, x) /\ UNCHANGED <<joins, ws_tx>>
  BY FirstStep DEF SigInv, NotInRoom
<1>2. a \in Conns /\ a # Reaper /\ ctx[a].room \in Rooms /\ ctx[a].user \in Users
  <2>1. todo[a] \notin ReaperSteps /\ todo[a] # <<>>
    BY DEF ReaperSteps
  <2> QED
    BY <1>1, <2>1, WhoseStep, SignallingAssumption
<1>3. UNCHANGED <<session, participants, tracks, queue, view, owes>>
  BY <1>1 DEF Do, roomVars
<1>4. x = [ctx[a] EXCEPT !.ssrcs = collect_subscribe_tracks(ctx[a].room, ctx[a].user)]
  BY DEF CtxAfter
<1>5. x \in CtxRec /\ x.room = ctx[a].room /\ x.user = ctx[a].user
  <2>1. collect_subscribe_tracks(ctx[a].room, ctx[a].user) \subseteq Known
    BY <1>1, <1>2, CollectKnown
  <2>2. ctx[a] \in CtxRec
    BY <1>1 DEF Typed, CtxRec
  <2> QED
    BY <1>4, <2>1, <2>2 DEF CtxRec
<1> HIDE DEF x
<1>6. /\ session' \in [Conns -> SessionRec] /\ queue' \in [Conns -> Seq(EventRec)]
      /\ view' \in [Conns -> SUBSET Known] /\ owes' \subseteq Conns
      /\ participants' \in [Rooms -> [Users -> Made \cup {0}]]
  BY <1>1, <1>3 DEF Typed, SessionRec
<1>7. <<"queue_resync">> \in Resyncing
  BY DEF Resyncing
<1>8. \A d \in Conns : Undisturbed(d)
  BY <1>1, <1>3, <1>7, MovesAlone DEF Undisturbed, Actors
<1>9. /\ <<"queue_resync">> \in ConnSteps /\ todo[a] # <<"announce_add">>
      /\ <<"queue_resync">> \notin Publishing \cup {<<"join_response">>}
      /\ <<"queue_resync">> \notin {<<"leave_response">>, <<"reap_response">>}
  BY <1>7, StepsDiffer DEF ConnSteps
<1> QED
  BY <1>1, <1>2, <1>3, <1>5, <1>6, <1>8, <1>9, StepKeeps

\* Its list is then on its queue.
LEMMA ResyncKeeps ==
  ASSUME SigInv, NEW a \in Actors, Step(a), todo[a] = <<"queue_resync">>
  PROVE  SigInv'
<1> DEFINE e == Event("resync", ctx[a].ssrcs)
<1>1. /\ Typed /\ Shaped
      /\ Do(a, "queue_resync", ctx[a]) /\ Moves(a, <<>>, NoCtx) /\ UNCHANGED <<joins, ws_tx>>
  BY LastStep DEF SigInv
<1>2. a \in Conns /\ a # Reaper
  <2>1. todo[a] \notin ReaperSteps /\ todo[a] # <<>>
    BY DEF ReaperSteps
  <2> QED
    BY <1>1, <2>1, WhoseStep, SignallingAssumption
<1>3. /\ queue' = [queue EXCEPT ![a] = Append(@, e)]
      /\ UNCHANGED <<session, participants, tracks, view, owes>>
  BY <1>1 DEF Do, QueueResync, roomVars
<1>4. e \in EventRec
  BY <1>1 DEF Typed, Event, EventRec
<1> HIDE DEF e
<1>5. Append(queue[a], e) \in Seq(EventRec) /\ Append(queue[a], e) # <<>>
  <2>1. queue[a] \in Seq(EventRec)
    BY <1>1, <1>2 DEF Typed
  <2> QED
    BY <1>4, <2>1, AppendProperties
<1>6. /\ queue'[a] # <<>>
      /\ \A d \in Conns : d # a => queue'[d] = queue[d]
  BY <1>1, <1>2, <1>3, <1>5 DEF Typed
<1>7. /\ session' \in [Conns -> SessionRec] /\ queue' \in [Conns -> Seq(EventRec)]
      /\ view' \in [Conns -> SUBSET Known] /\ owes' \subseteq Conns
      /\ participants' \in [Rooms -> [Users -> Made \cup {0}]]
  BY <1>1, <1>3, <1>5 DEF Typed, SessionRec
<1>8. Awaits(a)'
  BY <1>6 DEF Awaits
<1>9. \A d \in Conns : d # a => Undisturbed(d)
  BY <1>1, <1>3, <1>6, MovesAlone DEF Undisturbed, Actors
<1>10. \A d \in Conns : Awaits(d)' \/ Told(d)' \/ Undisturbed(d)
  BY <1>8, <1>9
<1>11. todo[a] # <<"announce_add">>
  OBVIOUS
<1> QED
  BY <1>1, <1>2, <1>3, <1>7, <1>10, <1>11, NothingLeft, StepKeeps

\* The others are told that somebody's tracks are gone.
LEMMA AnnounceRemoveKeeps ==
  ASSUME SigInv, NEW a \in Actors, Step(a), todo[a] = <<"announce_remove", "remove">>
  PROVE  SigInv'
<1> DEFINE x == ctx[a]
<1>1. /\ Typed /\ Shaped
      /\ Do(a, "announce_remove", x) /\ Moves(a, <<"remove">>, x) /\ UNCHANGED <<joins, ws_tx>>
  BY FirstStep DEF SigInv, NotInRoom, CtxAfter
<1>2. a \in Conns /\ a # Reaper /\ x.room \in Rooms /\ x.user \in Users
  <2>1. todo[a] \notin ReaperSteps /\ todo[a] # <<>>
    BY DEF ReaperSteps
  <2> QED
    BY <1>1, <2>1, WhoseStep, SignallingAssumption
<1>3. /\ broadcast(x.room, x.user, "remove", x.ssrcs)
      /\ UNCHANGED <<session, participants, tracks, view, owes>>
  BY <1>1 DEF Do, AnnounceRemove, roomVars
<1>4. x \in CtxRec /\ x.ssrcs \in SUBSET Known
  BY <1>1 DEF Typed, CtxRec
<1> HIDE DEF x
<1>5. queue' \in [Conns -> Seq(EventRec)] /\ \A d \in Conns : queue'[d] = <<>> => queue[d] = <<>>
  BY <1>1, <1>3, <1>4, BroadcastQueues
<1>6. /\ session' \in [Conns -> SessionRec]
      /\ view' \in [Conns -> SUBSET Known] /\ owes' \subseteq Conns
      /\ participants' \in [Rooms -> [Users -> Made \cup {0}]]
  BY <1>1, <1>3 DEF Typed, SessionRec
<1>7. todo[a] \notin Resyncing \cup {<<"join_response">>}
  BY DEF Resyncing
<1>8. \A d \in Conns : Undisturbed(d)
  <2>1. \A b \in Actors \ {a} : todo'[b] = todo[b]
    BY <1>1, MovesAlone
  <2>2. ASSUME NEW d \in Conns, todo[d] \in Resyncing \cup {<<"join_response">>}
        PROVE  todo'[d] = todo[d]
    BY <1>7, <2>1, <2>2 DEF Actors
  <2> QED
    BY <1>3, <1>5, <2>2 DEF Undisturbed
<1>9. /\ <<"remove">> \in ConnSteps /\ todo[a] # <<"announce_add">>
      /\ <<"remove">> \notin Publishing \cup {<<"join_response">>}
      /\ <<"remove">> \notin {<<"leave_response">>, <<"reap_response">>}
  BY StepsDiffer DEF ConnSteps
<1> QED
  BY <1>1, <1>2, <1>3, <1>4, <1>5, <1>6, <1>8, <1>9, StepKeeps

\* Whoever goes by the name is taken out, by a connection that has ended or by
\* the reaper.
LEMMA RemoveKeeps ==
  ASSUME SigInv, NEW a \in Actors, Step(a),
         todo[a] \in {<<"remove">>, <<"remove", "reap_response">>}
  PROVE  SigInv'
<1> DEFINE r == ctx[a].room
           u == ctx[a].user
           p == participants[r][u]
<1>1. Typed /\ Shaped
  BY DEF SigInv
<1>2. todo[a] # <<>> /\ todo[a] # <<"announce_add">> /\ todo[a] \notin Resyncing \cup {<<"join_response">>}
  BY DEF Resyncing
<1>3. r \in Rooms /\ u \in Users
  BY <1>1, <1>2, WhoseStep
<1>4. Do(a, "remove", ctx[a]) /\ UNCHANGED <<joins, ws_tx>>
  BY FirstStep, LastStep
<1>5. /\ participants' = [participants EXCEPT ![r][u] = 0]
      /\ UNCHANGED <<session, tracks, queue, view, owes>>
  BY <1>4 DEF Do, Remove
<1>6. /\ participants' \in [Rooms -> [Users -> Made \cup {0}]]
      /\ session' \in [Conns -> SessionRec] /\ queue' \in [Conns -> Seq(EventRec)]
      /\ view' \in [Conns -> SUBSET Known] /\ owes' \subseteq Conns
  BY <1>1, <1>3, <1>5 DEF Typed, SessionRec
<1>7. \A s \in Rooms, v \in Users : participants'[s][v] \in {participants[s][v], 0}
  BY <1>1, <1>3, <1>5 DEF Typed
<1>8. ASSUME NEW steps, NEW x, Moves(a, steps, x) PROVE \A d \in Conns : Undisturbed(d)
  BY <1>1, <1>2, <1>5, <1>8, MovesAlone DEF Undisturbed, Actors
<1>9. CASE Moves(a, <<>>, NoCtx)
  BY <1>1, <1>2, <1>4, <1>5, <1>6, <1>7, <1>8, <1>9, NothingLeft, StepKeeps
<1>10. CASE /\ todo[a] = <<"remove", "reap_response">>
            /\ p # 0 /\ Moves(a, <<"reap_response">>, [ctx[a] EXCEPT !.part = p])
  <2> DEFINE x == [ctx[a] EXCEPT !.part = p]
  <2>1. a = Reaper /\ a \notin Conns
    BY <1>1, <1>2, <1>10, WhoseStep, SignallingAssumption
  <2>2. x \in CtxRec /\ x.room \in Rooms /\ x.user \in Users /\ x.part # 0
    <3>1. p \in Made \cup {0}
      BY <1>1, <1>3 DEF Typed
    <3>2. ctx[a] \in CtxRec
      BY <1>1 DEF Typed, CtxRec
    <3> HIDE DEF p
    <3> QED
      BY <1>3, <1>10, <3>1, <3>2 DEF CtxRec
  <2>3. Moves(a, <<"reap_response">>, x)
    BY <1>10
  <2> HIDE DEF x, p
  <2>4. <<"reap_response">> \in ReaperSteps
    BY DEF ReaperSteps
  <2> QED
    BY <1>1, <1>2, <1>4, <1>5, <1>6, <1>7, <1>8, <2>1, <2>2, <2>3, <2>4, StepKeeps
<1>11. CASE todo[a] = <<"remove">>
  BY <1>9, <1>11, LastStep
<1>12. CASE todo[a] = <<"remove", "reap_response">>
  <2>1. CASE p = 0
    BY <1>9, <1>12, <2>1, FirstStep DEF NotInRoom
  <2>2. CASE p # 0
    <3>1. CtxAfter("remove", ctx[a]) = [ctx[a] EXCEPT !.part = p]
      BY DEF CtxAfter
    <3> QED
      BY <1>10, <1>12, <2>2, <3>1, FirstStep DEF NotInRoom
  <2> QED
    BY <2>1, <2>2
<1> QED
  BY <1>11, <1>12

\* The others are told of it.
LEMMA ReapResponseKeeps ==
  ASSUME SigInv, NEW a \in Actors, Step(a), todo[a] = <<"reap_response">>
  PROVE  SigInv'
<1> DEFINE gone == build_remove_tracks(ctx[a].part, FALSE)
<1>1. /\ Typed /\ Shaped
      /\ Do(a, "reap_response", ctx[a]) /\ Moves(a, <<>>, NoCtx) /\ UNCHANGED <<joins, ws_tx>>
  BY LastStep DEF SigInv
<1>2. a = Reaper /\ a \notin Conns /\ ctx[a].part # 0
  <2>1. todo[a] # <<>>
    OBVIOUS
  <2>2. /\ todo[a] \in {<<"leave_response">>, <<"reap_response">>}
        /\ todo[a] \in {<<"reap_response">>, <<"remove", "reap_response">>}
    OBVIOUS
  <2> QED
    BY <1>1, <2>1, <2>2, WhoseStep, SignallingAssumption
<1>3. /\ broadcast(ctx[a].room, None, "remove", gone)
      /\ UNCHANGED <<session, participants, tracks, view, owes>>
  BY <1>1 DEF Do, ReapResponse, roomVars
<1>4. gone \in SUBSET Known
  <2>1. ctx[a].part \in Made
    BY <1>1, <1>2 DEF Typed
  <2> QED
    BY <1>1, <2>1, WireKnown
<1> HIDE DEF gone
<1>5. queue' \in [Conns -> Seq(EventRec)] /\ \A d \in Conns : queue'[d] = <<>> => queue[d] = <<>>
  BY <1>1, <1>3, <1>4, BroadcastQueues
<1>6. /\ session' \in [Conns -> SessionRec]
      /\ view' \in [Conns -> SUBSET Known] /\ owes' \subseteq Conns
      /\ participants' \in [Rooms -> [Users -> Made \cup {0}]]
  BY <1>1, <1>3 DEF Typed, SessionRec
<1>7. \A d \in Conns : Undisturbed(d)
  BY <1>1, <1>2, <1>3, <1>5, MovesAlone DEF Undisturbed, Actors
<1> QED
  BY <1>1, <1>2, <1>3, <1>5, <1>6, <1>7, NothingLeft, StepKeeps

-----------------------------------------------------------------------------
(* A track is added, and then announced *)

\* Whoever cannot know of a track that is added waits for the announcement.
LEMMA AddTrackKeeps ==
  ASSUME SigInv, NEW a \in Actors, Step(a), todo[a] = <<"add_track", "announce_add">>
  PROVE  SigInv'
<1> DEFINE x == ctx[a]
           p == ctx[a].part
           s == session[a].part
<1>1. /\ Typed /\ Shaped /\ Owned /\ Heard
      /\ Do(a, "add_track", x) /\ Moves(a, <<"announce_add">>, x) /\ UNCHANGED <<joins, ws_tx>>
  BY FirstStep DEF SigInv, NotInRoom, CtxAfter
<1>2. a \in Conns /\ a # Reaper /\ x.room \in Rooms /\ x.user \in Users
  <2>1. todo[a] \notin ReaperSteps /\ todo[a] # <<>>
    BY DEF ReaperSteps
  <2> QED
    BY <1>1, <2>1, WhoseStep, SignallingAssumption
<1>3. /\ tracks' = [tracks EXCEPT ![p] = @ \cup {s}]
      /\ UNCHANGED <<session, participants, queue, view, owes>>
  BY <1>1 DEF Do, AddTrack
<1>4. /\ todo[a] \in Publishing /\ <<"announce_add">> \in Publishing
      /\ <<"announce_add">> \in ConnSteps
      /\ <<"announce_add">> \notin {<<"leave_response">>, <<"reap_response">>}
  BY DEF Publishing, ConnSteps
<1>5. /\ p # 0 /\ UserOf[ws_tx[p]] = UserOf[a]
      /\ s # 0 /\ ws_tx[s] = a
      /\ session[a].room # None /\ x.room = session[a].room /\ x.user = UserOf[a]
      /\ \A r \in Rooms : participants[r][UserOf[a]] = p => r = x.room
  BY <1>1, <1>2, <1>4 DEF Owned, HandlersOwn, SessionsOwned
<1>6. p \in Made /\ s \in Made
  BY <1>1, <1>2, <1>5 DEF Typed
<1>7. p \in Parts
  BY <1>1, <1>6, SignallingAssumption DEF Typed, Made, Parts
<1>8. x \in CtxRec
  BY <1>1 DEF Typed, CtxRec
<1>9. /\ tracks' \in [Parts -> SUBSET Made]
      /\ tracks'[p] = tracks[p] \cup {s}
      /\ \A q \in Parts : q # p => tracks'[q] = tracks[q]
  BY <1>1, <1>3, <1>6, <1>7 DEF Typed
<1>10. todo' \in [Actors -> Seq(Ops)] /\ ctx' \in [Actors -> CtxRec] /\ Shaped'
  BY <1>1, <1>2, <1>4, <1>8, KeepHandlers
<1>11. /\ todo'[a] = <<"announce_add">> /\ ctx'[a] = x
       /\ \A b \in Actors \ {a} : todo'[b] = todo[b] /\ ctx'[b] = ctx[b]
  BY <1>1, MovesAlone
<1>12. Made' = Made /\ Known' = Known /\ EventRec' = EventRec
  BY <1>1 DEF Made, Known, EventRec
<1>13. Typed'
  BY <1>1, <1>3, <1>9, <1>10, <1>12 DEF Typed, CtxRec
<1>14. Owned'
  <2>1. Homes' /\ SessionsOwned'
    BY <1>1, <1>3, <1>12 DEF Owned, Homes, SessionsOwned
  <2>2. TracksOwned'
    BY <1>1, <1>5, <1>6, <1>9, <1>12 DEF Owned, TracksOwned
  <2>3. HandlersOwn'
    <3>1. ASSUME NEW c \in Conns
          PROVE  /\ todo'[c] \in Publishing \cup {<<"join_response">>} =>
                      /\ session'[c].room # None
                      /\ ctx'[c].room = session'[c].room /\ ctx'[c].user = UserOf[c]
                 /\ todo'[c] \in Publishing =>
                      /\ ctx'[c].part # 0 /\ UserOf[ws_tx'[ctx'[c].part]] = UserOf[c]
                      /\ \A r \in Rooms : participants'[r][UserOf[c]] = ctx'[c].part => r = ctx'[c].room
      <4>1. CASE c = a
        BY <1>1, <1>3, <1>5, <1>11, <4>1
      <4>2. CASE c # a
        <5>1. todo'[c] = todo[c] /\ ctx'[c] = ctx[c]
          BY <1>11, <4>2 DEF Actors
        <5> QED
          BY <1>1, <1>3, <5>1 DEF Owned, HandlersOwn
      <4> QED
        BY <4>1, <4>2
    <3> QED
      BY <3>1 DEF HandlersOwn
  <2> QED
    BY <2>1, <2>2, <2>3 DEF Owned
<1>15. Heard'
  <2>1. ASSUME NEW c \in Conns, ~Awaits(c)', NEW q \in Peers(c)'
        PROVE  Right(c, q)' \/ Announcing(q)'
    <3>1. todo[c] \in Resyncing \cup {<<"join_response">>}
            => todo'[c] \in Resyncing \cup {<<"join_response">>}
      <4>1. todo[a] \notin Resyncing \cup {<<"join_response">>}
        BY DEF Resyncing
      <4> QED
        BY <1>11, <4>1 DEF Actors
    <3>2. ~Awaits(c)
      BY <1>1, <1>3, <2>1, <3>1 DEF Awaits, InRoom, Named
    <3>3. q \in Peers(c)
      BY <1>3, <2>1 DEF Peers, Others
    <3>4. q \in Parts
      <4>1. session[c].room \in Rooms
        BY <1>1, <3>2 DEF Awaits, InRoom, Typed
      <4>2. q \in Made
        BY <1>1, <3>3, <4>1, OthersMade DEF Peers
      <4> QED
        BY <1>1, <4>2, SignallingAssumption DEF Typed, Made, Parts
    <3>5. CASE q = p
      BY <1>2, <1>11, <3>5 DEF Announcing
    <3>6. CASE q # p
      <4>1. Right(c, q) \/ Announcing(q)
        BY <1>1, <3>2, <3>3 DEF Heard
      <4>2. Right(c, q) => Right(c, q)'
        BY <1>3, <1>9, <3>4, <3>6 DEF Right, WireSsrcs
      <4>3. Announcing(q) => Announcing(q)'
        BY <1>11, <3>6 DEF Announcing, Actors
      <4> QED
        BY <4>1, <4>2, <4>3
    <3> QED
      BY <3>5, <3>6
  <2> QED
    BY <2>1 DEF Heard
<1> QED
  BY <1>10, <1>13, <1>14, <1>15 DEF SigInv

\* The announcement reaches everybody who hears of the Participant.
LEMMA AnnounceAddKeeps ==
  ASSUME SigInv, NEW a \in Actors, Step(a), todo[a] = <<"announce_add">>
  PROVE  SigInv'
<1> DEFINE x == ctx[a]
           q == participants[x.room][x.user]
           ssrc == AddSsrc(a, q)
<1>1. /\ Typed /\ Shaped /\ Owned /\ Heard
      /\ Do(a, "announce_add", x) /\ Moves(a, <<>>, NoCtx) /\ UNCHANGED <<joins, ws_tx>>
  BY LastStep DEF SigInv
<1>2. a \in Conns /\ a # Reaper /\ x.room \in Rooms /\ x.user \in Users
  <2>1. todo[a] \notin ReaperSteps /\ todo[a] # <<>>
    BY DEF ReaperSteps
  <2> QED
    BY <1>1, <2>1, WhoseStep, SignallingAssumption
<1>3. /\ broadcast(x.room, x.user, "add", {ssrc})
      /\ UNCHANGED <<session, participants, tracks, view, owes>>
  BY <1>1 DEF Do, AnnounceAdd, roomVars
<1>4. todo[a] \in Publishing
  BY DEF Publishing
<1>5. /\ session[a].part # 0 /\ x.user = UserOf[a]
      /\ \A r \in Rooms : participants[r][UserOf[a]] = x.part => r = x.room
      /\ UserOf[ws_tx[x.part]] = UserOf[a]
  BY <1>1, <1>2, <1>4 DEF Owned, HandlersOwn, SessionsOwned
<1>6. {ssrc} \in SUBSET Known
  <2>1. session[a].part \in Made
    BY <1>1, <1>2, <1>5 DEF Typed
  <2>2. q \in Made \cup {0}
    BY <1>1, <1>2 DEF Typed
  <2> QED
    BY <2>1, <2>2 DEF AddSsrc, Known
<1> HIDE DEF ssrc, q
<1>7. /\ queue' \in [Conns -> Seq(EventRec)]
      /\ \A c \in Conns : queue'[c] = <<>> => queue[c] = <<>>
      /\ \A c \in Conns :
           (session[c].open /\ \E p \in Others(x.room, x.user) : ws_tx[p] = c) => queue'[c] # <<>>
  <2> DEFINE e == {ssrc}
  <2>1. e \in SUBSET Known /\ e # {} /\ broadcast(x.room, x.user, "add", e) /\ Typed
    BY <1>1, <1>3, <1>6
  <2> HIDE DEF e
  <2> QED
    BY <2>1, BroadcastQueues
<1>8. todo' \in [Actors -> Seq(Ops)] /\ ctx' \in [Actors -> CtxRec] /\ Shaped'
  <2>1. Typed /\ Shaped /\ Moves(a, <<>>, NoCtx)
    BY <1>1
  <2>2. NoCtx \in CtxRec /\ <<>> \in ConnSteps /\ <<>> \in ReaperSteps /\ CtxRec \subseteq CtxRec
    BY NothingLeft
  <2> QED
    BY <2>1, <2>2, KeepHandlers
<1>9. /\ todo'[a] = <<>>
      /\ \A b \in Actors \ {a} : todo'[b] = todo[b] /\ ctx'[b] = ctx[b]
  BY <1>1, MovesAlone
<1>10. Made' = Made /\ Known' = Known /\ EventRec' = EventRec
  BY <1>1 DEF Made, Known, EventRec
<1>11. Typed'
  BY <1>1, <1>3, <1>7, <1>8, <1>10 DEF Typed, CtxRec
<1>12. Owned'
  BY <1>1, <1>3, NothingLeft, KeepOwned
<1>13. Heard'
  <2>1. ASSUME NEW c \in Conns, ~Awaits(c)', NEW p \in Peers(c)'
        PROVE  Right(c, p)' \/ Announcing(p)'
    <3>1. todo[c] \in Resyncing \cup {<<"join_response">>}
            => todo'[c] \in Resyncing \cup {<<"join_response">>}
      <4>1. todo[a] \notin Resyncing \cup {<<"join_response">>}
        BY DEF Resyncing
      <4> QED
        BY <1>9, <4>1 DEF Actors
    <3>2. ~Awaits(c) /\ queue'[c] = <<>>
      BY <1>1, <1>3, <1>7, <2>1, <3>1 DEF Awaits, InRoom, Named
    <3>3. p \in Peers(c)
      BY <1>3, <2>1 DEF Peers, Others
    <3>4. Right(c, p) \/ Announcing(p)
      BY <1>1, <3>2, <3>3 DEF Heard
    <3>5. Right(c, p) => Right(c, p)'
      BY <1>3 DEF Right, WireSsrcs
    <3>6. ASSUME Announcing(p) PROVE Announcing(p)'
      <4>1. PICK b \in Conns : todo[b] = <<"announce_add">> /\ ctx[b].part = p
        BY <3>6 DEF Announcing
      <4>2. ASSUME b = a PROVE FALSE
        <5> DEFINE r == session[c].room
        <5>1. /\ session[c].open /\ r \in Rooms
              /\ participants[r][UserOf[c]] # 0 /\ ws_tx[participants[r][UserOf[c]]] = c
          BY <1>1, <3>2 DEF Awaits, InRoom, Named, Typed
        <5>2. PICK v \in Users \ {UserOf[c]} : p = participants[r][v] /\ p # 0
          BY <3>3 DEF Peers, Others
        <5>3. UserOf[ws_tx[p]] = v
          BY <1>1, <5>1, <5>2 DEF Owned, Homes
        <5>4. v = x.user
          BY <1>5, <4>1, <4>2, <5>3
        <5>5. r = x.room
          BY <1>5, <4>1, <4>2, <5>1, <5>2, <5>4
        <5>6. UserOf[c] \in Users \ {x.user}
          BY <5>2, <5>4, SignallingAssumption
        <5>7. participants[r][UserOf[c]] \in Others(x.room, x.user)
          BY <5>1, <5>5, <5>6 DEF Others
        <5> QED
          BY <1>7, <3>2, <5>1, <5>7
      <4>3. todo'[b] = todo[b] /\ ctx'[b] = ctx[b]
        BY <1>9, <4>2 DEF Actors
      <4> QED
        BY <4>1, <4>3 DEF Announcing
    <3> QED
      BY <3>4, <3>5, <3>6
  <2> QED
    BY <2>1 DEF Heard
<1> QED
  BY <1>8, <1>11, <1>12, <1>13 DEF SigInv

-----------------------------------------------------------------------------
(* A Participant is made *)

\* Nobody knows of the new Participant, and it has no track yet.
LEMMA NewPart ==
  ASSUME Typed, TracksOwned, joins < MaxJoins
  PROVE  LET p == joins + 1
         IN  /\ p \in Parts /\ p \notin Made /\ p # 0 /\ -p \notin Known
             /\ Made \subseteq 1..p /\ p \in 1..p /\ \A q \in 1..p : q = p \/ q \in Made
             /\ tracks[p] = {}
<1> DEFINE p == joins + 1
<1>1. joins \in Nat /\ MaxJoins \in Nat
  BY SignallingAssumption DEF Typed
<1>2. p \in Parts /\ p \notin Made /\ p # 0
  BY <1>1 DEF Parts, Made
<1>3. Made \subseteq 1..p /\ p \in 1..p /\ \A q \in 1..p : q = p \/ q \in Made
  BY <1>1 DEF Made
<1>4. -p \notin Known
  <2>1. -p \notin Made
    BY <1>1 DEF Made
  <2>2. \A q \in Made : -p # -q
    BY <1>1 DEF Made
  <2> QED
    BY <2>1, <2>2 DEF Known
<1>5. tracks[p] = {}
  BY <1>2 DEF TracksOwned
<1> QED
  BY <1>2, <1>3, <1>4, <1>5

\* ROOM_JOIN.
LEMMA JoinKeeps ==
  ASSUME SigInv, NEW c \in Conns, NEW r \in Rooms, handle_room_join(c, r)
  PROVE  SigInv'
<1> DEFINE p == joins + 1
           u == UserOf[c]
           x == [room |-> r, user |-> u, part |-> p, ssrcs |-> {}]
<1>1. /\ Typed /\ Shaped /\ Owned /\ Heard
      /\ Homes /\ TracksOwned /\ SessionsOwned /\ HandlersOwn
      /\ c \in Actors /\ c # Reaper /\ u \in Users
  BY SignallingAssumption DEF SigInv, Owned, Actors
<1>2. Moves(c, <<"join_response">>, x)
  BY <1>1, Begins DEF handle_room_join
<1>3. /\ todo[c] = <<>> /\ joins < MaxJoins
      /\ joins' = p
      /\ ws_tx' = [ws_tx EXCEPT ![p] = c]
      /\ participants' = [participants EXCEPT ![r][u] = p]
      /\ session' = [session EXCEPT ![c].room = r, ![c].part = p]
      /\ UNCHANGED <<tracks, queue, view, owes>>
  BY DEF handle_room_join, Ready
<1>4. /\ p \in Parts /\ p \notin Made /\ p # 0 /\ -p \notin Known
      /\ Made \subseteq 1..p /\ p \in 1..p /\ \A q \in 1..p : q = p \/ q \in Made
      /\ tracks[p] = {}
  BY <1>1, <1>3, NewPart
<1>5. Made' = 1..p
  BY <1>3 DEF Made
<1>6. p \in 0..MaxJoins
  BY <1>1, <1>3, SignallingAssumption DEF Typed
<1>7. x = [room |-> r, user |-> u, part |-> p, ssrcs |-> {}]
  OBVIOUS
<1> HIDE DEF p, x
<1>8. /\ Made \subseteq Made' /\ p \in Made' /\ \A q \in Made' : q = p \/ q \in Made
  BY <1>4, <1>5
<1>9. Known \subseteq Known'
  BY <1>8 DEF Known
<1>10. EventRec \subseteq EventRec'
  BY <1>9 DEF EventRec
<1>11. CtxRec \subseteq CtxRec' /\ x \in CtxRec'
  <2>1. CtxRec \subseteq CtxRec'
    BY <1>8, <1>9 DEF CtxRec
  <2>2. x \in CtxRec'
    BY <1>1, <1>7, <1>8 DEF CtxRec
  <2> QED
    BY <2>1, <2>2
<1>12. /\ session'[c].room = r /\ session'[c].part = p
       /\ \A d \in Conns : d # c => session'[d] = session[d]
  BY <1>1, <1>3 DEF Typed
<1>13. /\ ws_tx'[p] = c /\ \A q \in Made : ws_tx'[q] = ws_tx[q]
  <2>1. \A q \in Made : q # p /\ q \in Parts
    BY <1>1, <1>4, SignallingAssumption DEF Typed, Made, Parts
  <2> QED
    BY <1>1, <1>3, <1>4, <2>1 DEF Typed
<1>14. /\ participants'[r][u] = p
       /\ \A s \in Rooms, v \in Users :
            (s # r \/ v # u) => participants'[s][v] = participants[s][v]
  BY <1>1, <1>3 DEF Typed
<1>15. \A s \in Rooms, v \in Users : participants[s][v] \in Made \cup {0}
  BY <1>1 DEF Typed
<1>16. /\ todo'[c] = <<"join_response">> /\ ctx'[c] = x
       /\ \A b \in Actors \ {c} : todo'[b] = todo[b] /\ ctx'[b] = ctx[b]
  BY <1>1, <1>2, MovesAlone
<1>17. /\ <<"join_response">> \in ConnSteps /\ <<"join_response">> \notin Publishing
       /\ <<"join_response">> \notin {<<"leave_response">>, <<"reap_response">>}
  BY DEF ConnSteps, Publishing
<1>18. todo' \in [Actors -> Seq(Ops)] /\ ctx' \in [Actors -> CtxRec'] /\ Shaped'
  <2>1. x.room \in Rooms /\ x.user \in Users
    BY <1>1, <1>7
  <2> QED
    BY <1>1, <1>2, <1>11, <1>17, <2>1, KeepHandlers
<1>19. Typed'
  <2>1. session' \in [Conns -> [open: BOOLEAN, room: Rooms \cup {None}, part: Made' \cup {0}]]
    <3> DEFINE S == [open: BOOLEAN, room: Rooms \cup {None}, part: Made' \cup {0}]
    <3>1. session \in [Conns -> S]
      BY <1>1, <1>8 DEF Typed
    <3>2. [session[c] EXCEPT !.room = r, !.part = p] \in S
      BY <1>8, <3>1
    <3>3. session' = [session EXCEPT ![c] = [session[c] EXCEPT !.room = r, !.part = p]]
      BY <1>1, <1>3 DEF Typed
    <3> HIDE DEF S
    <3>4. session' \in [Conns -> S]
      BY <3>1, <3>2, <3>3
    <3> QED
      BY <3>4 DEF S
  <2>2. joins' \in 0..MaxJoins /\ ws_tx' \in [Parts -> Conns \cup {None}]
    BY <1>1, <1>3, <1>6 DEF Typed
  <2>3. participants' \in [Rooms -> [Users -> Made' \cup {0}]]
    BY <1>1, <1>3, <1>8 DEF Typed
  <2>4. tracks' \in [Parts -> SUBSET Made'] /\ view' \in [Conns -> SUBSET Known'] /\ owes' \subseteq Conns
    BY <1>1, <1>3, <1>8, <1>9 DEF Typed
  <2>5. queue' \in [Conns -> Seq(EventRec')]
    <3>1. Seq(EventRec) \subseteq Seq(EventRec')
      BY <1>10, SeqMonotonic
    <3> QED
      BY <1>1, <1>3, <3>1 DEF Typed
  <2> QED
    BY <1>18, <2>1, <2>2, <2>3, <2>4, <2>5 DEF Typed, CtxRec
<1>20. Homes'
  <2>1. \A q \in Made' : ws_tx'[q] \in Conns
    BY <1>1, <1>8, <1>13 DEF Homes
  <2>2. ASSUME NEW s \in Rooms, NEW v \in Users, participants'[s][v] # 0
        PROVE  UserOf[ws_tx'[participants'[s][v]]] = v
    <3>1. CASE s = r /\ v = u
      BY <1>13, <1>14, <3>1
    <3>2. CASE s # r \/ v # u
      BY <1>1, <1>13, <1>14, <1>15, <2>2, <3>2 DEF Homes
    <3> QED
      BY <3>1, <3>2
  <2>3. ASSUME NEW s \in Rooms, NEW t \in Rooms, NEW v \in Users,
               participants'[s][v] = participants'[t][v], participants'[s][v] # 0, s # t
        PROVE  FALSE
    <3>1. CASE v = u /\ (s = r \/ t = r)
      BY <1>4, <1>14, <1>15, <2>3, <3>1
    <3>2. CASE v # u \/ (s # r /\ t # r)
      BY <1>1, <1>14, <2>3, <3>2 DEF Homes
    <3> QED
      BY <3>1, <3>2
  <2> QED
    BY <2>1, <2>2, <2>3 DEF Homes
<1>21. TracksOwned'
  <2>1. ASSUME NEW q \in Parts, NEW s \in tracks[q]
        PROVE  q \in Made' /\ UserOf[ws_tx'[s]] = UserOf[ws_tx'[q]]
    <3>1. s \in Made /\ q \in Made /\ UserOf[ws_tx[s]] = UserOf[ws_tx[q]]
      BY <1>1, <2>1 DEF TracksOwned, Typed
    <3>2. q # p
      BY <1>4, <2>1
    <3>3. ws_tx'[q] = ws_tx[q]
      BY <1>1, <1>3, <3>2 DEF Typed
    <3> QED
      BY <1>8, <1>13, <3>1, <3>3
  <2> QED
    BY <1>3, <2>1 DEF TracksOwned
<1>22. SessionsOwned'
  <2>1. ASSUME NEW d \in Conns
        PROVE  /\ session'[d].part # 0 => ws_tx'[session'[d].part] = d
               /\ session'[d].room # None => session'[d].part # 0
    <3>1. CASE d = c
      BY <1>4, <1>12, <1>13, <3>1
    <3>2. CASE d # c
      <4>1. session[d].part \in Made \cup {0}
        BY <1>1 DEF Typed
      <4> QED
        BY <1>1, <1>12, <1>13, <3>2, <4>1 DEF SessionsOwned
    <3> QED
      BY <3>1, <3>2
  <2> QED
    BY <2>1 DEF SessionsOwned
<1>23. HandlersOwn'
  <2>1. ASSUME NEW d \in Conns
        PROVE  /\ todo'[d] \in Publishing \cup {<<"join_response">>} =>
                    /\ session'[d].room # None
                    /\ ctx'[d].room = session'[d].room /\ ctx'[d].user = UserOf[d]
               /\ todo'[d] \in Publishing =>
                    /\ ctx'[d].part # 0 /\ UserOf[ws_tx'[ctx'[d].part]] = UserOf[d]
                    /\ \A s \in Rooms : participants'[s][UserOf[d]] = ctx'[d].part => s = ctx'[d].room
    <3>1. CASE d = c
      <4>1. r # None
        BY SignallingAssumption
      <4> QED
        BY <1>7, <1>12, <1>16, <1>17, <3>1, <4>1
    <3>2. CASE d # c
      <4>1. todo'[d] = todo[d] /\ ctx'[d] = ctx[d] /\ session'[d] = session[d]
        BY <1>12, <1>16, <3>2 DEF Actors
      <4>2. ctx[d].part \in Made \cup {0} /\ UserOf[d] \in Users
        BY <1>1, SignallingAssumption DEF Typed, Actors
      <4>3. \A s \in Rooms : participants'[s][UserOf[d]] = ctx[d].part
                => participants[s][UserOf[d]] = ctx[d].part
        BY <1>4, <1>14, <4>2
      <4>4. ctx[d].part # 0 => ws_tx'[ctx[d].part] = ws_tx[ctx[d].part]
        BY <1>13, <4>2
      <4> QED
        BY <1>1, <4>1, <4>3, <4>4 DEF HandlersOwn
    <3> QED
      BY <3>1, <3>2
  <2> QED
    BY <2>1 DEF HandlersOwn
<1>24. Heard'
  <2>1. ASSUME NEW d \in Conns, ~Awaits(d)', NEW q \in Peers(d)'
        PROVE  Right(d, q)' \/ Announcing(q)'
    <3>1. d # c
      BY <1>16, <2>1 DEF Awaits
    <3>2. session'[d] = session[d] /\ todo'[d] = todo[d] /\ UserOf[d] \in Users
      BY <1>12, <1>16, <3>1, SignallingAssumption DEF Actors
    <3> DEFINE s == session[d].room
               n == participants'[s][UserOf[d]]
    <3>3. /\ session[d].open /\ s # None /\ n # 0 /\ ws_tx'[n] = d
          /\ queue[d] = <<>> /\ d \notin owes
          /\ todo[d] \notin Resyncing \cup {<<"join_response">>}
      BY <1>3, <2>1, <3>2 DEF Awaits, InRoom, Named
    <3>4. s \in Rooms
      BY <1>1, <3>3 DEF Typed
    <3>5. n = participants[s][UserOf[d]]
      BY <1>13, <1>14, <3>1, <3>2, <3>3, <3>4
    <3>6. ws_tx[n] = d
      BY <1>13, <1>15, <3>2, <3>3, <3>4, <3>5
    <3>7. ~Awaits(d)
      BY <3>3, <3>5, <3>6 DEF Awaits, InRoom, Named
    <3>8. PICK v \in Users \ {UserOf[d]} : q = participants'[s][v] /\ q # 0
      BY <2>1, <3>2 DEF Peers, Others
    <3>9. CASE q = p
      <4>1. view'[d] = view[d] /\ view[d] \subseteq Known /\ tracks'[q] = {}
        BY <1>1, <1>3, <1>4, <3>9 DEF Typed
      <4>2. -q \notin view[d]
        BY <1>4, <3>9, <4>1
      <4>3. WireSsrcs(q)' = {}
        BY <4>1 DEF WireSsrcs
      <4> QED
        BY <4>1, <4>2, <4>3 DEF Right
    <3>10. CASE q # p
      <4>1. q = participants[s][v]
        BY <1>14, <3>4, <3>8, <3>10
      <4>2. q \in Peers(d)
        BY <3>8, <4>1 DEF Peers, Others
      <4>3. Right(d, q) \/ Announcing(q)
        BY <1>1, <3>7, <4>2 DEF Heard
      <4>4. Right(d, q) => Right(d, q)'
        BY <1>3 DEF Right, WireSsrcs
      <4>5. Announcing(q) => Announcing(q)'
        BY <1>3, <1>16 DEF Announcing, Actors
      <4> QED
        BY <4>3, <4>4, <4>5
    <3> QED
      BY <3>9, <3>10
  <2> QED
    BY <2>1 DEF Heard
<1> QED
  BY <1>18, <1>19, <1>20, <1>21, <1>22, <1>23, <1>24 DEF SigInv, Owned

-----------------------------------------------------------------------------
(* Every step *)

\* The state of a server that has just started.
LEMMA SigInit == Init => SigInv
<1> SUFFICES ASSUME Init PROVE SigInv
  OBVIOUS
<1>1. Made = {} /\ Known = {}
  BY DEF Init, Made, Known
<1>2. MaxJoins \in Nat /\ None \notin Rooms /\ Reaper \in Actors /\ Conns \subseteq Actors
  BY SignallingAssumption DEF Actors
<1>3. Typed
  BY <1>1, <1>2, ShortSequences DEF Init, Typed, NoCtx
<1>4. Shaped
  BY <1>2, NothingLeft DEF Init, Shaped
<1>5. Homes /\ TracksOwned /\ SessionsOwned
  BY <1>1 DEF Init, Homes, TracksOwned, SessionsOwned
<1>6. HandlersOwn
  BY <1>2, NothingLeft DEF Init, HandlersOwn
<1>7. Heard
  BY DEF Init, Heard, Awaits, InRoom
<1> QED
  BY <1>3, <1>4, <1>5, <1>6, <1>7 DEF SigInv, Owned

\* A step of a handler.
LEMMA StepOfHandler ==
  ASSUME SigInv, NEW a \in Actors, Step(a)
  PROVE  SigInv'
<1>1. todo[a] # <<>>
  BY DEF Step
<1>2. todo[a] \in ConnSteps \cup ReaperSteps
  BY DEF SigInv, Shaped, Actors
<1>3. CASE todo[a] = <<"add_track", "announce_add">>
  BY <1>3, AddTrackKeeps
<1>4. CASE todo[a] = <<"announce_add">>
  BY <1>4, AnnounceAddKeeps
<1>5. CASE todo[a] = <<"collect", "queue_resync">>
  BY <1>5, CollectKeeps
<1>6. CASE todo[a] = <<"queue_resync">>
  BY <1>6, ResyncKeeps
<1>7. CASE todo[a] = <<"join_response">>
  BY <1>7, JoinResponseKeeps
<1>8. CASE todo[a] = <<"leave_response">>
  BY <1>8, LeaveResponseKeeps
<1>9. CASE todo[a] = <<"announce_remove", "remove">>
  BY <1>9, AnnounceRemoveKeeps
<1>10. CASE todo[a] \in {<<"remove">>, <<"remove", "reap_response">>}
  BY <1>10, RemoveKeeps
<1>11. CASE todo[a] = <<"reap_response">>
  BY <1>11, ReapResponseKeeps
<1> QED
  BY <1>1, <1>2, <1>3, <1>4, <1>5, <1>6, <1>7, <1>8, <1>9, <1>10, <1>11, Zenon
     DEF ConnSteps, ReaperSteps, Publishing, Resyncing

\* A step that changes nothing the invariant is about.
LEMMA NothingDone == SigInv /\ UNCHANGED sigVars => SigInv'
<1> SUFFICES ASSUME SigInv, UNCHANGED sigVars PROVE SigInv'
  OBVIOUS
<1>1. /\ UNCHANGED <<session, joins, ws_tx, participants, tracks, queue, view, owes>>
      /\ UNCHANGED <<todo, ctx>>
  BY DEF sigVars, sessionVars, roomVars, handlerVars
<1>2. Typed'
  BY <1>1 DEF SigInv, Typed, Made, Known, EventRec
<1>3. Shaped'
  BY <1>1 DEF SigInv, Shaped
<1>4. Homes' /\ TracksOwned' /\ SessionsOwned' /\ HandlersOwn'
  BY <1>1 DEF SigInv, Owned, Homes, TracksOwned, SessionsOwned, HandlersOwn, Made
<1>5. Heard'
  <2>1. \A c \in Conns : Awaits(c)' = Awaits(c) /\ Peers(c)' = Peers(c)
    BY <1>1 DEF Awaits, InRoom, Named, Peers, Others
  <2>2. \A p : Announcing(p)' = Announcing(p) /\ \A c \in Conns : Right(c, p)' = Right(c, p)
    BY <1>1 DEF Right, WireSsrcs, Announcing
  <2> QED
    BY <2>1, <2>2 DEF SigInv, Heard
<1> QED
  BY <1>2, <1>3, <1>4, <1>5 DEF SigInv, Owned

\* Every step keeps the invariant.
LEMMA SigStep == SigInv /\ [Next]_sigVars => SigInv'
<1> SUFFICES ASSUME SigInv, Next PROVE SigInv'
  BY NothingDone
<1>1. ASSUME NEW c \in Conns, NEW r \in Rooms, handle_room_join(c, r) PROVE SigInv'
  BY <1>1, JoinKeeps
<1>2. ASSUME NEW c \in Conns, NEW r \in Rooms, handle_room_leave(c, r) PROVE SigInv'
  BY <1>2, LeaveKeeps
<1>3. ASSUME NEW c \in Conns,
             \/ handle_publish_tracks(c) \/ handle_tracks_ack(c) \/ handle_room_sync(c)
             \/ cleanup(c) \/ Deliver(c)
      PROVE  SigInv'
  BY <1>3, PublishKeeps, AckKeeps, SyncKeeps, CleanupKeeps, DeliverKeeps
<1>4. ASSUME NEW r \in Rooms, NEW u \in Users, reap_zombies(r, u) PROVE SigInv'
  BY <1>4, ReapKeeps
<1>5. ASSUME NEW a \in Actors, Step(a) PROVE SigInv'
  BY <1>5, StepOfHandler
<1> QED
  BY <1>1, <1>2, <1>3, <1>4, <1>5 DEF Next

\* The invariant holds throughout, whatever the order in which the steps of
\* the handlers come.
THEOREM SignallingInvariant == Spec => []SigInv
<1>1. Init => SigInv
  BY SigInit
<1>2. SigInv /\ [Next]_sigVars => SigInv'
  BY SigStep
<1> QED
  BY <1>1, <1>2, PTL DEF Spec

\* The state has its types.
THEOREM SignallingTypes == Spec => []TypeOK
<1>1. SigInv => TypeOK
  BY TypedMeaning DEF SigInv
<1> QED
  BY <1>1, SignallingInvariant, PTL

\* A client that has caught up has exactly the SSRCs of the publishers that are
\* in its room, for any number of connections, rooms and handlers under way.
THEOREM ClientsCatchUp == Spec => []PresentTracksExact
BY HeardMeaning, SignallingInvariant, PTL

-----------------------------------------------------------------------------
=============================================================================
