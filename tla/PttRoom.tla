------------------------------ MODULE PttRoom -------------------------------
(***************************************************************************)
(* A PTT room: the floor, its two rewriters, and what the clients are told *)
(* about the floor. The floor changes under its Mutex in one call; the     *)
(* handler that called it then works off the returned actions one effect   *)
(* at a time, taking each rewriter's Mutex or a client's channel for that  *)
(* effect only. Handlers of different tasks overlap on tokio's threads:    *)
(* the WebSocket task of each user (signaling/handler), a UDP worker       *)
(* (MBCP, transport/udp/ingress.rs) and the floor timer (tasks.rs).        *)
(*                                                                         *)
(* Of a rewriter only the speaker matters here; PttRewriter has the rest.  *)
(***************************************************************************)
EXTENDS Integers, Sequences, SequencesExt, FiniteSets

CONSTANTS
  Users, NoOne, Priorities, Queuing, Preemption, MaxQueue, MaxBurst, PingTimeout, MaxLag,
  Worker,   \* a UDP worker
  Timer,    \* run_floor_timer
  MaxBusy   \* bound: handlers under way at the same time

ASSUME RoomAssumption ==
  /\ NoOne \notin Users
  /\ Priorities \subseteq Nat
  /\ Queuing \in BOOLEAN /\ Preemption \in BOOLEAN
  /\ MaxQueue \in Nat /\ MaxBurst \in Nat /\ PingTimeout \in Nat /\ MaxLag \in Nat
  /\ Worker \notin Users \cup {Timer} /\ Timer \notin Users

VARIABLES
  state, queue, prev_speaker, actions,   \* the floor
  audio, video,   \* RewriteState.speaker of audio_rewriter and video_rewriter
  members,        \* the users in Room.participants
  told,           \* per member: the speaker its client was last told of
  todo,           \* per task: the effects its handler has still to apply
  raced           \* history: handlers overlapped since one last set everything

Floor == INSTANCE FloorControl

floorVars == <<state, queue, prev_speaker, actions>>
roomVars  == <<floorVars, audio, video, members, told, todo, raced>>

\* User u stands for its own WebSocket task.
Tasks == Users \cup {Worker, Timer}

Busy(t) == todo[t] # <<>>

Settled == \A t \in Tasks : ~Busy(t)

Tell(us, speaker) == [u \in Users |-> IF u \in us \cap members THEN speaker ELSE told[u]]

-----------------------------------------------------------------------------
(* Effects of floor actions, as each kind of handler applies them *)

Effects == {"clear_audio", "clear_video", "switch_audio", "switch_video",
            "FLOOR_IDLE", "FLOOR_TAKEN", "taken_others", "granted", "FLOOR_REVOKE", "remove", "sync"}

Do(op, u) == [op |-> op, user |-> u]

Clear     == <<Do("clear_audio", NoOne), Do("clear_video", NoOne)>>
Switch(u) == <<Do("switch_audio", u), Do("switch_video", u)>>

\* handle_floor_request; "granted" is the response. The rewriters of a
\* preempted speaker are not cleared.
WsRequestEffects(a) ==
  CASE a.type = "Granted" -> Switch(a.user) \o <<Do("taken_others", a.user), Do("granted", a.user)>>
    [] a.type = "Revoked" -> <<Do("FLOOR_REVOKE", a.user)>>
    [] OTHER -> <<>>

\* apply_floor_actions, for WS release and for leaves.
ApplyEffects(a) ==
  CASE a.type = "Granted"  -> Switch(a.user) \o <<Do("FLOOR_TAKEN", a.user), Do("granted", a.user)>>
    [] a.type = "Released" -> <<Do("FLOOR_IDLE", NoOne)>>
    [] OTHER -> <<>>

TimerEffects_mut_noidle(a) ==
  CASE a.type = "Granted" -> Switch(a.user) \o <<Do("granted", a.user), Do("FLOOR_TAKEN", a.user)>>
    [] a.type = "Revoked" -> Clear \o <<Do("FLOOR_REVOKE", a.user)>>
    [] OTHER -> <<>>

\* run_floor_timer
TimerEffects(a) ==
  CASE a.type = "Granted" -> Switch(a.user) \o <<Do("granted", a.user), Do("FLOOR_TAKEN", a.user)>>
    [] a.type = "Revoked" -> Clear \o <<Do("FLOOR_REVOKE", a.user), Do("FLOOR_IDLE", NoOne)>>
    [] OTHER -> <<>>

\* apply_mbcp_floor_actions. The clients also get the WebSocket event.
MbcpEffects(a) ==
  CASE a.type = "Granted"  -> Switch(a.user) \o <<Do("FLOOR_TAKEN", a.user)>>
    [] a.type = "Released" -> <<Do("FLOOR_IDLE", NoOne)>>
    [] a.type = "Revoked"  -> <<Do("FLOOR_REVOKE", a.user)>> \o Clear
                                \o <<Do("FLOOR_IDLE", NoOne)>>
    [] OTHER -> <<>>

ReleaseFlush_mut_none(as) == <<>>

\* Before the actions are applied: a release clears both rewriters.
ReleaseFlush(as) ==
  IF \E i \in 1..Len(as) : as[i].type = "Released" THEN Clear ELSE <<>>

\* After the actions have been applied: a leave clears both rewriters.
LeaveFlush(as) == IF as = <<>> THEN <<>> ELSE Clear

AllEffects(Of(_), as) == FlattenSeq([i \in 1..Len(as) |-> Of(as[i])])

-----------------------------------------------------------------------------
(* Handlers *)

Init ==
  /\ Floor!Init
  /\ audio = NoOne /\ video = NoOne
  /\ members = {}
  /\ told = [u \in Users |-> NoOne]
  /\ todo = [t \in Tasks |-> <<>>]
  /\ raced = FALSE

\* Task t takes up a handler whose effects are `effects'. One that runs alone
\* and got actions from the floor sets the rewriters and every client anew.
Start(t, effects) ==
  /\ ~Busy(t)
  /\ Cardinality({x \in Tasks : Busy(x)}) < MaxBusy
  /\ todo' = [todo EXCEPT ![t] = effects]
  /\ raced' = IF ~Settled THEN TRUE
              ELSE raced /\ ~(\E i \in 1..Len(effects) : effects[i].op \in
                                {"FLOOR_IDLE", "FLOOR_TAKEN", "taken_others"})
  /\ UNCHANGED <<audio, video, members, told>>

handle_floor_request(u) ==
  \E p \in Priorities, lag \in Floor!Lags :
    /\ Floor!request(u, p, lag)
    /\ Start(u, AllEffects(WsRequestEffects, actions'))

handle_floor_release(u) ==
  /\ Floor!release(u)
  /\ Start(u, ReleaseFlush(actions') \o AllEffects(ApplyEffects, actions'))

handle_floor_ping(u) ==
  \E lag \in Floor!Lags :
    /\ Floor!ping(u, lag)
    /\ Start(u, <<>>)

\* handle_room_leave, and cleanup of a WebSocket that is gone.
handle_room_leave(u) ==
  /\ Floor!on_participant_leave(u)
  /\ Start(u, AllEffects(ApplyEffects, actions') \o LeaveFlush(actions') \o <<Do("remove", u)>>)

\* The join response carries the speaker, read at its end.
handle_room_join(u) ==
  /\ u \notin members
  /\ ~Busy(u)
  /\ Cardinality({x \in Tasks : Busy(x)}) < MaxBusy
  /\ members' = members \cup {u}
  /\ todo' = [todo EXCEPT ![u] = <<Do("sync", u)>>]
  /\ raced' = (raced \/ ~Settled)
  /\ UNCHANGED <<floorVars, audio, video, told>>

\* MBCP has no priority field; only a participant's address gets this far.
MbcpRequest(u) ==
  /\ u \in members
  /\ 0 \in Priorities
  /\ \E lag \in Floor!Lags : Floor!request(u, 0, lag)
  /\ Start(Worker, AllEffects(MbcpEffects, actions'))

MbcpRelease(u) ==
  /\ u \in members
  /\ Floor!release(u)
  /\ Start(Worker, ReleaseFlush(actions') \o AllEffects(MbcpEffects, actions'))

MbcpPing(u) ==
  /\ u \in members
  /\ \E lag \in Floor!Lags : Floor!ping(u, lag)
  /\ Start(Worker, <<>>)

run_floor_timer ==
  \E lag \in Floor!Lags :
    /\ Floor!check_timers(lag)
    /\ Start(Timer, AllEffects(TimerEffects, actions'))

\* The reaper takes the participant out and leaves the floor as it is.
run_zombie_reaper(u) ==
  /\ u \in members
  /\ members' = members \ {u}
  /\ told' = Tell({u}, NoOne)
  /\ UNCHANGED <<floorVars, audio, video, todo, raced>>

Tick ==
  /\ Floor!Tick
  /\ UNCHANGED <<audio, video, members, told, todo, raced>>

-----------------------------------------------------------------------------
(* One effect of a handler *)

ToldBy(e) ==
  CASE e.op = "FLOOR_IDLE"   -> Tell(members, NoOne)
    [] e.op = "FLOOR_TAKEN"  -> Tell(members, e.user)
    [] e.op = "taken_others" -> Tell(members \ {e.user}, e.user)
    [] e.op = "granted"      -> Tell({e.user}, e.user)
    [] e.op = "FLOOR_REVOKE" -> Tell({e.user}, NoOne)
    [] e.op = "sync"         -> Tell({e.user}, state.speaker)
    [] e.op = "remove"       -> Tell({e.user}, NoOne)
    [] OTHER -> told

SpeakerBy(e, switch, clear, old) ==
  CASE e.op = switch -> e.user
    [] e.op = clear  -> NoOne
    [] OTHER -> old

Effect(t) ==
  /\ Busy(t)
  /\ LET e == Head(todo[t])
     IN  /\ audio' = SpeakerBy(e, "switch_audio", "clear_audio", audio)
         /\ video' = SpeakerBy(e, "switch_video", "clear_video", video)
         /\ told' = ToldBy(e)
         /\ members' = IF e.op = "remove" THEN members \ {e.user} ELSE members
  /\ todo' = [todo EXCEPT ![t] = Tail(@)]
  /\ UNCHANGED <<floorVars, raced>>

Next ==
  \/ \E u \in Users : handle_floor_request(u)
  \/ \E u \in Users : handle_floor_release(u)
  \/ \E u \in Users : handle_floor_ping(u)
  \/ \E u \in Users : handle_room_leave(u)
  \/ \E u \in Users : handle_room_join(u)
  \/ \E u \in Users : MbcpRequest(u)
  \/ \E u \in Users : MbcpRelease(u)
  \/ \E u \in Users : MbcpPing(u)
  \/ run_floor_timer
  \/ \E u \in Users : run_zombie_reaper(u)
  \/ \E t \in Tasks : Effect(t)
  \/ Tick

Spec == Init /\ [][Next]_roomVars

-----------------------------------------------------------------------------
(* prepare_fanout_payload: what becomes of a media packet of u. A packet that
   passes the floor gate and that rewrite() skips goes out as it is. *)
Fanout(u, rewriter) ==
  IF state.speaker # u THEN "gated"
  ELSE IF rewriter = u THEN "virtual" ELSE "raw"

-----------------------------------------------------------------------------
(* Properties *)

\* The state has its types.
TypeOK ==
  /\ Floor!TypeOK
  /\ {audio, video} \subseteq Users \cup {NoOne}
  /\ members \subseteq Users
  /\ told \in [Users -> Users \cup {NoOne}]
  /\ todo \in [Tasks -> Seq([op: Effects, user: Users \cup {NoOne}])]
  /\ raced \in BOOLEAN

\* Whatever raced before, one floor change that runs alone (WS, MBCP, timer or
\* leave) brings both rewriters in line: each follows the floor's speaker or
\* nobody, and never one without the other.
RewritersFollowFloor ==
  Settled /\ ~raced => audio = video /\ audio \in {NoOne, state.speaker}

\* The same for the clients: each participant was last told who really has the
\* floor, in particular one that joined, was preempted or has been reaped and
\* came back.
ClientsKnowSpeaker ==
  Settled /\ ~raced => \A u \in members : told[u] = state.speaker

\* ptt_rewriter.rs 4-6 and 124: in PTT mode every speaker goes out on the one
\* virtual stream, since a grant calls switch_speaker. When a leave hands the
\* floor on, room_ops.rs 290-291 clears the rewriters after that call.
SpeakerIsVirtual ==
  Settled /\ ~raced => \A u \in Users : Fanout(u, audio) # "raw"
=============================================================================
