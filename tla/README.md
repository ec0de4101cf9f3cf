# A TLA+ model of oxlens-sfu-server

oxlens-sfu-server is a selective forwarding unit in Rust: clients talk to it over a
WebSocket (signalling) and over UDP (ICE-lite, DTLS, SRTP), and it forwards the media of
each participant to the others of its room. A room is either a conference or a PTT
("walkie-talkie") room, in which one participant at a time has the floor and all speakers
share one virtual RTP stream. This directory models the parts that decide *who may talk,
what the receivers get, what they are told and who is found where*, from the first STUN packet to
the feedback a publisher gets. TLC checks them on small instances, and TLAPS proves the safety properties of floor
control, PTT rooms and their rewriters, simulcast, the room indices, track signalling, PLI bursts,
transport keys, receiver reports and TWCC feedback for every number of users, tasks and messages.

Paths below are relative to the server's `src/`.

## 1. Inventory

| Part | State | Operations | Interaction |
|---|---|---|---|
| Floor control, `room/floor.rs` | Idle / Taken with priority and two stamps; a sorted queue; the previous speaker | request, release, ping, check_timers, cancel_queue, on_participant_leave | called under one Mutex by WS handlers, the UDP worker and the timer; returns a list of actions for the caller to apply |
| PTT rewriter, `room/ptt_rewriter.rs` | speaker, origin and virtual bases, last virtual numbers, pending keyframe, two instants | switch_speaker, clear_speaker, rewrite, reverse_seq, translate_rtp_ts | two per room (audio, video), switched and cleared by whoever applies floor actions, used by ingress |
| PTT room: `signaling/handler/floor_ops.rs`, `room_ops.rs`, `transport/udp/ingress.rs` (MBCP), `tasks.rs` | what the clients were last told; handlers under way | FLOOR_REQUEST/RELEASE/PING over WS and MBCP, join, leave, cleanup, floor timer, reaper | the composition of the two above |
| Rooms and indices, `room/room.rs` | participants, by_ufrag, by_addr per room; ufrag_index, addr_index in the hub | add_participant, remove_participant, latch, find_by_ufrag, find_by_addr | DashMaps without a common lock, used by WS tasks, UDP workers and the reaper |
| Participant, `room/participant.rs` | tracks, simulcast rewriter per subscriber, RTP cache, egress queue | add_track, latch_address, simulcast switch and rewrite, cache, layers | shared by everything above |
| Media ingress, `transport/udp/ingress.rs` | NACK and RTX state, layer entries, the PLI throttle | fan-out, NACK/RTX, RTCP relay, sender reports | reads rooms, writes egress queues |
| Egress and PLI, `transport/udp/egress.rs`, `pli.rs` | a bounded queue per subscriber, abort handles of bursts | run_egress_task, spawn_pli_burst, cancel | one task per participant |
| RTCP termination, `rtcp_terminator.rs`; TWCC, `twcc.rs` | RFC 3550 counters; a ring of arrival times | update, build a report; record, build feedback | per publisher SSRC / per publisher |
| Track signalling, `track_ops.rs`; sessions, `signaling/handler/mod.rs` | current room, user, a queue of events per connection | publish_tracks, tracks_ack, room_sync, mute, subscribe_layer, cleanup | one WS task per connection; the reaper beside them |
| UDP demux and DTLS, `transport/udp/mod.rs`, `demux_conn.rs` | channels by address, handshake tasks, SRTP contexts by session | handle_stun, handle_dtls, start_dtls_handshake, remove_stale | UDP workers and one task per handshake; cryptography and byte formats are external libraries' |
| Metrics, logs, admin, configuration | counters, snapshots | | nothing depends on it |

What is hard here:

* **Concurrency.** The floor's Mutex covers one call; the effects of the call (two rewriters,
  several broadcasts) come after it is let go, and five kinds of tasks do this side by side. The
  room indices are five maps, updated one access after the other.
* **Ordering.** Clock samples are taken before the lock is waited for. RTP arrives late and
  out of order. A leave applies its effects in another order than a release.
* **Time.** T2 (a burst's maximum), the ping timeout, the idle time that has to show up in the
  virtual timestamps, zombie reaping, PLI bursts, retries and throttles, DTLS handshakes that are given
  up after 10 s.
* **Numbers.** 16-bit sequence numbers and 32-bit timestamps that wrap anywhere, rings that are
  addressed by them, RFC 3550's probation and restarts.
* **Two names for one thing.** Packets are handed out by address and keys by session; a track is
  announced under a virtual SSRC and stored under a real one; a participant is looked up by name a
  second time in the middle of a handler.

What makes each part correct: the floor has one holder, is never free while someone waits and
never held for ever, and serves the highest priority first; the virtual stream has gaps only
where packets were really lost, starts video on a keyframe, lets a NACK find the packet it is
about and keeps the time that passed; rewriters and clients agree with the floor; a member of a
room is found by its ufrag, a removed one is not, and media from an address is given to the session
whose address it is; a session's keys are shared with its own client, and a client that keeps trying gets
them; every client ends up with exactly the tracks of its room; a subscriber gets a keyframe in the end;
reports and feedback say what really arrived. `PROJECT.json` lists the hazards line by line, with the properties that
cover them or the reason why none does yet.

## 2. Modules

```
FloorArbiter        what floor control promises (abstract)
   ^ refinement
FloorControl        room/floor.rs        <- FloorControlProofs, MCFloorControl
   ^ INSTANCE
PttRoom             handlers, MBCP, timer, leaves, reaper over floor and rewriters
                                         <- PttRoomProofs (over FloorControlProofs), MCPttRoom
PttRewriter         room/ptt_rewriter.rs <- PttRewriterProofs, MCPttRewriter
RoomHub             room/room.rs         <- RoomHubProofs, MCRoomHub
Simulcast           room/participant.rs, SUBSCRIBE_LAYER, simulcast fan-out, NACK lookup
                                         <- SimulcastProofs, MCSimulcast
Signalling          sessions, join/leave/publish/ack/sync, cleanup, reaper
                                         <- SignallingProofs, MCSignalling
Transport           STUN latch, DTLS map and tasks, keys, egress start
                                         <- TransportProofs, MCTransport
Keyframes           pli.rs, retries, SUBSCRIBE_LAYER, PLI relay, NACK escalation
                                         <- RtcpProofs, MCKeyframes
RecvStats           rtcp_terminator.rs   \
Twcc                twcc.rs              / <- MCFeedback <- RtcpProofs
```

**FloorControl.** `state`, `queue` and `prev_speaker` are the fields of `FloorInner`; `actions`
is the `Vec<FloorAction>` of the last call. Each public method is one action, since each holds the
Mutex from start to end. The code only compares differences of stamps, so the model keeps the
*age* of each stamp. A caller reads the clock before it gets the lock: `lag` says how old its
sample is. An age stops growing at the first value that no comparison tells from a larger one, so
time itself is not bounded. The grant inside `_try_grant_next` reads the clock anew (age 0), as
the code does. `Denied`/`Queued` positions and display data of the actions are left out.
`cancel_queue` has no caller in the server today; it is an action all the same.

**FloorArbiter.** Holder, rank, and the *set* of waiting entries: no queue, no stamps, no timers.
A holder is displaced only by a strictly higher priority; a floor that is given up goes to some entry
of the highest priority, and is free only when nobody waits. `RefinesArbiter` maps the queue to
its set of entries.

**PttRewriter.** `s` is `RewriteState` field by field; `require_keyframe` tells the audio from the
video rewriter and both are initial states. Instants are ages in ticks of one frame. The network
(`Arrives`) loses packets and delivers some late; a publisher numbers its packets from
`OrigStart`. `out`, `burst`, `due` and `late` are history variables. The keyframe test on VP8/H264
payloads is an input. A packet of somebody who is not the speaker, or a non-keyframe while a
keyframe is awaited, changes nothing in the code, and is a lost packet in the model.

**PttRoom.** The floor is an instance of FloorControl; of each rewriter only the speaker is kept
(PttRewriter has the rest). A handler is a floor call followed by a list of effects in `todo`,
in the order in which that handler's code has them: WS request, WS release, leave/cleanup, MBCP and
timer all differ. `Effect` applies one of them, so handlers overlap between any two. `told` is the
speaker a client was last told of (FLOOR_TAKEN, FLOOR_IDLE, FLOOR_REVOKE, the response to its
request, the join response). The reaper takes a participant out without telling the floor.

**RoomHub.** A `part` is a Participant object; a session is a part with a PC type. An operation
is the list of its map accesses in `todo`, in the order of the code, and `Step` does one. The
checks of `add_participant` and the lookup in `latch_by_ufrag` come with the operation's start,
apart from the accesses that rely on them. `Drop` frees an object nothing refers to any more, so the number
of objects is bounded and the number of joins is not. `remove_room` is never called in the server.

**Simulcast.** One publisher with layers h and l, one subscriber (subscribers share nothing but the
cache). `entry` is the subscriber's SubscribeLayerEntry with its SimulcastRewriter; the history
variables `last`, `asked` and `skipped` say what the subscriber got, what it asked for and what
the server left out, without looking into the rewriter. The publisher never stops: its numbers
wrap, and the state space is finite without a bound on the length of a behaviour. `Rtx` is what
handle_nack_block would send. Left out: timestamps (rewritten by the same steps; a switch adds 1), the sending and
retrying of PLIs (in Keyframes), NACK and gap suppression, the RTX budget (each means that a NACK is not
answered), and the removal of an entry when the publisher leaves.

**Signalling.** A handler is a request followed by the steps in `todo`, in the order of its code, so
that handlers of two connections and the reaper overlap between any two accesses; `ctx` is what it holds
from one step to the next. Responses are written to the socket, events of other tasks wait in `queue`: a
response overtakes them, as in `handle_connection`. `view` is what the client makes of responses and
events, `owes` that it has a TRACKS_ACK to send. A Participant is the number of the join that made it,
its track has that SSRC, its virtual SSRC is the negated number. The participant_joined/left events go the same
ways as the tracks and are left out, as are refused requests.

**Transport.** `by_addr` is what `find_by_addr` gives, `dtls_map` the addresses with an entry in
the worker's map, `task` the DTLS task of an address: the session it was made for and the client it talks to.
The task goes from accept over the handshake to the keys, the egress task and the keep-alive
loop, each an action. A handshake is cut down to ClientHello, the server's flight and the client's last
flight; any of them may be lost, and the server gives up after 10 s at any point. `client` is the other
end: it joins, gets another address from its NAT, leaves, comes back. With `LiveAddrReuse` an address may
change hands while the server still has a task or a latch for the client before.

**Keyframes.** `spawn_pli_burst` is three steps (abort the stored burst, spawn, store the handle) of
the ingress worker or a WebSocket task. `asked` holds the layers for which a PLI has reached the encoder, `intact`
the subscribers whose decoder has all it needs. A keyframe can be lost on its way to the server, or dropped at a full
egress queue after the rewriter has let it through. Of the 2 s of a retry and the 3 s of the throttle only "due or
not" is kept. Subscribers outside `Subs` only get in the way: their requests abort bursts and use up the
throttle.

**RecvStats, Twcc.** The counters of `RecvStats` and the ring of `TwccRecorder` are translated
field by field with their widths as constants; what they report is compared with what really arrived
(`truth`, `due`), which the code does not keep. Packets are lost, come late and, for RecvStats, start again
with far numbers. Feedback is modelled with its status chunks and deltas, which the property decodes again;
the bytes of the packets are not. `MCFeedback` runs the one or the other: they share nothing.

## 3. What the runs show

| Run | Instance | Result |
|---|---|---|
| `floor_control` | 3 users, 2 priorities, queue of 2, T2 = 2, ping = 1, lag <= 1 | queue sorted, nobody twice, no waiter on a free floor, `InsertPos`/`Retain` equal push + sort_by and retain on every reachable queue; T2 ends every burst; a top-priority waiter is served; refines FloorArbiter |
| `ptt_rewriter` | 2 users, sequence numbers mod 5, timestamps mod 64, 3 packets each, 7 on the stream, 2 switches | gaps are losses, order in a burst, idle time in the timestamps, keyframe first, NACK and sender-report mapping exact |
| `ptt_room` | 2 users, 2 priorities, queue of 1, T2 = ping = 0, 2 handlers at a time | whatever raced before, the next floor change that runs alone puts the rewriters and every client right |
| `room_hub` | 2 users, 2 rooms, 2 addresses, 2 objects, 2 operations at a time, capacity 1 | members are reachable, removed participants are not, media goes to the address's owner |
| `simulcast` | numbers mod 4, a cache of 2 slots, a packet overtaken by at most one | virtual numbers have gaps only where packets were lost, every packet is decodable, an RTX has the number that was asked for |
| `signalling` | 2 users with a connection each, 1 simulcast room, 3 joins, 2 handlers at a time, no request while 2 events wait | whoever has taken and acknowledged all events has exactly the SSRCs of the publishers that are there; once joining and publishing end, everybody ends up with exactly the tracks of the room |
| `transport` | 2 sessions (one a subscriber), 3 addresses | a session never has another client's keys; a finished handshake means that media is taken and, for a subscriber, sent; a client that keeps trying is served |
| `keyframes` | 1 subscriber and others in its way, bursts of up to 2 PLIs, 2 burst tasks | one burst at a time, the one of the handle; a subscriber that insists is served again and again; the first keyframe of layer h comes without its help |
| `feedback` | RecvStats: numbers mod 32, dropout 8, misorder 3, 12 packets, 2 lost, 1 restart; Twcc: numbers mod 12, a ring of 4, 17 packets, 2 lost | reports are exact, a restart is noticed, feedback says which packets arrived and when |
| `simulcast_rtx_layer`, `floor_release_regrant`, `ptt_leave_handover` | as above | violated: see section 6 |

**Bounds.** Three users and a queue of two are the least with a holder, two waiters that a
sort can get wrong and a request to a full queue; two priorities give ties and preemption. T2 = 2 with
a ping timeout of 1 lets a ping keep the floor past the ping timeout and not past T2. A modulus of 5 with publishers
that start at 4 makes the number wrap in the first burst, at the switch and inside the three silence
frames. With T2 = ping = 0 the timer may fire from the tick after a grant on, at any point of any handler;
longer limits only delay it. Two operations at a time are enough for every pairwise overlap; overlaps of
three are not explored. In `room_hub` two objects and capacity 1 let an object be removed while the
other one takes its place, its user or its address. It has one PC type: the two sessions of a participant have
separate addresses and indices and are alike.

In `simulcast` four numbers over two slots make each slot serve two numbers of each layer, and all
offsets occur.

In `signalling` the third join is the return of a user that left, was reaped or lost its connection while a handler
of the other one is under way. Three addresses in `transport` are one for each client and one to move to, so
that an address is also used again by the other client. In `keyframes` two slots let an aborted burst and its
successor exist side by side. `MaxCalls = 1` says that calls of `spawn_pli_burst` do not overlap; what
happens when they do is in section 6. In `feedback` the streams are long enough for the numbers to
wrap once and, in Twcc, for the ring to be gone round four times and for more to be pending than it holds.
A restart jumps by 8 or by 13, both beyond the dropout limit, and from some packets across the wrap.

**Symmetry and view.** In `ptt_rewriter`, `ptt_room` and `room_hub` users (and rooms, objects, addresses, tasks in RoomHub) are only compared for
equality, and no run with symmetry checks liveness. `MCPttRoom` hides `prev_speaker` and the previous
`actions` from the fingerprint: no action and no property of that run reads them.

**Deadlock** is checked except where the system may rightly stop: in `room_hub` and `signalling` a server
nobody calls is idle (all objects or joins used up, no request under way), in `transport` the clients
may all be gone, in `keyframes` everybody may be served, and in `feedback` a stream ends.

**Fairness.**

* `floor_control`: time goes on, and `run_floor_timer`, an endless interval loop
  started with the server, runs `check_timers` again and again and at some point with a clock sample
  that is fresh. Nothing is assumed of the clients. `TopWaiterServed` is about waiters of the highest priority only:
  a lower one can be overtaken for ever, as the code has it.
* `signalling`: handlers run to their end; `select!` picks among ready branches at random, so waiting events
  and requests get their turn; clients poll ROOM_SYNC. Nothing is assumed of joins, leaves and acknowledgements.
* `transport`: tasks run and time-outs fire; a patient client sends again what was lost, and what is sent again and
  again gets through in the end (strong fairness); a client that does not get on joins anew. How often the DTLS
  map is swept depends on the traffic: nothing is assumed of it.
* `keyframes`: tasks run, time passes, video packets keep coming, and neither PLIs nor keyframes that
  are sent again and again are lost for ever. `KeyframeArrives` has what it needs of the client as its
  premise (`Insists`); `FirstKeyframeArrives` needs nothing of it.

## 4. What is proved

Every result holds for all values of the constants: any numbers of users, rooms, connections,
addresses and tasks, any limits and any widths of numbers. What is assumed of the constants is the
ASSUME of the component's module, and where a theorem asks for more it is said here.

**FloorControlProofs**, under `FloorAssumption` alone:

* `TypeCorrect`: `Spec => []TypeOK`, the bound on the queue's length included;
* `QueueStaysSorted`, `NobodyWaitsTwice`, `FreeFloorServesQueue`: `QueueInOrder`,
  `OneEntryPerUser`, `NoWaiterOnFreeFloor`;
* `ControllerRefinesArbiter`: `Spec => Arbiter!Spec`.

The inductive invariant `IInv` is the types, a good queue (typed, bounded, sorted, nobody twice) and the
absence of waiters on a free floor. None of the parts is inductive alone: that insertion keeps the
queue sorted needs that it was; that it keeps one entry per user needs the test for a queued
requester to see all entries; that a free floor goes to a requester past an empty queue, as the
arbiter demands, needs the last part; and that the head of the queue has the highest priority, which
is what refinement is about, needs the first. The lemmas go from the library's
`InsertAt`/`RemoveAt` to `PushSorted` and `Retain` on good queues, to `Vacate`, to one step per
action. Ticks are not trivial either: ages are capped, and the lemma `TickGood` shows that
capping keeps the order. What each call leaves behind and returns is stated in lemmas of its own
(`...Outcome`), which PttRoomProofs builds on.

**PttRoomProofs**, over floor and rewriters:

* `RoomTypes`: `Spec => []TypeOK`;
* `RewritersFollow`, `ClientsAreTold`: `RewritersFollowFloor` and `ClientsKnowSpeaker`.

The floor's part of the invariant is `IInv` itself: the room's floor operations are shown to be those
of FloorControlProofs. The rest is `OnCourse`: unless handlers have raced, there is one task such that all
others have nothing to do, and the effects it has left lead both rewriters to the speaker (or to nobody) and
every client to the speaker: either the last of them that touches the value sets it so, or none touches it
and it is so already. A floor call by an idle room begins such a course, an effect goes one step along it, and at its
end both properties say what is left. Six handlers with different lists of effects each have their lemma.

**PttRewriterProofs**, for every width of sequence numbers and timestamps:

* `RewriterTypes`: `Spec => []TypeOK`;
* `GapsOnlyFromLosses`, `BurstOrderKept`, `BurstsStartWithKeyframe`, `MappingIsExact`: `GapsAreLosses`,
  `OrderKept`, `KeyframeFirst`, `MappingExact`;
* `IdleTimeShows`: `Spec => [](PausesFit => IdleTimeInTs)`.

The first four share the invariant `RInv`. `Continues` ties the rewriter's last number to the end of the stream, also over
silence frames and switches; `Mapped` says that the present bases map every packet of the running burst, which is
why packets of one burst keep their distances although the bases are set by whichever came first;
`AwaitsKeyframe` carries the demand for a key frame from the switch to the first packet. Properties of older packets stay
as they are because the stream only grows, and no packet is of a burst to come (`BurstsBegun`). The first
section of the module has the arithmetic: remainders of sums and differences for any modulus, which the solver does not find.

`PausesFit` asks two things of each pause: it is shorter than the range of timestamps (13 hours of video), and
the packet it begins after does not have number 0 and timestamp 0, which `clear_speaker` takes for "nothing sent yet": it
then sends no silence frames, and the next switch subtracts their time all the same (section 6). The invariant is `IdleInv`,
on top of `RInv`. After the last packet of a speaker there are whole flushes of silence frames, a guard gap
apart (`SilenceAfter`), and at least one since the floor was released. So the `dynamic_ts_gap` of `switch_speaker` less the share of
one flush still covers, with the flushes on the stream, all that a pending switch owes (`GapOwed`), however
often the floor was released and switched before anybody spoke; and it is at most a guard gap more, so it does not wrap.

**SimulcastProofs**, for every modulus, cache size and degree of reordering:

* `SimulcastTypes`: `Spec => []TypeOK`;
* `AlwaysDecodable`: `Spec => DecodableOrKeyframe`, an action property;
* `NoGapsOfOurOwn`: `Spec => GapsAreLosses`, an action property;
* `RetransmissionsMatch`: `Spec => []RtxHasTheNumber`.

`DecodableOrKeyframe` speaks of two successive packets, the rewriter of one entry with two flags. What ties them
together is `InStep`: a rewriter that waits for no keyframe is on the layer of the packet sent last, and
nothing of that layer has been left out since. The numbers need `Numbered` beside it: the packet sent last has
its own number plus the present offset, it is where the next rebase goes on, and a rebase is due
exactly when the subscriber has changed layer since. All sums lie within one wrap of the modulus, so that the lemma
`WrapsOnce` makes them linear.

**RoomHubProofs**, for any number of operations side by side:

* `HubTypes`: `Spec => []TypeOK`;
* `MembersAreReachable`, `RemovedStayUnreachable`: `MemberReachable`, `RemovedUnreachable`, whatever overlaps;
* `MediaReachesOwner`: `MediaOwner`, which is about operations that do not overlap.

An operation under way is the rest of a list of map accesses, and the invariant `HubInv` says which rests there are
(`Rests`) and what each has made sure of: a member is registered with its room and known to the hub or about
to be (`Members`); an object is registered by one task, before it becomes a member (`JoinsOnce`); ufrags that a removal has taken
out stay out (`Gone`), for which nobody may be joining and removing the same object at once. For
`MediaOwner` there is in addition `Quiet`, as long as operations have not raced: an address that finds a session is that
session's address (`Latched`), which a latch keeps by taking the old entry out before it writes the new address
(`Rebinding`), and whoever is registered is a member but for the operation under way (`Listed`).

**SignallingProofs**, for any connections, users and rooms, simulcast or not, and any number of handlers:

* `SignallingTypes`: `Spec => []TypeOK`;
* `ClientsCatchUp`: `Spec => []PresentTracksExact`.

This goes beyond the run, in which each user has one connection: here several connections of one user
come and go. The invariant `SigInv` has the shape of the handlers (`Shaped`), who owns what (`Owned`: a Participant
is of the user whose connection made it, is in one place, and so are its tracks and the handlers that publish for it),
and `Heard`: a client that awaits nothing is right about each peer, or the handler of that peer has yet to announce it.
`Awaits` is the heart of it: an event in the queue, an acknowledgement owed and a resync under way all end in
a list of everything, so what the client believes meanwhile does not matter. A removal has to reach everybody who could have
the track in its list, a response has to be exact at the moment it is written.

**RtcpProofs** has three parts. Of Keyframes, for any subscribers, burst lengths and numbers of burst tasks:

* `KeyframeTypes`: `Spec => []TypeOK`: only layers the publisher has are ever asked for, with calls that overlap or not;
* `OneBurstAtATime`: `MaxCalls = 1` implies `Spec => []OneBurst`.

With calls that do not overlap (`Alone`), a call that has begun has taken the handle, and a burst under way is that of the
handle or of the call that is about to store its own. So the abort at the start of a call leaves no burst, and one exists after it.

Of RecvStats, for any widths of numbers and counters, and any stream that `RecvNetwork` admits:

* `RecvTypes`: `RecvSpec => []RecvTypeOK`;
* `ReportsExact`, `RestartsNoticed`: `RecvSpec => [](Settled => ReportExact)` and the same of `RestartNoticed`.

`RecvNetwork` is what RFC 3550 takes for granted: nothing is late by more than `MAX_MISORDER`, the losses between two arrivals
together with the reordering around them are shorter than `MAX_DROPOUT`, and a restart jumps farther than that. The invariant
`RecvInv` says that there is a newest packet that has arrived (`Reached`) and that, once the source is valid, the counters are those of
the range of packets counted (`Tallied`): the extended highest number less the first one is the number of packets between them,
although neither `cycles` nor `base_seq` says so. In the interval between a restart and its being noticed (`Limbo`) no packet
with a new number has been counted and `bad_seq` is the number after the last one, or that was number 65535
(`Waiting`). `Settled` excludes one thing: a restart that went unnoticed for so long that the new numbers have come round to the old ones.

Of Twcc, for any ring that divides the numbers, any chunk and delta sizes, and any stream that `TwccNetwork` and
`SlotMissed` admit:

* `TwccTypes`: `TwccSpec => []TwccTypeOK`;
* `FeedbackIsTrue`: `TwccSpec => []FeedbackTrue`.

Of the two together, as the run has them: `FeedbackTypes`, `FeedbackSpec => []FeedbackTypeOK`.

`TwccInv` has the window as one of packets (`Span`) and, for each slot, the newest packet of that slot that has arrived (`Ring`).
That a pending packet which arrived is found (`RingHas`) follows from the window being no longer than the ring. That one which did not is not
found (`RingLacks`) is harder: an entry with its number could only be a whole round older, and then one of the packets between the two
that share the slot would have arrived and taken the slot, or all of them were lost (`SlotMissed`). From there to the publisher
it is counting: symbol k is in chunk (k - 1) div 7 (`ChunkIndex`), and the delta of a packet is the one at its rank among the packets that
arrived (`DeltasCount`, `DeltaRead`), for which the module has the ranks in finite sets of integers (`RankTaken`,
`LeastGreatest`). The sum of the deltas is not stated as a sum: each delta takes the publisher from one arrival to the next.

**TransportProofs**, for any sessions and addresses:

* `TransportTypes`: `Spec => []TypeOK`, with or without reuse of live addresses;
* `KeysStayWithOwner`: `Spec => []KeysOfOwnClient` if live addresses are not reused;
* `DoneClientHasMedia`: `Spec => []DoneMeansMedia`, on the same condition.

The types need that a client that is there has an address and that an open task has a session (`Sound`).
Keys are installed in the session of a task, so what has to be inductive is that a task which has heard from a
client is for that client's session (`PeerIsSession`). That follows from what is said of every address
a client has: no other client has it (`OneClient`), an open task there is for that client
(`TaskIsOwner`) and so is the index entry (`IndexIsOwner`), from which a task is made when there is none. A client that takes
an address must find neither; for the index this needs that every entry is backed by a latch of a session in a
room (`IndexIsLatch`), which is what a NAT's reuse is restricted by.

`DoneMeansMedia` is about a client at its latched address, but the client may move away and be latched anew: what is
inductive is `DoneHasKeys`, which does not look at the address. A handshake that completes needs that the
task which waits for the last flight is the one the client answers (`FlightIsAssoc`), and that nobody replaces it before
it is through: `handle_stun` only makes a task where the map has no entry, so an open task must have one
(`OpenIsMapped`). The index half needs the converse of `IndexIsLatch`: a latch on a client's address is its own and
is in the index (`Latches`), or a leave of another session could take the entry away.

**Only model-checked:**

* the liveness properties: the prover has no rule for fairness here;
* `QueueOpsAsCoded`: `Retain` against `SelectSeq`, which is recursive, and `PushSorted` against a stable sort
  that counts predecessors: both are inductions on the queue.

## 5. What is not modelled, and the plan

Next, in this order:

1. NACK in PTT rooms: the PTT branch of `handle_nack_block` over floor, `reverse_seq` and the cache; property: what is
   retransmitted is the packet that was lost, or nothing.
2. Several connections of one user: `cleanup` of an old connection against the participant of a new one.
   Signalling has the steps, and `ClientsCatchUp` covers it; that the new participant stays is not stated, and a third
   connection took the run past five minutes.
3. The callers of `clear_speaker` that drop its silence frames (timer, MBCP), in a composition of PttRewriter and PttRoom.

Not modelled, and why:

* MUTE_UPDATE: one flag and one broadcast, on which nothing depends.
* Sender-report translation and jitter: they relate clocks of publishers, server and receivers.
* The loop of the egress task, the plain fan-out: they take a packet and send it; a full queue is a loss.
* IDENTIFY, HEARTBEAT, telemetry and admin messages; metrics, logs, configuration: nothing here depends on them.
* Byte formats (STUN, RTP, RTCP, MBCP, MIDs, header extensions) and cryptography.

PttRoom leaves out the PLI bursts a grant starts and the delivery of media to receivers. It treats
handle_room_leave and cleanup as one, and the join's registration in the room as one step; RoomHub has that one in detail,
and Signalling has leave and cleanup apart. In Signalling a participant publishes one video track.

## 6. Where the code and its documentation disagree

Each shown by a run:

* `floor_release_regrant`: a user waits, then asks again with a higher priority and preempts. Its queue
  entry stays (`room/floor.rs:246`). When it lets go, `_try_grant_next` gives the floor to it again.
* `ptt_leave_handover`: `handle_room_leave` switches the rewriters to the next speaker and then clears them
  (`signaling/handler/room_ops.rs:290-291`), and so does `cleanup`: the next speaker's packets pass the gate
  and go out on its own SSRC.
* `simulcast_rtx_layer`: both layers of a publisher are cached in one ring that knows only sequence numbers
  (`room/participant.rs:436`): a NACK can be answered with a packet of the other layer.

Met while modelling, and left without a run:

* `rewrite` records the virtual number of the *last* packet, not of the highest
  (`room/ptt_rewriter.rs:315`; `room/participant.rs:217` likewise). After a late packet the next speaker starts on a
  number that is already on the stream. `GapsAreLosses` and `OrderKept` are stated for what is left of that.
* An audio switch subtracts the silence frames' share of the timestamp gap also when none were sent
  (`room/ptt_rewriter.rs:146`): two speakers can follow each other on the same timestamp.
* Broadcasts of two floor handlers can be sent in the opposite order of their floor calls: FLOOR_IDLE can be the last
  news on a taken floor, until the next change (`ClientsKnowSpeaker`).
* An address that a session moved away from stays in `addr_index` (`room/room.rs:318`).
* Two overlapping calls of `spawn_pli_burst` (`transport/udp/pli.rs:41-77`) leave a burst that no handle can
  cancel: `OneBurst` is violated with `MaxCalls = 2`.
* If a NAT gives an address to another client while the DTLS task of the former one is alive, the ClientHello of the new one
  goes to the old task, and its keys into the old session: `KeysOfOwnClient` is violated with `LiveAddrReuse = TRUE`.
* `bad_seq` is not reduced to 16 bits (`transport/udp/rtcp_terminator.rs:131`): a restart on number 65535 is noticed one packet later than
  the two RFC 3550 asks for.
* A slot of the TWCC ring is cleared by nothing but the next packet of the slot (`transport/udp/twcc.rs:163-187`): when all 7 numbers
  after one that share its slot are lost, one lap after the other, and so is the next one, which has the first one's number, that one is reported
  as received. `SlotMissed` keeps the model from it.
* A restart is noticed by two packets in order. Where no two ever are, the old range stays until the new numbers have come round
  to it, and then counts them (`Settled`).
* A PLI retry asks for layer h whatever the subscriber's layer is (`transport/udp/ingress.rs:494`), and there is none after a layer switch:
  such a subscriber depends on the PLIs of its client.
