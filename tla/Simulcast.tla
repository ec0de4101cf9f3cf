----------------------------- MODULE Simulcast ------------------------------
(***************************************************************************)
(* Simulcast video of one publisher for one subscriber: the layer the      *)
(* subscriber is on (SubscribeLayerEntry), the SimulcastRewriter that      *)
(* turns packets of both layers into one stream with a virtual SSRC        *)
(* (src/room/participant.rs), the fan-out (transport/udp/ingress.rs),      *)
(* SUBSCRIBE_LAYER (signaling/handler/track_ops.rs), and the RtpCache that *)
(* NACKs are answered from. The entry is behind one Mutex, taken for the   *)
(* whole of a rewrite or a layer change: both are one action.              *)
(*                                                                         *)
(* A publisher numbers the packets of each layer on its own. They arrive   *)
(* in order, get lost, or arrive late. Numbers wrap at SeqMod (2^16 in the *)
(* code) and the publisher never stops. Timestamps are rewritten by the    *)
(* same steps as sequence numbers and are left out, as is the sending of   *)
(* PLIs, which does not change what is kept here. The subscriber's media   *)
(* session is ready; a full egress queue is a loss behind the server.      *)
(***************************************************************************)
EXTENDS Integers, FiniteSets

CONSTANTS
  SeqMod,
  CacheSize,   \* RTP_CACHE_SIZE
  Window,      \* bound: a packet arrives behind at most so many later ones of its layer
  None

ASSUME SimulcastAssumption ==
  /\ SeqMod \in Nat \ {0}
  /\ CacheSize \in Nat \ {0}
  /\ Window \in Nat

Layers == {"h", "l"}
Rids   == Layers \cup {"pause"}
Seqs   == 0..SeqMod - 1

VARIABLES
  next,      \* per layer: the number of the publisher's next packet
  missing,   \* per layer: recent packets that have not arrived
  entry,     \* subscribe_layers[publisher], or None
  cache,     \* RtpCache.slots: the layer and the number of the packet in a slot
  last,      \* history: the packet forwarded last, or None
  asked,     \* history: the subscriber has changed layer since `last'
  skipped    \* history: a packet of last's layer arrived since and was not forwarded

simVars == <<next, missing, entry, cache, last, asked, skipped>>

SeqAdd_mut_nowrap(a, b) == a + b

SeqAdd(a, b) == (a + b) % SeqMod
SeqSub(a, b) == (a - b) % SeqMod

-----------------------------------------------------------------------------
(* State *)

LayerEntry ==
  [rid: Rids, seq_offset: Seqs, last_out_seq: Seqs,
   pending_keyframe: BOOLEAN, initialized: BOOLEAN]

\* History: a packet that was forwarded, with its number in its layer and its
\* virtual one.
SentPacket == [layer: Layers, seq: Seqs, out: Seqs, key: BOOLEAN, late: BOOLEAN]

ASSUME NoneAssumption == None \notin LayerEntry \cup SentPacket \cup (Layers \X Seqs)

NewEntry(rid) ==
  [rid |-> rid, seq_offset |-> 0, last_out_seq |-> 0,
   pending_keyframe |-> FALSE, initialized |-> FALSE]

Slot(q) == q % CacheSize

Init ==
  /\ next \in [Layers -> Seqs]
  /\ missing = [l \in Layers |-> {}]
  /\ entry = None
  /\ cache = [i \in 0..CacheSize - 1 |-> None]
  /\ last = None
  /\ asked = FALSE
  /\ skipped = FALSE

-----------------------------------------------------------------------------
(* SUBSCRIBE_LAYER *)

SwitchLayer_mut_none(e) == e

\* SimulcastRewriter::switch_layer
SwitchLayer(e) == [e EXCEPT !.pending_keyframe = TRUE]

\* A first request makes the entry with the requested rid; as there was no
\* rid before, it counts as a change.
handle_subscribe_layer(rid) ==
  LET e == IF entry = None THEN NewEntry(rid) ELSE entry
  IN  /\ entry' = IF entry # None /\ entry.rid = rid THEN e
                  ELSE IF rid = "pause" THEN [e EXCEPT !.rid = rid]
                  ELSE SwitchLayer([e EXCEPT !.rid = rid])
      /\ asked' = (asked \/ entry = None \/ entry.rid # rid)
      /\ UNCHANGED <<next, missing, cache, last, skipped>>

-----------------------------------------------------------------------------
(* Packets *)

\* No keyframe yet, or none yet of the new layer.
Drops(e, key) == ~key /\ (~e.initialized \/ e.pending_keyframe)

Rebased_mut_offset(e, q) ==
  IF ~e.initialized THEN [e EXCEPT !.initialized = TRUE, !.pending_keyframe = FALSE]
  ELSE IF e.pending_keyframe
  THEN [e EXCEPT !.seq_offset = SeqSub(e.last_out_seq, q), !.pending_keyframe = FALSE]
  ELSE e

\* The offset a packet with number q is rewritten with: the first keyframe
\* starts with 0, the first one after a change goes on behind the last packet.
Rebased(e, q) ==
  IF ~e.initialized THEN [e EXCEPT !.seq_offset = 0, !.initialized = TRUE,
                                   !.pending_keyframe = FALSE]
  ELSE IF e.pending_keyframe
  THEN [e EXCEPT !.seq_offset = SeqSub(SeqAdd(e.last_out_seq, 1), q),
                 !.pending_keyframe = FALSE]
  ELSE e

\* SimulcastRewriter::rewrite and try_send, for packet q of layer l. What the
\* history says of it does not look into the rewriter.
Forward(e, l, q, key, late) ==
  LET r == Rebased(e, q)
      v == SeqAdd(q, r.seq_offset)
  IN  /\ entry' = [r EXCEPT !.last_out_seq = v]
      /\ last' = [layer |-> l, seq |-> q, out |-> v, key |-> key, late |-> late]
      /\ asked' = FALSE
      /\ skipped' = FALSE

\* The subscriber gets nothing of the packet; e is its entry.
Skip(e, l) ==
  /\ entry' = e
  /\ skipped' = (skipped \/ (last # None /\ last.layer = l))
  /\ UNCHANGED <<last, asked>>

\* fanout_simulcast_video: a subscriber without an entry gets one for "h".
Fanout(l, q, key, late) ==
  LET e == IF entry = None THEN NewEntry("h") ELSE entry
  IN  IF e.rid # l \/ Drops(e, key) THEN Skip(e, l) ELSE Forward(e, l, q, key, late)

\* RtpCache::store: the slot of a number is the same for both layers.
Store(l, q) == [cache EXCEPT ![Slot(q)] = <<l, q>>]

\* A packet can still arrive while at most Window later ones have been sent.
Recent(l, qs, n) == {q \in qs : SeqSub(n, q) \in 1..Window}

\* The next packet of layer l arrives.
Arrives(l, key) ==
  /\ Fanout(l, next[l], key, FALSE)
  /\ cache' = Store(l, next[l])
  /\ next' = [next EXCEPT ![l] = SeqAdd(@, 1)]
  /\ missing' = [missing EXCEPT ![l] = Recent(l, @, next'[l])]

\* One that was overtaken arrives.
ArrivesLate(l, q, key) ==
  /\ q \in missing[l]
  /\ Fanout(l, q, key, TRUE)
  /\ cache' = Store(l, q)
  /\ missing' = [missing EXCEPT ![l] = @ \ {q}]
  /\ UNCHANGED next

\* The next packet is lost, or will be late.
Delayed(l) ==
  /\ next' = [next EXCEPT ![l] = SeqAdd(@, 1)]
  /\ missing' = [missing EXCEPT ![l] = Recent(l, @ \cup {next[l]}, next'[l])]
  /\ UNCHANGED <<entry, cache, last, asked, skipped>>

Next ==
  \/ \E rid \in Rids : handle_subscribe_layer(rid)
  \/ \E l \in Layers, key \in BOOLEAN : Arrives(l, key)
  \/ \E l \in Layers, q \in Seqs, key \in BOOLEAN : ArrivesLate(l, q, key)
  \/ \E l \in Layers : Delayed(l)

Spec == Init /\ [][Next]_simVars

-----------------------------------------------------------------------------
(* NACK: handle_nack_block, for a packet with the virtual number v *)

reverse_seq(v) == SeqSub(v, entry.seq_offset)

CacheGet_mut_unchecked(q) == cache[Slot(q)]

\* RtpCache::get, which looks at the number of the packet in the slot.
CacheGet(q) ==
  IF cache[Slot(q)] # None /\ cache[Slot(q)][2] = q THEN cache[Slot(q)] ELSE None

\* The packet that is sent as RTX, or None. Without an entry, or paused, no
\* layer's track is found and the NACK goes unanswered.
Rtx(v) ==
  IF entry = None THEN None
  ELSE IF entry.rid = "pause" THEN None ELSE CacheGet(reverse_seq(v))

-----------------------------------------------------------------------------
(* Properties *)

\* The state has its types.
TypeOK ==
  /\ next \in [Layers -> Seqs]
  /\ missing \in [Layers -> SUBSET Seqs]
  /\ entry \in LayerEntry \cup {None}
  /\ cache \in [0..CacheSize - 1 -> (Layers \X Seqs) \cup {None}]
  /\ last \in SentPacket \cup {None}
  /\ asked \in BOOLEAN
  /\ skipped \in BOOLEAN

\* While packets arrive in order, the subscriber sees a gap in the virtual
\* numbers exactly where the layer it is on has one, and none where it changed
\* layer, paused or came back, also if it changed its mind before the keyframe.
GapsAreLosses ==
  [][last' # last /\ last # None /\ ~last.late /\ ~last'.late =>
       SeqSub(last'.out, last.out) = IF asked THEN 1 % SeqMod
                                     ELSE SeqSub(last'.seq, last.seq)]_last

\* A decoder is never given a packet that refers to frames it has not got: each
\* one is a keyframe, or goes on in its layer with nothing left out by the
\* server in between.
DecodableOrKeyframe ==
  [][last' # last =>
       last'.key \/ (last # None /\ last'.layer = last.layer /\ ~skipped)]_last

\* A NACK for the packet sent last is never answered with a packet of another
\* number: not from a slot that was used again, and not by an offset that has
\* changed since.
RtxHasTheNumber ==
  last # None => Rtx(last.out) = None \/ Rtx(last.out)[2] = last.seq

\* participant.rs 422: when a subscriber sends a NACK, the packet is found in
\* the cache and sent again as RTX. The cache is shared by both layers and
\* looks at the number only, so what is sent can be a packet of the other one.
RtxIsTheLostPacket ==
  last # None => Rtx(last.out) \in {None, <<last.layer, last.seq>>}
=============================================================================
