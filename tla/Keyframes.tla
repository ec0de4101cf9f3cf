------------------------------ MODULE Keyframes -----------------------------
(***************************************************************************)
(* How the subscribers of a simulcast publisher come to a key frame: the   *)
(* PLI bursts of src/transport/udp/pli.rs, the fan-out that starts them    *)
(* and retries (ingress.rs, participant.rs), SUBSCRIBE_LAYER, and the PLIs *)
(* of the subscribers, which are relayed once in 3 s.                      *)
(*                                                                         *)
(* One publisher with the layers "h" and "l", the subscribers Subs, and    *)
(* others of whom only the PLIs and the bursts they cause are there, which *)
(* get in the way of those of Subs. The ingress worker and the             *)
(* WebSocket tasks call spawn_pli_burst at the same time: its three steps  *)
(* (abort the stored burst, spawn, store the handle) interleave. PLIs and  *)
(* packets are lost, packets are also dropped at a full egress queue.      *)
(* Elapsed time is abstracted to "due or not": the 2 s of a retry, the 3 s *)
(* of the throttle.                                                        *)
(***************************************************************************)
EXTENDS Naturals, Sequences, FiniteSets

CONSTANTS
  Subs,
  FirstVideo,  \* the layer of the publisher's first video track
  BurstLen,    \* bound: PLIs of a burst (1 to 4 in the code)
  Slots,       \* bound: burst tasks there are at a time
  MaxCalls,    \* bound: calls of spawn_pli_burst at a time
  None

Layers == {"h", "l"}

ASSUME KeyframesAssumption ==
  /\ FirstVideo \in Layers
  /\ BurstLen \in Nat \ {0} /\ MaxCalls \in Nat \ {0}
  /\ None \notin Slots

VARIABLES
  ready,       \* the subscribers whose subscribe PeerConnection has keys
  layer,       \* per subscriber: rid of its SubscribeLayerEntry, "none" without one
  rewriter,    \* per subscriber: the flags of its SimulcastRewriter
  call,        \* per caller of spawn_pli_burst: layers to start bursts for, step, task
  burst,       \* the burst tasks: layer and PLIs left
  handle,      \* pli_burst_handle
  throttled,   \* last_pli_relay_ms is less than 3 s ago
  asked,       \* the layers a PLI has reached the encoder for
  intact       \* the subscribers whose decoder has what it needs

keyframeVars ==
  <<ready, layer, rewriter, call, burst, handle, throttled, asked, intact>>

\* The ingress worker of the publisher, the WebSocket tasks of Subs, and another
\* WebSocket task (of the publisher, of a subscriber outside Subs).
Callers == Subs \cup {"udp", "other"}

Idle == [todo |-> <<>>, step |-> "cancel", slot |-> None]

Ended == [layer |-> FirstVideo, left |-> 0]

\* SimulcastRewriter::new. sent is pli_sent_at: "no", "yes", or "due" after 2 s.
NewRewriter == [initialized |-> FALSE, pending_keyframe |-> FALSE, sent |-> "no"]

Init ==
  /\ ready = {}
  /\ layer = [s \in Subs |-> "none"]
  /\ rewriter = [s \in Subs |-> NewRewriter]
  /\ call = [c \in Callers |-> Idle]
  /\ burst = [i \in Slots |-> Ended]
  /\ handle = None
  /\ throttled = FALSE
  /\ asked = {}
  /\ intact = {}

IsIdle(c) == call[c].todo = <<>>

\* c can handle something that may end in spawn_pli_burst.
MayCall(c) ==
  /\ IsIdle(c)
  /\ Cardinality({d \in Callers : ~IsIdle(d)}) < MaxCalls

\* The layer of a subscriber is being sent to it, and its decoder can use it.
Served(s) ==
  /\ layer[s] \in Layers
  /\ rewriter[s].initialized /\ ~rewriter[s].pending_keyframe
  /\ s \in intact

\* A PLI for layer l leaves for the publisher, and arrives or not.
SendPli(l) == asked' = asked \cup {l} \/ UNCHANGED asked

\* Caller c goes on to start a burst for each layer of the sequence.
Burst(c, layers) == call' = [call EXCEPT ![c].todo = layers]

-----------------------------------------------------------------------------
(* pli.rs *)

CancelBurst_mut_take == handle' = None /\ UNCHANGED burst

\* cancel_pli_burst: take the handle and abort what it is of.
CancelBurst ==
  /\ handle' = None
  /\ burst' = IF handle = None THEN burst ELSE [burst EXCEPT ![handle] = Ended]

spawn_cancel(c) ==
  /\ ~IsIdle(c) /\ call[c].step = "cancel"
  /\ CancelBurst
  /\ call' = [call EXCEPT ![c].step = "spawn"]
  /\ UNCHANGED <<ready, layer, rewriter, throttled, asked, intact>>

\* A task that has ended and that no handle is of.
Free(i) == burst[i].left = 0 /\ handle # i /\ \A c \in Callers : call[c].slot # i

spawn_task(c) ==
  /\ call[c].step = "spawn"
  /\ \E i \in Slots : Free(i)
  /\ LET i == CHOOSE i \in Slots : Free(i)
     IN  /\ \E n \in 1 .. BurstLen :
              burst' = [burst EXCEPT ![i] = [layer |-> Head(call[c].todo), left |-> n]]
         /\ call' = [call EXCEPT ![c].step = "store", ![c].slot = i]
  /\ UNCHANGED <<ready, layer, rewriter, handle, throttled, asked, intact>>

\* The handle stored before is dropped, its task is not aborted.
spawn_store(c) ==
  /\ call[c].step = "store"
  /\ handle' = call[c].slot
  /\ call' = [call EXCEPT ![c] = [Idle EXCEPT !.todo = Tail(call[c].todo)]]
  /\ UNCHANGED <<ready, layer, rewriter, burst, throttled, asked, intact>>

\* One turn of the loop of a burst task.
BurstTurn(i) ==
  /\ burst[i].left > 0
  /\ burst' = [burst EXCEPT ![i] = IF @.left = 1 THEN Ended
                                   ELSE [layer |-> @.layer, left |-> @.left - 1]]
  /\ SendPli(burst[i].layer)
  /\ UNCHANGED <<ready, layer, rewriter, call, handle, throttled, intact>>

-----------------------------------------------------------------------------
(* The ingress worker: a video packet of the publisher *)

Created(s) == s \in ready /\ layer[s] = "none"

LayerThen(s) == IF Created(s) THEN "h" ELSE layer[s]

\* The packet of layer l is for s, and its rewriter lets it through.
Passes(s, l, key) ==
  /\ s \in ready /\ LayerThen(s) = l
  /\ key \/ (rewriter[s].initialized /\ ~rewriter[s].pending_keyframe)

needs_pli_retry_mut_once(s) == ~rewriter[s].initialized /\ rewriter[s].sent = "no"

needs_pli_retry(s) == ~rewriter[s].initialized /\ rewriter[s].sent # "yes"

\* The rewriter keeps the packet back, and its last PLI is old.
Retries(s, l, key) ==
  s \in ready /\ LayerThen(s) = l /\ ~Passes(s, l, key) /\ needs_pli_retry(s)

Asks(s, l, key) == Created(s) \/ Retries(s, l, key)

RewriterThen(s, l, key) ==
  LET marked == [rewriter[s] EXCEPT !.sent =
                   IF Asks(s, l, key) /\ LayerThen(s) = l THEN "yes" ELSE @]
  IN  IF Passes(s, l, key) /\ key
      THEN [marked EXCEPT !.initialized = TRUE, !.pending_keyframe = FALSE]
      ELSE marked

\* The layer a new or waiting subscriber makes the server ask for.
RetryLayer == "h"

\* A packet of layer l, a key frame or not, after a gap of 3 s or not; the
\* subscribers of `lost' do not get it (a full queue, the network).
handle_srtp(l, key, gap, lost) ==
  /\ MayCall("udp")
  /\ lost \subseteq {s \in Subs : Passes(s, l, key)}
  /\ layer' = [s \in Subs |-> LayerThen(s)]
  /\ rewriter' = [s \in Subs |-> RewriterThen(s, l, key)]
  /\ intact' = IF key THEN (intact \cup {s \in Subs : Passes(s, l, key)}) \ lost
               ELSE intact \ lost
  /\ asked' = IF key THEN asked \ {l} ELSE asked
  /\ Burst("udp", (IF gap THEN <<l>> ELSE <<>>)
                  \o (IF \E s \in Subs : Asks(s, l, key) THEN <<RetryLayer>> ELSE <<>>))
  /\ UNCHANGED <<ready, burst, handle, throttled>>

\* The key frame that would be handled now does not reach the server.
KeyframeLost(l) ==
  /\ l \in asked /\ MayCall("udp")
  /\ asked' = asked \ {l}
  /\ UNCHANGED <<ready, layer, rewriter, call, burst, handle, throttled, intact>>

-----------------------------------------------------------------------------
(* Signalling *)

\* The DTLS task of the subscriber: send_pli_to_publishers.
subscribe_ready(s) ==
  /\ s \notin ready
  /\ ready' = ready \cup {s}
  /\ SendPli(FirstVideo)
  /\ UNCHANGED <<layer, rewriter, call, burst, handle, throttled, intact>>

handle_subscribe_layer(s, rid) ==
  LET same == layer[s] = rid
      pli  == rid # "pause" /\ (same => ~rewriter[s].initialized)
  IN  /\ MayCall(s)
      /\ layer' = [layer EXCEPT ![s] = rid]
      /\ rewriter' = [rewriter EXCEPT
                        ![s].pending_keyframe = @ \/ (~same /\ rid # "pause"),
                        ![s].sent = IF pli THEN "yes" ELSE @]
      /\ Burst(s, IF pli THEN <<rid>> ELSE <<>>)
      /\ UNCHANGED <<ready, burst, handle, throttled, asked, intact>>

handle_camera_ready ==
  /\ MayCall("other")
  /\ Burst("other", <<FirstVideo>>)
  /\ UNCHANGED <<ready, layer, rewriter, burst, handle, throttled, asked, intact>>

\* SUBSCRIBE_LAYER of a subscriber outside Subs.
OtherSubscribe(l) ==
  /\ MayCall("other")
  /\ Burst("other", <<l>>)
  /\ UNCHANGED <<ready, layer, rewriter, burst, handle, throttled, asked, intact>>

-----------------------------------------------------------------------------
(* RTCP of a subscriber *)

RelayLayer_mut_first(s) == FirstVideo

RelayLayer_mut_any(s) == layer[s]

\* The layer a PLI on the virtual SSRC is for; without such a track (the layer
\* is "pause") the publisher is not found and the PLI dropped.
RelayLayer(s) == IF layer[s] \in Layers THEN layer[s] ELSE None

\* A PLI of a subscriber. Less than 3 s after another one it is dropped.
relay_subscribe_rtcp_blocks(s) ==
  /\ s \in ready
  /\ RelayLayer(s) # None
  /\ ~throttled /\ throttled' = TRUE
  /\ SendPli(RelayLayer(s))
  /\ UNCHANGED <<ready, layer, rewriter, call, burst, handle, intact>>

\* A NACK of some subscriber of layer l, at least half of which is not in the cache,
\* turns into a burst. (The next ones are ignored for 5 s: any time may be right.)
NackEscalation(l) ==
  /\ MayCall("udp")
  /\ Burst("udp", <<l>>)
  /\ UNCHANGED <<ready, layer, rewriter, burst, handle, throttled, asked, intact>>

\* The PLI of a subscriber outside Subs.
OtherPli(l) ==
  /\ ~throttled /\ throttled' = TRUE
  /\ SendPli(l)
  /\ UNCHANGED <<ready, layer, rewriter, call, burst, handle, intact>>

-----------------------------------------------------------------------------
(* Time *)

Pass3s ==
  /\ throttled /\ throttled' = FALSE
  /\ UNCHANGED <<ready, layer, rewriter, call, burst, handle, asked, intact>>

Pass2s(s) ==
  /\ rewriter[s].sent = "yes"
  /\ rewriter' = [rewriter EXCEPT ![s].sent = "due"]
  /\ UNCHANGED <<ready, layer, call, burst, handle, throttled, asked, intact>>

-----------------------------------------------------------------------------
CallStep(c) == spawn_cancel(c) \/ spawn_task(c) \/ spawn_store(c)

Next ==
  \/ \E c \in Callers : CallStep(c)
  \/ \E i \in Slots : BurstTurn(i)
  \/ \E l \in Layers : \/ \E key, gap \in BOOLEAN, lost \in SUBSET Subs :
                            handle_srtp(l, key, gap, lost)
                       \/ KeyframeLost(l)
  \/ \E s \in Subs : \/ subscribe_ready(s) \/ relay_subscribe_rtcp_blocks(s) \/ Pass2s(s)
                     \/ \E rid \in Layers \cup {"pause"} : handle_subscribe_layer(s, rid)
  \/ \E l \in Layers : OtherSubscribe(l) \/ OtherPli(l) \/ NackEscalation(l)
  \/ handle_camera_ready \/ Pass3s

Spec == Init /\ [][Next]_keyframeVars

\* Tasks run and time passes. Video packets keep coming. What the server sends
\* again and again gets through in the end: its PLIs for a layer to the publisher,
\* key frames that were asked for to the server and on to a subscriber. Nothing
\* is assumed of the PLIs of clients.
Fairness ==
  /\ \A c \in Callers : WF_keyframeVars(CallStep(c))
  /\ \A i \in Slots : WF_keyframeVars(BurstTurn(i))
  /\ WF_keyframeVars(Pass3s)
  /\ \A l \in Layers :
       SF_keyframeVars(\E i \in Slots : burst[i].layer = l /\ BurstTurn(i) /\ l \in asked')
  /\ \A s \in Subs :
       /\ WF_keyframeVars(Pass2s(s))
       /\ \A l \in Layers :
            /\ SF_keyframeVars(handle_srtp(l, FALSE, FALSE, {}))
            /\ SF_keyframeVars(\E lost \in SUBSET (Subs \ {s}) :
                                 l \in asked /\ handle_srtp(l, TRUE, FALSE, lost))

FairSpec == Spec /\ Fairness

-----------------------------------------------------------------------------
(* Properties *)

\* The state has its types; only layers of the publisher are ever asked for.
TypeOK ==
  /\ ready \subseteq Subs /\ intact \subseteq Subs
  /\ layer \in [Subs -> Layers \cup {"none", "pause"}]
  /\ rewriter \in [Subs -> [initialized: BOOLEAN, pending_keyframe: BOOLEAN,
                            sent: {"no", "yes", "due"}]]
  /\ \A c \in Callers : /\ call[c].todo \in Seq(Layers)
                        /\ call[c].step \in {"cancel", "spawn", "store"}
                        /\ call[c].slot \in Slots \cup {None}
  /\ burst \in [Slots -> [layer: Layers, left: 0 .. BurstLen]]
  /\ handle \in Slots \cup {None}
  /\ throttled \in BOOLEAN
  /\ asked \subseteq Layers

\* The client repeats its PLI while it needs a key frame, and not always in the 3 s
\* after that of another, nor is it always lost.
Insists(s) ==
  SF_keyframeVars(~Served(s) /\ relay_subscribe_rtcp_blocks(s) /\ layer[s] \in asked')

\* A subscriber that stays on a layer and whose client insists is served again and
\* again: also after its request was aborted in favour of another subscriber's, its PLI
\* was throttled on account of another's, or the key frame was lost when the
\* rewriter had already let it through.
KeyframeArrives ==
  \A s \in Subs, l \in Layers :
    <>[](s \in ready /\ layer[s] = l) /\ Insists(s) => []<>Served(s)

\* Self-healing: a subscriber that stays on layer "h" gets a first key frame with
\* no help of its client, however many PLIs and key frames are lost and bursts
\* are aborted for others. (The retries always ask for "h": a subscriber of
\* "l", or one that waits after a switch, depends on its client.)
FirstKeyframeArrives ==
  \A s \in Subs : <>[](s \in ready /\ layer[s] = "h") => <>rewriter[s].initialized

\* pli.rs:22 and 24: a burst under way is cancelled when another one is started,
\* and the stored handle can cancel it when the participant leaves. So whenever
\* nobody is in spawn_pli_burst, the only burst is the one of the handle. It
\* takes that the calls do not overlap (MaxCalls = 1).
OneBurst ==
  (\A c \in Callers : IsIdle(c)) => \A i \in Slots : burst[i].left > 0 => handle = i
=============================================================================
