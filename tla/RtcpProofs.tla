----------------------------- MODULE RtcpProofs -----------------------------
(***************************************************************************)
(* Proofs about the three modules of RTCP: Keyframes, for any subscribers, *)
(* burst lengths and tasks; RecvStats and Twcc, for any widths of their    *)
(* numbers and counters, any ring, and any stream their assumptions on the *)
(* network admit.                                                          *)
(***************************************************************************)
EXTENDS Keyframes, MCFeedback, FiniteSetTheorems, SequenceTheorems, TLAPS

-----------------------------------------------------------------------------
(* The types *)

CallRec == [todo: Seq(Layers), step: {"cancel", "spawn", "store"}, slot: Slots \cup {None}]

RewriterRec == [initialized: BOOLEAN, pending_keyframe: BOOLEAN, sent: {"no", "yes", "due"}]

BurstRec == [layer: Layers, left: 0 .. BurstLen]

\* TypeOK, and whoever is in the middle of spawn_pli_burst has a layer to ask for.
Typed ==
  /\ ready \subseteq Subs /\ intact \subseteq Subs
  /\ layer \in [Subs -> Layers \cup {"none", "pause"}]
  /\ rewriter \in [Subs -> RewriterRec]
  /\ call \in [Callers -> CallRec]
  /\ burst \in [Slots -> BurstRec]
  /\ handle \in Slots \cup {None}
  /\ throttled \in BOOLEAN
  /\ asked \subseteq Layers
  /\ \A c \in Callers : call[c].step # "cancel" => call[c].todo # <<>>

\* The types of the module.
LEMMA TypedMeaning == Typed => TypeOK
BY DEF Typed, TypeOK, CallRec, RewriterRec, BurstRec

\* The values handlers start from.
LEMMA StartTypes ==
  /\ Ended \in BurstRec /\ Ended.left = 0
  /\ NewRewriter \in RewriterRec
  /\ Idle \in CallRec /\ Idle.todo = <<>> /\ Idle.step = "cancel"
  /\ "h" \in Layers /\ "l" \in Layers /\ FirstVideo \in Layers
<1>1. FirstVideo \in Layers /\ 0 \in 0 .. BurstLen
  BY KeyframesAssumption
<1>2. <<>> \in Seq(Layers)
  OBVIOUS
<1> QED
  BY <1>1, <1>2 DEF Ended, BurstRec, NewRewriter, RewriterRec, Idle, CallRec, Layers

\* At first nobody has asked for anything.
LEMMA TypedInit == Init => Typed
<1> SUFFICES ASSUME Init PROVE Typed
  OBVIOUS
<1> QED
  BY StartTypes DEF Init, Typed

\* A PLI is for a layer of the publisher.
LEMMA PliTypes ==
  ASSUME Typed, NEW l \in Layers, SendPli(l)
  PROVE  asked' \subseteq Layers
BY DEF Typed, SendPli

\* A caller that was idle has layers to start bursts for.
LEMMA BurstTypes ==
  ASSUME Typed, NEW c \in Callers, IsIdle(c), NEW q \in Seq(Layers), Burst(c, q)
  PROVE  /\ call' \in [Callers -> CallRec]
         /\ call'[c] = [call[c] EXCEPT !.todo = q]
         /\ \A d \in Callers : d # c => call'[d] = call[d]
         /\ \A d \in Callers : call'[d].step = call[d].step /\ call'[d].slot = call[d].slot
         /\ call[c].step = "cancel"
         /\ \A d \in Callers : call'[d].step # "cancel" => call'[d].todo # <<>>
<1>1. call[c] \in CallRec
  BY DEF Typed
<1>2. [call[c] EXCEPT !.todo = q] \in CallRec
  BY <1>1 DEF CallRec
<1>3. call' = [call EXCEPT ![c] = [call[c] EXCEPT !.todo = q]]
  BY DEF Burst, Typed
<1>4. call' \in [Callers -> CallRec]
  BY <1>2, <1>3 DEF Typed
<1>5. call'[c] = [call[c] EXCEPT !.todo = q] /\ \A d \in Callers : d # c => call'[d] = call[d]
  BY <1>3 DEF Typed
<1>6. call'[c].step = call[c].step /\ call'[c].slot = call[c].slot
  BY <1>1, <1>5 DEF CallRec
<1>7. \A d \in Callers : call'[d].step = call[d].step /\ call'[d].slot = call[d].slot
  BY <1>5, <1>6
<1>8. call[c].step = "cancel"
  BY DEF Typed, IsIdle
<1>9. \A d \in Callers : call'[d].step # "cancel" => call'[d].todo # <<>>
  BY <1>5, <1>7, <1>8 DEF Typed
<1> QED
  BY <1>4, <1>5, <1>7, <1>8, <1>9

\* What the fan-out does to a subscriber's entry.
LEMMA FanoutTypes ==
  ASSUME Typed, NEW s \in Subs, NEW l \in Layers, NEW key \in BOOLEAN
  PROVE  /\ LayerThen(s) \in Layers \cup {"none", "pause"}
         /\ RewriterThen(s, l, key) \in RewriterRec
<1>1. LayerThen(s) \in Layers \cup {"none", "pause"}
  BY StartTypes DEF Typed, LayerThen
<1>2. rewriter[s] \in RewriterRec
  BY DEF Typed
<1> DEFINE b == Asks(s, l, key) /\ LayerThen(s) = l
           marked == [rewriter[s] EXCEPT !.sent = IF b THEN "yes" ELSE @]
<1> HIDE DEF b
<1>3. marked \in RewriterRec
  BY <1>2 DEF RewriterRec
<1> HIDE DEF marked
<1>4. [marked EXCEPT !.initialized = TRUE, !.pending_keyframe = FALSE] \in RewriterRec
  BY <1>3 DEF RewriterRec
<1>5. RewriterThen(s, l, key) = IF Passes(s, l, key) /\ key
        THEN [marked EXCEPT !.initialized = TRUE, !.pending_keyframe = FALSE] ELSE marked
  BY DEF RewriterThen, marked, b
<1> QED
  BY <1>1, <1>3, <1>4, <1>5

\* The layers a packet makes the ingress worker ask for.
LEMMA AskedFor ==
  ASSUME NEW l \in Layers, NEW gap, NEW asks
  PROVE  (IF gap THEN <<l>> ELSE <<>>) \o (IF asks THEN <<RetryLayer>> ELSE <<>>) \in Seq(Layers)
<1>1. <<l>> \in Seq(Layers) /\ <<>> \in Seq(Layers) /\ <<RetryLayer>> \in Seq(Layers)
  BY StartTypes DEF RetryLayer
<1>2. \A p, q \in Seq(Layers) : p \o q \in Seq(Layers)
  BY ConcatProperties
<1> QED
  BY <1>1, <1>2

-----------------------------------------------------------------------------
(* One burst, as long as the calls do not overlap *)

\* Nobody else calls, a call that has begun has taken the handle, and a burst
\* under way is the one of the handle or of the call that is about to store it.
Alone ==
  /\ \A c, d \in Callers : ~IsIdle(c) /\ ~IsIdle(d) => c = d
  /\ \A c \in Callers : call[c].step # "cancel" => handle = None
  /\ \A i \in Slots : burst[i].left > 0 =>
       handle = i \/ \E c \in Callers : call[c].step = "store" /\ call[c].slot = i

KInv == Typed /\ (MaxCalls = 1 => Alone)

\* The burst of the handle is the only one when nobody is in spawn_pli_burst.
LEMMA AloneMeaning == Typed /\ Alone => OneBurst
BY DEF Typed, Alone, OneBurst, IsIdle

\* Whoever may call then is the only one.
LEMMA NobodyElse ==
  ASSUME MaxCalls = 1, Alone, NEW c \in Callers, MayCall(c)
  PROVE  \A d \in Callers : IsIdle(d)
<1> DEFINE B == {d \in Callers : ~IsIdle(d)}
<1>1. \E d \in Callers : B \subseteq {d}
  <2>1. CASE B = {}
    BY <2>1
  <2>2. CASE B # {}
    BY <2>2 DEF Alone
  <2> QED
    BY <2>1, <2>2
<1>2. IsFiniteSet(B)
  BY <1>1, FS_Singleton, FS_Subset
<1>3. Cardinality(B) < 1
  BY DEF MayCall
<1>4. Cardinality(B) \in Nat
  BY <1>2, FS_CardinalityType
<1>5. Cardinality(B) = 0
  BY <1>3, <1>4
<1>6. B = {}
  BY <1>2, <1>5, FS_EmptySet
<1> QED
  BY <1>6

\* So a request that starts a call leaves it alone.
LEMMA RequestAlone ==
  ASSUME MaxCalls = 1, Typed, Alone, NEW c \in Callers, MayCall(c),
         NEW q \in Seq(Layers), Burst(c, q), UNCHANGED <<burst, handle>>
  PROVE  Alone'
<1>1. \A d \in Callers : IsIdle(d)
  BY NobodyElse
<1>2. /\ \A d \in Callers : d # c => call'[d] = call[d]
      /\ \A d \in Callers : call'[d].step = call[d].step /\ call'[d].slot = call[d].slot
  BY BurstTypes DEF MayCall
<1>3. \A d, e \in Callers : ~IsIdle(d)' /\ ~IsIdle(e)' => d = e
  BY <1>1, <1>2 DEF IsIdle
<1>4. \A d \in Callers : call'[d].step # "cancel" => handle' = None
  BY <1>2 DEF Alone
<1>5. \A i \in Slots : burst'[i].left > 0 =>
        handle' = i \/ \E d \in Callers : call'[d].step = "store" /\ call'[d].slot = i
  BY <1>2 DEF Alone
<1> QED
  BY <1>3, <1>4, <1>5 DEF Alone

\* Nor does a step that has nothing to do with the bursts change anything.
LEMMA SameAlone ==
  ASSUME Alone, UNCHANGED <<call, burst, handle>>
  PROVE  Alone'
<1>1. \A c \in Callers : IsIdle(c)' <=> IsIdle(c)
  BY DEF IsIdle
<1> QED
  BY <1>1 DEF Alone

-----------------------------------------------------------------------------
(* The steps of spawn_pli_burst and of a burst *)

\* The call aborts the burst of the handle; there is no other one.
LEMMA CancelStep ==
  ASSUME KInv, NEW c \in Callers, spawn_cancel(c)
  PROVE  KInv'
<1> USE DEF spawn_cancel, CancelBurst
<1>1. Typed
  BY DEF KInv
<1>2. call[c] \in CallRec /\ [call[c] EXCEPT !.step = "spawn"] \in CallRec
  BY <1>1 DEF Typed, CallRec
<1>3. call' = [call EXCEPT ![c] = [call[c] EXCEPT !.step = "spawn"]]
  OBVIOUS
<1>4. /\ call' \in [Callers -> CallRec]
      /\ call'[c] = [call[c] EXCEPT !.step = "spawn"]
      /\ \A d \in Callers : d # c => call'[d] = call[d]
  BY <1>1, <1>2, <1>3 DEF Typed
<1>5. call'[c].todo = call[c].todo /\ call'[c].slot = call[c].slot /\ call'[c].step = "spawn"
  BY <1>2, <1>4 DEF CallRec
<1>6. \A d \in Callers : call'[d].step # "cancel" => call'[d].todo # <<>>
  BY <1>1, <1>4, <1>5 DEF Typed, IsIdle
<1>7. /\ burst' \in [Slots -> BurstRec]
      /\ \A i \in Slots : burst'[i].left > 0 => handle # i /\ burst'[i] = burst[i]
  BY <1>1, StartTypes, KeyframesAssumption DEF Typed
<1>8. Typed'
  BY <1>1, <1>4, <1>6, <1>7 DEF Typed
<1>9. ASSUME MaxCalls = 1 PROVE Alone'
  <2>1. Alone
    BY <1>9 DEF KInv
  <2>2. \A d \in Callers : d # c => IsIdle(d)
    BY <2>1 DEF Alone
  <2>3. \A d \in Callers : d # c => call[d].step = "cancel"
    BY <1>1, <2>2 DEF Typed, IsIdle
  <2>4. \A d, e \in Callers : ~IsIdle(d)' /\ ~IsIdle(e)' => d = e
    BY <1>4, <2>2 DEF IsIdle
  <2>5. \A i \in Slots : ~(burst'[i].left > 0)
    <3> SUFFICES ASSUME NEW i \in Slots, burst'[i].left > 0 PROVE FALSE
      OBVIOUS
    <3>1. handle # i /\ burst[i].left > 0
      BY <1>7
    <3>2. PICK d \in Callers : call[d].step = "store" /\ call[d].slot = i
      BY <2>1, <3>1 DEF Alone
    <3> QED
      BY <2>3, <3>2
  <2> QED
    BY <2>4, <2>5 DEF Alone
<1> QED
  BY <1>8, <1>9 DEF KInv

\* The call spawns its task.
LEMMA SpawnStep ==
  ASSUME KInv, NEW c \in Callers, spawn_task(c)
  PROVE  KInv'
<1>1. Typed
  BY DEF KInv
<1> DEFINE k == CHOOSE k \in Slots : Free(k)
<1>2. k \in Slots
  BY DEF spawn_task
<1>3. PICK n \in 1 .. BurstLen :
        burst' = [burst EXCEPT ![k] = [layer |-> Head(call[c].todo), left |-> n]]
  BY DEF spawn_task
<1>4. /\ call' = [call EXCEPT ![c] = [call[c] EXCEPT !.step = "store", !.slot = k]]
      /\ call[c].step = "spawn"
      /\ UNCHANGED <<ready, layer, rewriter, handle, throttled, asked, intact>>
  BY DEF spawn_task
<1> HIDE DEF k
<1>5. call[c] \in CallRec /\ call[c].todo # <<>>
  BY <1>1, <1>4 DEF Typed
<1>6. [call[c] EXCEPT !.step = "store", !.slot = k] \in CallRec
  BY <1>2, <1>5 DEF CallRec
<1>7. /\ call' \in [Callers -> CallRec]
      /\ call'[c] = [call[c] EXCEPT !.step = "store", !.slot = k]
      /\ \A d \in Callers : d # c => call'[d] = call[d]
  BY <1>1, <1>4, <1>6 DEF Typed
<1>8. call'[c].todo = call[c].todo /\ call'[c].slot = k /\ call'[c].step = "store"
  BY <1>5, <1>7 DEF CallRec
<1>9. \A d \in Callers : call'[d].step # "cancel" => call'[d].todo # <<>>
  BY <1>1, <1>5, <1>7, <1>8 DEF Typed
<1>10. Head(call[c].todo) \in Layers
  <2>1. call[c].todo \in Seq(Layers)
    BY <1>5 DEF CallRec
  <2> QED
    BY <1>5, <2>1, EmptySeq, HeadTailProperties
<1>11. [layer |-> Head(call[c].todo), left |-> n] \in BurstRec
  BY <1>10, KeyframesAssumption DEF BurstRec
<1>12. /\ burst' \in [Slots -> BurstRec]
       /\ \A i \in Slots : i # k => burst'[i] = burst[i]
  BY <1>1, <1>2, <1>3, <1>11 DEF Typed
<1>13. Typed'
  BY <1>1, <1>4, <1>7, <1>9, <1>12 DEF Typed
<1>14. ASSUME MaxCalls = 1 PROVE Alone'
  <2>1. Alone
    BY <1>14 DEF KInv
  <2>2. \A d, e \in Callers : ~IsIdle(d)' /\ ~IsIdle(e)' => d = e
    <3>1. \A d \in Callers : IsIdle(d)' <=> IsIdle(d)
      BY <1>7, <1>8 DEF IsIdle
    <3> QED
      BY <2>1, <3>1 DEF Alone
  <2>3. handle = None /\ handle' = None
    BY <1>4, <2>1 DEF Alone
  <2>4. ASSUME NEW i \in Slots, burst'[i].left > 0
        PROVE  \E d \in Callers : call'[d].step = "store" /\ call'[d].slot = i
    <3>1. CASE i = k
      BY <1>8, <3>1
    <3>2. CASE i # k
      <4>1. burst[i].left > 0 /\ handle # i
        BY <1>12, <2>3, <2>4, <3>2, KeyframesAssumption
      <4>2. PICK d \in Callers : call[d].step = "store" /\ call[d].slot = i
        BY <2>1, <4>1 DEF Alone
      <4> QED
        BY <1>4, <1>7, <4>2
    <3> QED
      BY <3>1, <3>2
  <2> QED
    BY <2>2, <2>3, <2>4 DEF Alone
<1> QED
  BY <1>13, <1>14 DEF KInv

\* The call stores the handle of its task: the only one there is.
LEMMA StoreStep ==
  ASSUME KInv, NEW c \in Callers, spawn_store(c)
  PROVE  KInv'
<1> USE DEF spawn_store
<1>1. Typed
  BY DEF KInv
<1>2. call[c] \in CallRec /\ call[c].todo # <<>> /\ call[c].step = "store"
  BY <1>1 DEF Typed
<1>3. Tail(call[c].todo) \in Seq(Layers)
  <2>1. call[c].todo \in Seq(Layers)
    BY <1>2 DEF CallRec
  <2> QED
    BY <1>2, <2>1, EmptySeq, HeadTailProperties
<1> DEFINE r == [Idle EXCEPT !.todo = Tail(call[c].todo)]
<1>4. r \in CallRec /\ r.step = "cancel"
  BY <1>3, StartTypes DEF CallRec, Idle
<1> HIDE DEF r
<1>5. call' = [call EXCEPT ![c] = r]
  BY DEF r
<1>6. /\ call' \in [Callers -> CallRec]
      /\ call'[c] = r
      /\ \A d \in Callers : d # c => call'[d] = call[d]
  BY <1>1, <1>4, <1>5 DEF Typed
<1>7. \A d \in Callers : call'[d].step # "cancel" => call'[d].todo # <<>>
  BY <1>1, <1>4, <1>6 DEF Typed
<1>8. handle' \in Slots \cup {None}
  BY <1>2 DEF CallRec
<1>9. Typed'
  BY <1>1, <1>6, <1>7, <1>8 DEF Typed
<1>10. ASSUME MaxCalls = 1 PROVE Alone'
  <2>1. Alone
    BY <1>10 DEF KInv
  <2>2. \A d \in Callers : d # c => IsIdle(d)
    BY <1>2, <2>1 DEF Alone, IsIdle
  <2>3. \A d \in Callers : d # c => call[d].step = "cancel"
    BY <1>1, <2>2 DEF Typed, IsIdle
  <2>4. \A d, e \in Callers : ~IsIdle(d)' /\ ~IsIdle(e)' => d = e
    BY <1>6, <2>2 DEF IsIdle
  <2>5. \A d \in Callers : call'[d].step = "cancel"
    BY <1>4, <1>6, <2>3
  <2>6. handle = None
    BY <1>2, <2>1 DEF Alone
  <2>7. ASSUME NEW i \in Slots, burst'[i].left > 0 PROVE handle' = i
    <3>1. burst[i].left > 0 /\ handle # i
      BY <2>6, <2>7, KeyframesAssumption
    <3>2. PICK d \in Callers : call[d].step = "store" /\ call[d].slot = i
      BY <2>1, <3>1 DEF Alone
    <3> QED
      BY <2>3, <3>2
  <2> QED
    BY <2>4, <2>5, <2>7 DEF Alone
<1> QED
  BY <1>9, <1>10 DEF KInv

\* A burst sends a PLI and has one less left.
LEMMA TurnStep ==
  ASSUME KInv, NEW i \in Slots, BurstTurn(i)
  PROVE  KInv'
<1> USE DEF BurstTurn
<1>1. Typed
  BY DEF KInv
<1>2. burst[i] \in BurstRec /\ burst[i].left > 0
  BY <1>1 DEF Typed
<1> DEFINE b == IF burst[i].left = 1 THEN Ended
                ELSE [layer |-> burst[i].layer, left |-> burst[i].left - 1]
<1>3. b \in BurstRec
  <2>1. BurstLen \in Nat /\ burst[i].left \in 0 .. BurstLen
    BY <1>2, KeyframesAssumption DEF BurstRec
  <2>2. burst[i].left - 1 \in 0 .. BurstLen
    BY <1>2, <2>1
  <2> QED
    BY <1>2, <2>2, StartTypes DEF BurstRec
<1>4. burst' = [burst EXCEPT ![i] = b]
  OBVIOUS
<1> HIDE DEF b
<1>5. burst' \in [Slots -> BurstRec] /\ \A j \in Slots : j # i => burst'[j] = burst[j]
  BY <1>1, <1>3, <1>4 DEF Typed
<1>6. burst[i].layer \in Layers
  BY <1>2 DEF BurstRec
<1>7. asked' \subseteq Layers
  BY <1>1, <1>6, PliTypes
<1>8. Typed'
  BY <1>1, <1>5, <1>7 DEF Typed
<1>9. ASSUME MaxCalls = 1 PROVE Alone'
  <2>1. Alone
    BY <1>9 DEF KInv
  <2>2. \A c \in Callers : IsIdle(c)' <=> IsIdle(c)
    BY DEF IsIdle
  <2>3. \A j \in Slots : burst'[j].left > 0 => burst[j].left > 0
    BY <1>2, <1>5
  <2> QED
    BY <2>1, <2>2, <2>3 DEF Alone
<1> QED
  BY <1>8, <1>9 DEF KInv

-----------------------------------------------------------------------------
(* The other steps *)

\* A request that starts a call changes nothing of the bursts.
LEMMA RequestStep ==
  ASSUME KInv, NEW c \in Callers, MayCall(c), NEW q \in Seq(Layers), Burst(c, q),
         UNCHANGED <<burst, handle>>,
         ready' \subseteq Subs, intact' \subseteq Subs,
         layer' \in [Subs -> Layers \cup {"none", "pause"}],
         rewriter' \in [Subs -> RewriterRec],
         throttled' \in BOOLEAN, asked' \subseteq Layers
  PROVE  KInv'
<1>1. Typed
  BY DEF KInv
<1>2. /\ call' \in [Callers -> CallRec]
      /\ \A d \in Callers : call'[d].step # "cancel" => call'[d].todo # <<>>
  BY <1>1, BurstTypes DEF MayCall
<1>3. Typed'
  BY <1>1, <1>2 DEF Typed
<1>4. MaxCalls = 1 => Alone'
  BY <1>1, RequestAlone DEF KInv
<1> QED
  BY <1>3, <1>4 DEF KInv

\* Nor does what has nothing to do with the calls.
LEMMA QuietStep ==
  ASSUME KInv, UNCHANGED <<call, burst, handle>>,
         ready' \subseteq Subs, intact' \subseteq Subs,
         layer' \in [Subs -> Layers \cup {"none", "pause"}],
         rewriter' \in [Subs -> RewriterRec],
         throttled' \in BOOLEAN, asked' \subseteq Layers
  PROVE  KInv'
<1>1. Typed'
  BY DEF KInv, Typed
<1>2. MaxCalls = 1 => Alone'
  BY SameAlone DEF KInv
<1> QED
  BY <1>1, <1>2 DEF KInv

\* A packet of the publisher.
LEMMA PacketStep ==
  ASSUME KInv, NEW l \in Layers, NEW key \in BOOLEAN, NEW gap \in BOOLEAN,
         NEW lost \in SUBSET Subs, handle_srtp(l, key, gap, lost)
  PROVE  KInv'
<1>1. Typed
  BY DEF KInv
<1> DEFINE q == (IF gap THEN <<l>> ELSE <<>>)
                \o (IF \E s \in Subs : Asks(s, l, key) THEN <<RetryLayer>> ELSE <<>>)
<1>2. q \in Seq(Layers)
  BY AskedFor
<1>3. Burst("udp", q) /\ MayCall("udp")
  BY DEF handle_srtp
<1> HIDE DEF q
<1>4. "udp" \in Callers
  BY DEF Callers
<1>5. layer' \in [Subs -> Layers \cup {"none", "pause"}]
  BY <1>1, FanoutTypes DEF handle_srtp
<1>6. rewriter' \in [Subs -> RewriterRec]
  BY <1>1, FanoutTypes DEF handle_srtp
<1>7. /\ ready' \subseteq Subs /\ throttled' \in BOOLEAN
      /\ UNCHANGED <<burst, handle>>
  BY <1>1 DEF handle_srtp, Typed
<1>8. intact' \subseteq Subs
  BY <1>1 DEF handle_srtp, Typed
<1>9. asked' \subseteq Layers
  BY <1>1 DEF handle_srtp, Typed
<1> QED
  BY <1>2, <1>3, <1>4, <1>5, <1>6, <1>7, <1>8, <1>9, RequestStep

\* SUBSCRIBE_LAYER of a subscriber.
LEMMA SubscribeStep ==
  ASSUME KInv, NEW s \in Subs, NEW rid \in Layers \cup {"pause"},
         handle_subscribe_layer(s, rid)
  PROVE  KInv'
<1>1. Typed
  BY DEF KInv
<1> DEFINE same == layer[s] = rid
           pli  == rid # "pause" /\ (same => ~rewriter[s].initialized)
           q    == IF pli THEN <<rid>> ELSE <<>>
           p    == rewriter[s].pending_keyframe \/ (~same /\ rid # "pause")
           r    == [rewriter[s] EXCEPT !.pending_keyframe = p,
                                       !.sent = IF pli THEN "yes" ELSE @]
<1>2. q \in Seq(Layers)
  <2>1. pli => rid \in Layers
    OBVIOUS
  <2> QED
    BY <2>1
<1>3. rewriter' = [rewriter EXCEPT ![s] = r]
  BY DEF handle_subscribe_layer
<1>4. Burst(s, q) /\ MayCall(s)
  BY DEF handle_subscribe_layer
<1>5. rewriter[s] \in RewriterRec
  BY <1>1 DEF Typed
<1>6. p \in BOOLEAN
  BY <1>5 DEF RewriterRec
<1> HIDE DEF same, pli, q, p
<1>7. r \in RewriterRec
  BY <1>5, <1>6 DEF RewriterRec
<1> HIDE DEF r
<1>8. rewriter' \in [Subs -> RewriterRec]
  BY <1>1, <1>3, <1>7 DEF Typed
<1>9. layer' \in [Subs -> Layers \cup {"none", "pause"}]
  BY <1>1 DEF handle_subscribe_layer, Typed
<1>10. UNCHANGED <<ready, burst, handle, throttled, asked, intact>>
  BY DEF handle_subscribe_layer
<1>11. /\ ready' \subseteq Subs /\ intact' \subseteq Subs
       /\ throttled' \in BOOLEAN /\ asked' \subseteq Layers
  BY <1>1, <1>10 DEF Typed
<1>12. s \in Callers
  BY DEF Callers
<1> QED
  BY <1>2, <1>4, <1>8, <1>9, <1>10, <1>11, <1>12, RequestStep

\* A request that does nothing but start a burst for layer l.
LEMMA AskStep ==
  ASSUME KInv, NEW c \in Callers, MayCall(c), NEW l \in Layers, Burst(c, <<l>>),
         UNCHANGED <<ready, layer, rewriter, burst, handle, throttled, asked, intact>>
  PROVE  KInv'
<1>1. <<l>> \in Seq(Layers)
  OBVIOUS
<1> QED
  BY <1>1, RequestStep DEF KInv, Typed

\* A PLI that starts no call.
LEMMA PliStep ==
  ASSUME KInv, NEW l \in Layers, SendPli(l), ready' \subseteq Subs, throttled' \in BOOLEAN,
         UNCHANGED <<layer, rewriter, call, burst, handle, intact>>
  PROVE  KInv'
<1>1. asked' \subseteq Layers
  BY PliTypes DEF KInv
<1> QED
  BY <1>1, QuietStep DEF KInv, Typed

-----------------------------------------------------------------------------
(* The invariant *)

\* At first there is no call and no burst.
LEMMA KInit == Init => KInv
<1> SUFFICES ASSUME Init PROVE KInv
  OBVIOUS
<1>1. Typed
  BY TypedInit
<1>2. \A c \in Callers : call[c] = Idle
  BY DEF Init
<1>3. \A i \in Slots : burst[i].left = 0
  BY StartTypes DEF Init
<1>4. Alone
  BY <1>2, <1>3, StartTypes DEF Alone, IsIdle
<1> QED
  BY <1>1, <1>4 DEF KInv

\* Every step keeps it.
LEMMA KStep == KInv /\ [Next]_keyframeVars => KInv'
<1> SUFFICES ASSUME KInv, [Next]_keyframeVars PROVE KInv'
  OBVIOUS
<1>t. /\ ready \subseteq Subs /\ intact \subseteq Subs
      /\ layer \in [Subs -> Layers \cup {"none", "pause"}]
      /\ rewriter \in [Subs -> RewriterRec]
      /\ throttled \in BOOLEAN /\ asked \subseteq Layers
  BY DEF KInv, Typed
<1>1. ASSUME NEW c \in Callers, CallStep(c) PROVE KInv'
  BY <1>1, CancelStep, SpawnStep, StoreStep DEF CallStep
<1>2. ASSUME NEW i \in Slots, BurstTurn(i) PROVE KInv'
  BY <1>2, TurnStep
<1>3. ASSUME NEW l \in Layers, NEW key \in BOOLEAN, NEW gap \in BOOLEAN,
             NEW lost \in SUBSET Subs, handle_srtp(l, key, gap, lost)
      PROVE  KInv'
  BY <1>3, PacketStep
<1>4. ASSUME NEW l \in Layers, KeyframeLost(l) PROVE KInv'
  <2>1. asked' \subseteq Layers
    BY <1>t, <1>4 DEF KeyframeLost
  <2> QED
    BY <1>t, <1>4, <2>1, QuietStep DEF KeyframeLost
<1>5. ASSUME NEW s \in Subs, subscribe_ready(s) PROVE KInv'
  <2>1. ready' \subseteq Subs
    BY <1>t, <1>5 DEF subscribe_ready
  <2>2. FirstVideo \in Layers
    BY KeyframesAssumption
  <2> QED
    BY <1>t, <1>5, <2>1, <2>2, PliStep DEF subscribe_ready
<1>6. ASSUME NEW s \in Subs, relay_subscribe_rtcp_blocks(s) PROVE KInv'
  <2>1. RelayLayer(s) \in Layers
    BY <1>6 DEF relay_subscribe_rtcp_blocks, RelayLayer
  <2> QED
    BY <1>t, <1>6, <2>1, PliStep DEF relay_subscribe_rtcp_blocks
<1>7. ASSUME NEW s \in Subs, Pass2s(s) PROVE KInv'
  <2>1. rewriter[s] \in RewriterRec
    BY <1>t
  <2>2. [rewriter[s] EXCEPT !.sent = "due"] \in RewriterRec
    BY <2>1 DEF RewriterRec
  <2>3. rewriter' = [rewriter EXCEPT ![s] = [rewriter[s] EXCEPT !.sent = "due"]]
    BY <1>7 DEF Pass2s
  <2>4. rewriter' \in [Subs -> RewriterRec]
    BY <1>t, <2>2, <2>3
  <2> QED
    BY <1>t, <1>7, <2>4, QuietStep DEF Pass2s
<1>8. ASSUME NEW s \in Subs, NEW rid \in Layers \cup {"pause"}, handle_subscribe_layer(s, rid)
      PROVE  KInv'
  BY <1>8, SubscribeStep
<1>9. "udp" \in Callers /\ "other" \in Callers /\ FirstVideo \in Layers
  BY KeyframesAssumption DEF Callers
<1>10. ASSUME NEW l \in Layers, OtherSubscribe(l) PROVE KInv'
  BY <1>9, <1>10, AskStep DEF OtherSubscribe
<1>11. ASSUME NEW l \in Layers, OtherPli(l) PROVE KInv'
  BY <1>t, <1>11, PliStep DEF OtherPli
<1>12. ASSUME NEW l \in Layers, NackEscalation(l) PROVE KInv'
  BY <1>9, <1>12, AskStep DEF NackEscalation
<1>13. ASSUME handle_camera_ready PROVE KInv'
  BY <1>9, <1>13, AskStep DEF handle_camera_ready
<1>14. ASSUME Pass3s PROVE KInv'
  BY <1>t, <1>14, QuietStep DEF Pass3s
<1>15. ASSUME UNCHANGED keyframeVars PROVE KInv'
  BY <1>t, <1>15, QuietStep DEF keyframeVars
<1> QED
  BY <1>1, <1>2, <1>3, <1>4, <1>5, <1>6, <1>7, <1>8, <1>10, <1>11, <1>12, <1>13, <1>14, <1>15
  DEF Next

\* The invariant holds in every state of every behaviour.
THEOREM KeyframeInvariant == Spec => []KInv
<1> QED
  BY KInit, KStep, PTL DEF Spec

\* The state keeps its types: a burst, a retry or a relayed PLI only ever asks for
\* a layer the publisher has.
THEOREM KeyframeTypes == Spec => []TypeOK
<1> QED
  BY KeyframeInvariant, TypedMeaning, PTL DEF KInv

\* When the calls of spawn_pli_burst do not overlap, there is at most one burst, and
\* its handle is stored, whenever nobody is starting one: so the abort at the next
\* request, or when the participant leaves, misses none.
THEOREM OneBurstAtATime ==
  ASSUME MaxCalls = 1
  PROVE  Spec => []OneBurst
<1>1. KInv => OneBurst
  BY AloneMeaning DEF KInv
<1> QED
  BY <1>1, KeyframeInvariant, PTL

-----------------------------------------------------------------------------
(* Numbers that wrap *)

\* A multiple of the modulus that is smaller than it is zero.
LEMMA SmallMultiple ==
  ASSUME NEW m \in Nat \ {0}, NEW k \in Int, -m < m * k, m * k < m
  PROVE  k = 0
<1>1. k >= 1 => m * k >= m
  OBVIOUS
<1>2. k <= -1 => m * k <= -m
  OBVIOUS
<1> QED
  BY <1>1, <1>2

\* Division with remainder.
LEMMA DivMod ==
  ASSUME NEW m \in Nat \ {0}, NEW x \in Int
  PROVE  /\ x % m \in 0..m - 1
         /\ \E d \in Int : x = m * d + (x % m)
<1>1. x % m \in 0..m - 1
  OBVIOUS
<1>2. m \in Nat /\ m > 0
  OBVIOUS
<1>3. \E d \in Int : x = m * d + (x % m)
  BY <1>2
<1> QED
  BY <1>1, <1>3

\* The remainder is the only number in range that differs by a multiple.
LEMMA RemainderUnique ==
  ASSUME NEW m \in Nat \ {0}, NEW x \in Int, NEW k \in Int, NEW r \in 0..m - 1,
         x = m * k + r
  PROVE  x % m = r
<1> DEFINE z == x % m
<1>0. z \in 0..m - 1 /\ \E d \in Int : x = m * d + z
  BY DivMod
<1> HIDE DEF z
<1>1. PICK d \in Int : z \in 0..m - 1 /\ x = m * d + z
  BY <1>0
<1>2. m * (k - d) = z - r
  <2>1. m * (k - d) = m * k - m * d
    BY <1>1
  <2>2. m * k \in Int /\ m * d \in Int
    BY <1>1
  <2> QED
    BY <1>1, <2>1, <2>2
<1>3. k - d \in Int /\ -m < z - r /\ z - r < m
  BY <1>1
<1>4. k - d = 0
  BY <1>2, <1>3, SmallMultiple
<1>5. m * k = m * d
  BY <1>1, <1>4
<1>6. z = r
  <2>1. m * d \in Int
    BY <1>1
  <2> QED
    BY <1>1, <1>5, <2>1
<1> QED
  BY <1>6 DEF z

\* Adding a multiple of the modulus changes nothing.
LEMMA RemainderShift ==
  ASSUME NEW m \in Nat \ {0}, NEW x \in Int, NEW k \in Int
  PROVE  (x + m * k) % m = x % m
<1> DEFINE z == x % m
<1>0. z \in 0..m - 1 /\ \E d \in Int : x = m * d + z
  BY DivMod
<1> HIDE DEF z
<1>1. PICK d \in Int : z \in 0..m - 1 /\ x = m * d + z
  BY <1>0
<1>2. m * k \in Int /\ m * d \in Int /\ m * (d + k) = m * d + m * k
  BY <1>1
<1>3. x + m * k = m * (d + k) + z
  BY <1>1, <1>2
<1>4. x + m * k \in Int /\ d + k \in Int
  BY <1>1, <1>2
<1>5. (x + m * k) % m = z
  BY <1>1, <1>3, <1>4, RemainderUnique
<1> QED
  BY <1>5 DEF z

\* A number in range is its own remainder.
LEMMA RemainderSmall ==
  ASSUME NEW m \in Nat \ {0}, NEW x \in 0..m - 1
  PROVE  x % m = x
<1>1. x = m * 0 + x
  OBVIOUS
<1> QED
  BY <1>1, RemainderUnique

\* Remainders may be taken early: in a sum and in a difference.
LEMMA RemainderInside ==
  ASSUME NEW m \in Nat \ {0}, NEW x \in Int, NEW y \in Int
  PROVE  /\ ((x % m) + y) % m = (x + y) % m
         /\ (y - (x % m)) % m = (y - x) % m
<1> DEFINE z == x % m
<1>0. z \in 0..m - 1 /\ \E d \in Int : x = m * d + z
  BY DivMod
<1> HIDE DEF z
<1>1. PICK d \in Int : z \in 0..m - 1 /\ x = m * d + z
  BY <1>0
<1>2. m * d \in Int /\ m * (-d) \in Int /\ m * (-d) = -(m * d)
  BY <1>1
<1>3. z \in Int /\ z + y \in Int /\ y - x \in Int
  BY <1>1
<1>4. x + y = (z + y) + m * d /\ y - z = (y - x) + m * d
  BY <1>1, <1>2
<1>5. (x + y) % m = (z + y) % m
  <2>1. ((z + y) + m * d) % m = (z + y) % m
    BY <1>3, RemainderShift
  <2> QED
    BY <1>4, <2>1
<1>6. (y - z) % m = (y - x) % m
  <2>1. ((y - x) + m * d) % m = (y - x) % m
    BY <1>3, RemainderShift
  <2> QED
    BY <1>4, <2>1
<1> QED
  BY <1>5, <1>6 DEF z

\* A number less than a modulus further: its remainder, and the distance to it.
LEMMA RemainderNear ==
  ASSUME NEW m \in Nat \ {0}, NEW x \in Int, NEW d \in 0..m - 1
  PROVE  /\ (x + d) % m = IF (x % m) + d < m THEN (x % m) + d ELSE (x % m) + d - m
         /\ (((x + d) % m) - (x % m)) % m = d
<1> DEFINE z == x % m
<1>1. z \in 0..m - 1
  BY DivMod
<1>2. (x + d) % m = (z + d) % m
  <2>1. d \in Int
    OBVIOUS
  <2> QED
    BY <2>1, RemainderInside
<1> HIDE DEF z
<1>3. (z + d) % m = IF z + d < m THEN z + d ELSE z + d - m
  BY <1>1
<1> DEFINE u == (z + d) % m
<1>4. u \in 0..m - 1 /\ (u = z + d \/ u = z + d - m)
  BY <1>1, <1>3
<1> HIDE DEF u
<1>5. (u - z) % m = d
  <2>1. u - z = d \/ u - z = d - m
    BY <1>1, <1>4
  <2> QED
    BY <2>1
<1> QED
  BY <1>2, <1>3, <1>5 DEF z, u

\* The distance back.
LEMMA RemainderBack ==
  ASSUME NEW m \in Nat \ {0}, NEW x \in Int, NEW d \in 1..m - 1
  PROVE  ((x % m) - ((x + d) % m)) % m = m - d
<1> DEFINE z == x % m
           u == (x + d) % m
<1>1. z \in 0..m - 1 /\ x + d \in Int
  BY DivMod
<1>2. u \in 0..m - 1
  BY <1>1, DivMod
<1>3. u = IF z + d < m THEN z + d ELSE z + d - m
  <2>1. d \in 0..m - 1
    OBVIOUS
  <2> QED
    BY <2>1, RemainderNear
<1> HIDE DEF z, u
<1>4. z - u = -d \/ z - u = m - d
  BY <1>1, <1>2, <1>3
<1>5. (z - u) % m = m - d
  BY <1>4
<1> QED
  BY <1>5 DEF z, u

-----------------------------------------------------------------------------
(* RecvStats: the types *)

Seqs == 0 .. SeqMod - 1

U32 == 0 .. Mod32 - 1

StatsRec ==
  [initialized: BOOLEAN, probation: 0 .. MinSequential, max_seq: Seqs, cycles: Nat,
   base_seq: Seqs, bad_seq: 0 .. SeqMod, received: Nat, expected_prior: U32,
   received_prior: U32]

TruthRec ==
  [first: Nat, top: Nat, seen: Nat, stray: Nat, expected: Int, got: Nat, row: Nat,
   last: Nat \cup {-1}]

\* init_seq was called with number seq, and its packet counted.
Begun(st, seq) ==
  /\ st.initialized /\ st.probation = 0
  /\ st.base_seq = seq /\ st.max_seq = seq /\ st.cycles = 0 /\ st.received = 1
  /\ st.expected_prior = 0 /\ st.received_prior = 0

\* RecvTypeOK, and no packet is counted that did not arrive.
RecvTyped ==
  /\ stats \in StatsRec /\ stats.cycles % SeqMod = 0
  /\ truth \in TruthRec /\ jump \in [at: Nat, by: Nat]
  /\ rsent \in 0 .. MaxSent /\ rflight \subseteq 0 .. rsent - 1 /\ rlost \subseteq 0 .. rsent - 1
  /\ stats.received + Cardinality(rflight) <= rsent

\* The constants as numbers.
LEMMA RecvNumbers ==
  /\ SeqMod \in Nat /\ SeqMod > 1 /\ Mod32 \in Nat /\ Mod32 > 0
  /\ MinSequential \in Nat /\ MinSequential > 1
  /\ MaxDropout \in Nat /\ MaxMisorder \in Nat /\ MaxCumLost \in Nat /\ FirstSeq \in Seqs
  /\ MaxSent \in Nat /\ MaxSent < Mod32 /\ MaxLost \in Nat /\ MaxLate \in Nat
BY RecvAssumption DEF Seqs

\* A sequence number is one.
LEMMA SeqType ==
  ASSUME jump \in [at: Nat, by: Nat], NEW n \in Nat
  PROVE  SeqOf(n) \in Seqs
<1> DEFINE k == FirstSeq + n + (IF jump.by # 0 /\ n >= jump.at THEN jump.by ELSE 0)
<1>1. k \in Nat
  BY RecvNumbers DEF Seqs
<1>2. SeqOf(n) = k % SeqMod
  BY DEF SeqOf
<1> HIDE DEF k
<1> QED
  BY <1>1, <1>2, RecvNumbers DEF Seqs

\* A wrap more is still a multiple of the modulus.
LEMMA OneCycleMore ==
  ASSUME NEW c \in Nat, c % SeqMod = 0
  PROVE  (c + SeqMod) % SeqMod = 0
<1>0. SeqMod \in Nat \ {0} /\ c \in Int /\ 1 \in Int
  BY RecvNumbers
<1>1. (c + SeqMod * 1) % SeqMod = c % SeqMod
  BY <1>0, RemainderShift
<1> QED
  BY <1>1, RecvNumbers

\* What init_seq and the count of its packet give.
LEMMA InitSeq ==
  ASSUME NEW st \in StatsRec, NEW seq \in Seqs
  PROVE  LET u == Counted(init_seq(st, seq))
         IN  /\ u \in StatsRec /\ u.cycles = 0 /\ u.received = 1
             /\ u.base_seq = seq /\ u.max_seq = seq
             /\ u.expected_prior = 0 /\ u.received_prior = 0
             /\ u.initialized = st.initialized /\ u.probation = st.probation
<1> DEFINE v == init_seq(st, seq)
<1>1. 0 \in U32 /\ seq + 1 \in 0 .. SeqMod
  BY RecvNumbers DEF U32, Seqs
<1>2. v \in StatsRec
  BY <1>1 DEF init_seq, StatsRec
<1>3. /\ v.cycles = 0 /\ v.received = 0 /\ v.base_seq = seq /\ v.max_seq = seq
      /\ v.expected_prior = 0 /\ v.received_prior = 0 /\ v.probation = st.probation
  BY <1>1 DEF init_seq, StatsRec
<1>4. v.initialized = st.initialized
  BY DEF init_seq, StatsRec
<1> HIDE DEF v
<1>5. Counted(v) \in StatsRec
  BY <1>2, <1>3 DEF Counted, StatsRec
<1> QED
  BY <1>2, <1>3, <1>4, <1>5 DEF Counted, StatsRec, v

\* A packet is counted.
LEMMA CountedFields ==
  ASSUME NEW st \in StatsRec
  PROVE  LET u == Counted(st)
         IN  /\ u \in StatsRec /\ u.received = st.received + 1
             /\ u.initialized = st.initialized /\ u.probation = st.probation
             /\ u.max_seq = st.max_seq /\ u.base_seq = st.base_seq /\ u.cycles = st.cycles
             /\ u.expected_prior = st.expected_prior /\ u.received_prior = st.received_prior
BY DEF Counted, StatsRec

\* The first packet begins the probation.
LEMMA UpdateFirst ==
  ASSUME NEW st \in StatsRec, NEW seq \in Seqs, ~st.initialized
  PROVE  LET u == update(st, seq)
         IN  /\ u \in StatsRec /\ u.cycles = 0 /\ u.received = 1
             /\ u.initialized /\ u.probation > 0 /\ u.max_seq = seq
<1> DEFINE v == init_seq(st, seq)
           w == [v EXCEPT !.initialized = TRUE, !.probation = MinSequential - 1]
<1>1. 0 \in U32 /\ seq + 1 \in 0 .. SeqMod
  BY RecvNumbers DEF U32, Seqs
<1>2. v \in StatsRec
  BY <1>1 DEF init_seq, StatsRec
<1>3. v.cycles = 0 /\ v.received = 0 /\ v.max_seq = seq
  BY <1>1 DEF init_seq, StatsRec
<1> HIDE DEF v
<1>4. MinSequential - 1 \in 0 .. MinSequential /\ MinSequential - 1 > 0
  BY RecvNumbers
<1>5. w \in StatsRec /\ w.initialized /\ w.probation > 0
  BY <1>2, <1>4 DEF StatsRec
<1>6. w.cycles = 0 /\ w.received = 0 /\ w.max_seq = seq
  BY <1>2, <1>3 DEF StatsRec
<1>7. update(st, seq) = Counted(w)
  BY DEF update, v
<1> HIDE DEF w
<1> QED
  BY <1>5, <1>6, <1>7, CountedFields

\* In probation a packet is counted, or it ends it.
LEMMA UpdateInProbation ==
  ASSUME NEW st \in StatsRec, NEW seq \in Seqs, st.initialized, st.probation > 0
  PROVE  LET u == update(st, seq)
         IN  /\ u \in StatsRec /\ u.initialized
             /\ \/ u.probation > 0 /\ u.received = st.received + 1 /\ u.cycles = st.cycles
                \/ Begun(u, seq) /\ u.max_seq # st.max_seq
<1>1. update(st, seq) = UpdateProbation(st, seq)
  BY DEF update
<1>2. CASE ~Follows(st, seq) \/ st.probation # 1
  <2> DEFINE p == IF ~Follows(st, seq) THEN MinSequential - 1 ELSE st.probation - 1
             v == [st EXCEPT !.probation = p, !.max_seq = seq]
  <2>1. p \in 0 .. MinSequential /\ p > 0
    BY <1>2, RecvNumbers DEF StatsRec
  <2>2. update(st, seq) = Counted(v)
    BY <1>1, <1>2 DEF UpdateProbation, StatsRec
  <2> HIDE DEF p
  <2>3. v \in StatsRec /\ v.initialized
    BY <2>1 DEF StatsRec
  <2>4. v.probation > 0 /\ v.received = st.received /\ v.cycles = st.cycles
    BY <2>1 DEF StatsRec
  <2> HIDE DEF v
  <2> QED
    BY <2>2, <2>3, <2>4, CountedFields
<1>3. CASE Follows(st, seq) /\ st.probation = 1
  <2> DEFINE v == [st EXCEPT !.probation = 0]
  <2>1. update(st, seq) = Counted(init_seq(v, seq))
    BY <1>1, <1>3 DEF UpdateProbation
  <2>2. v \in StatsRec /\ v.probation = 0 /\ v.initialized
    BY RecvNumbers DEF StatsRec
  <2> HIDE DEF v
  <2>3. Begun(update(st, seq), seq) /\ update(st, seq) \in StatsRec
    BY <2>1, <2>2, InitSeq DEF Begun
  <2>4. seq # st.max_seq
    <3>1. st.max_seq \in Seqs /\ seq = (st.max_seq + 1) % SeqMod
      BY <1>3 DEF Follows, StatsRec
    <3> QED
      BY <3>1, RecvNumbers DEF Seqs
  <2> QED
    BY <2>3, <2>4 DEF Begun
<1> QED
  BY <1>2, <1>3

\* How far a packet is ahead of the newest one, wrapping.
Ahead(st, seq) == (seq - st.max_seq) % SeqMod

\* What a packet leaves alone that does not begin anything.
SameRange(st, u) ==
  /\ u.base_seq = st.base_seq
  /\ u.expected_prior = st.expected_prior /\ u.received_prior = st.received_prior

\* For a valid stream a packet goes on in order, is late, or is of other numbers.
LEMMA UpdateOfValid ==
  ASSUME NEW st \in StatsRec, NEW seq \in Seqs, st.initialized, st.probation = 0
  PROVE  LET u == update(st, seq)
         IN  /\ u \in StatsRec /\ u.initialized /\ u.probation = 0
             /\ \/ /\ Ahead(st, seq) < MaxDropout
                   /\ SameRange(st, u) /\ u.received = st.received + 1
                   /\ u.cycles = IF seq < st.max_seq THEN st.cycles + SeqMod ELSE st.cycles
                   /\ u.max_seq = seq
                \/ /\ Ahead(st, seq) >= MaxDropout /\ Ahead(st, seq) > SeqMod - 1 - MaxMisorder
                   /\ SameRange(st, u) /\ u.received = st.received + 1
                   /\ u.cycles = st.cycles /\ u.max_seq = st.max_seq
                \/ /\ Ahead(st, seq) >= MaxDropout /\ Ahead(st, seq) <= SeqMod - 1 - MaxMisorder
                   /\ seq = st.bad_seq /\ Begun(u, seq)
                \/ /\ Ahead(st, seq) >= MaxDropout /\ Ahead(st, seq) <= SeqMod - 1 - MaxMisorder
                   /\ seq # st.bad_seq /\ u.bad_seq = seq + 1
                   /\ SameRange(st, u) /\ u.received = st.received
                   /\ u.cycles = st.cycles /\ u.max_seq = st.max_seq
<1>1. update(st, seq) = UpdateValid(st, seq)
  BY DEF update
<1>2. Ahead(st, seq) \in Int
  BY RecvNumbers DEF Ahead, Seqs, StatsRec
<1>3. CASE Ahead(st, seq) < MaxDropout
  <2> DEFINE c == IF seq < st.max_seq THEN st.cycles + SeqMod ELSE st.cycles
             v == [st EXCEPT !.cycles = c, !.max_seq = seq]
  <2>1. update(st, seq) = Counted(v)
    BY <1>1, <1>3 DEF UpdateValid, Ahead, StatsRec
  <2>2. c \in Nat
    BY RecvNumbers DEF StatsRec
  <2> HIDE DEF c
  <2>3. v \in StatsRec /\ v.initialized
    BY <2>2 DEF StatsRec
  <2>4. SameRange(st, v) /\ v.cycles = c /\ v.max_seq = seq /\ v.received = st.received
        /\ v.probation = 0
    BY <2>2 DEF StatsRec, SameRange
  <2> HIDE DEF v
  <2>5. /\ update(st, seq) \in StatsRec /\ update(st, seq).initialized
        /\ update(st, seq).probation = 0
    BY <2>1, <2>3, <2>4, CountedFields
  <2>6. /\ SameRange(st, update(st, seq)) /\ update(st, seq).received = st.received + 1
        /\ update(st, seq).cycles = c /\ update(st, seq).max_seq = seq
    BY <2>1, <2>3, <2>4, CountedFields DEF SameRange
  <2> QED
    BY <1>3, <2>5, <2>6 DEF c
<1>4. CASE Ahead(st, seq) >= MaxDropout /\ Ahead(st, seq) > SeqMod - 1 - MaxMisorder
  <2>1. update(st, seq) = Counted(st)
    BY <1>1, <1>2, <1>4, RecvNumbers DEF UpdateValid, Ahead
  <2>2. /\ update(st, seq) \in StatsRec /\ update(st, seq).initialized
        /\ update(st, seq).probation = 0
    BY <2>1, CountedFields
  <2>3. /\ SameRange(st, update(st, seq)) /\ update(st, seq).received = st.received + 1
        /\ update(st, seq).cycles = st.cycles /\ update(st, seq).max_seq = st.max_seq
    BY <2>1, CountedFields DEF SameRange
  <2> QED
    BY <1>4, <2>2, <2>3
<1>5. CASE Ahead(st, seq) >= MaxDropout /\ Ahead(st, seq) <= SeqMod - 1 - MaxMisorder
  <2>1. update(st, seq) = IF seq = st.bad_seq THEN Counted(init_seq(st, seq))
                          ELSE [st EXCEPT !.bad_seq = seq + 1]
    BY <1>1, <1>2, <1>5, RecvNumbers DEF UpdateValid, Ahead, IsBad
  <2>2. CASE seq = st.bad_seq
    <3>1. update(st, seq) = Counted(init_seq(st, seq))
      BY <2>1, <2>2
    <3>2. Begun(update(st, seq), seq) /\ update(st, seq) \in StatsRec
      BY <3>1, InitSeq DEF Begun
    <3> QED
      BY <1>5, <2>2, <3>2 DEF Begun
  <2>3. CASE seq # st.bad_seq
    <3>1. update(st, seq) = [st EXCEPT !.bad_seq = seq + 1]
      BY <2>1, <2>3
    <3>2. seq + 1 \in 0 .. SeqMod
      BY RecvNumbers DEF Seqs
    <3>3. update(st, seq) \in StatsRec /\ update(st, seq).initialized
      BY <3>1, <3>2 DEF StatsRec
    <3>4. /\ SameRange(st, update(st, seq)) /\ update(st, seq).received = st.received
          /\ update(st, seq).cycles = st.cycles /\ update(st, seq).max_seq = st.max_seq
          /\ update(st, seq).bad_seq = seq + 1 /\ update(st, seq).probation = 0
      BY <3>1, <3>2 DEF StatsRec, SameRange
    <3> QED
      BY <1>5, <2>3, <3>3, <3>4
  <2> QED
    BY <2>2, <2>3
<1>6. \/ Ahead(st, seq) < MaxDropout
      \/ Ahead(st, seq) >= MaxDropout /\ Ahead(st, seq) > SeqMod - 1 - MaxMisorder
      \/ Ahead(st, seq) >= MaxDropout /\ Ahead(st, seq) <= SeqMod - 1 - MaxMisorder
  BY <1>2, RecvNumbers
<1> QED
  BY <1>3, <1>4, <1>5, <1>6

\* What is on its way, and what is lost, is finite.
LEMMA FlightFinite ==
  ASSUME RecvTyped
  PROVE  /\ IsFiniteSet(rflight) /\ Cardinality(rflight) \in Nat
         /\ IsFiniteSet(rlost) /\ Cardinality(rlost) \in Nat
         /\ rsent \in Nat /\ stats.received \in Nat
<1>1. rsent \in Nat /\ stats.received \in Nat
  BY RecvNumbers DEF RecvTyped, StatsRec
<1>2. IsFiniteSet(0 .. rsent - 1)
  BY <1>1, FS_Interval
<1>3. rflight \in SUBSET (0 .. rsent - 1) /\ rlost \in SUBSET (0 .. rsent - 1)
  BY DEF RecvTyped
<1>4. IsFiniteSet(rflight) /\ IsFiniteSet(rlost)
  BY <1>2, <1>3, FS_Subset
<1> QED
  BY <1>1, <1>4, FS_CardinalityType

\* The fields of the report are numbers of their widths.
LEMMA ReportType ==
  ASSUME NEW st \in StatsRec
  PROVE  /\ Expected(st) \in U32
         /\ build_rr_block(st).cum_lost \in 0 .. MaxCumLost
<1> DEFINE x == st.cycles + st.max_seq - st.base_seq + 1
<1>1. x \in Int
  BY RecvNumbers DEF StatsRec, Seqs
<1>2. Expected(st) = x % Mod32
  BY DEF Expected
<1> HIDE DEF x
<1>3. Expected(st) \in U32
  BY <1>1, <1>2, RecvNumbers DEF U32
<1>4. build_rr_block(st).cum_lost = MinOf(Monus(Expected(st), st.received), MaxCumLost)
  BY DEF build_rr_block
<1>5. st.received \in Nat /\ Expected(st) \in Int
  BY <1>3, RecvNumbers DEF StatsRec, U32
<1>6. MinOf(Monus(Expected(st), st.received), MaxCumLost) \in 0 .. MaxCumLost
  BY <1>5, RecvNumbers DEF MinOf, Monus
<1> QED
  BY <1>3, <1>4, <1>6

\* RecvTyped is RecvTypeOK and more.
LEMMA RecvTypedMeaning == RecvTyped => RecvTypeOK
<1> SUFFICES ASSUME RecvTyped PROVE RecvTypeOK
  OBVIOUS
<1>1. stats.received \in U32
  BY FlightFinite, RecvNumbers DEF RecvTyped, U32
<1>2. build_rr_block(stats).cum_lost \in 0 .. MaxCumLost
  BY ReportType DEF RecvTyped
<1>3. /\ stats.initialized \in BOOLEAN /\ stats.probation \in 0 .. MinSequential
      /\ stats.max_seq \in 0 .. SeqMod - 1 /\ stats.base_seq \in 0 .. SeqMod - 1
      /\ stats.bad_seq \in 0 .. SeqMod
      /\ stats.expected_prior \in 0 .. Mod32 - 1 /\ stats.received_prior \in 0 .. Mod32 - 1
  BY DEF RecvTyped, StatsRec, Seqs, U32
<1> QED
  BY <1>1, <1>2, <1>3 DEF RecvTyped, RecvTypeOK, U32

\* update, whatever the packet: the types, and at most one packet more.
LEMMA UpdateTypes ==
  ASSUME NEW st \in StatsRec, st.cycles % SeqMod = 0, NEW seq \in Seqs
  PROVE  LET u == update(st, seq)
         IN  /\ u \in StatsRec /\ u.initialized /\ u.cycles % SeqMod = 0
             /\ u.received <= st.received + 1
<1>0. 0 % SeqMod = 0 /\ st.received \in Nat /\ st.cycles \in Nat
      /\ st.probation \in 0 .. MinSequential
  BY RecvNumbers DEF StatsRec
<1>1. CASE ~st.initialized
  BY <1>0, <1>1, UpdateFirst
<1>2. CASE st.initialized /\ st.probation > 0
  <2> DEFINE u == update(st, seq)
  <2>1. /\ u \in StatsRec /\ u.initialized
        /\ \/ u.probation > 0 /\ u.received = st.received + 1 /\ u.cycles = st.cycles
           \/ u.received = 1 /\ u.cycles = 0
    BY <1>2, UpdateInProbation DEF Begun
  <2> HIDE DEF u
  <2>2. u.cycles % SeqMod = 0 /\ u.received <= st.received + 1
    BY <1>0, <2>1
  <2> QED
    BY <2>1, <2>2 DEF u
<1>3. CASE st.initialized /\ st.probation = 0
  <2> DEFINE u == update(st, seq)
  <2>1. /\ u \in StatsRec /\ u.initialized
        /\ u.received \in {1, st.received, st.received + 1}
        /\ u.cycles \in {0, st.cycles, st.cycles + SeqMod}
    BY <1>3, UpdateOfValid DEF Begun
  <2> HIDE DEF u
  <2>2. (st.cycles + SeqMod) % SeqMod = 0
    BY <1>0, OneCycleMore
  <2>3. u.cycles % SeqMod = 0 /\ u.received <= st.received + 1
    BY <1>0, <2>1, <2>2
  <2> QED
    BY <2>1, <2>3 DEF u
<1> QED
  BY <1>0, <1>1, <1>2, <1>3

\* The truth after a packet.
LEMMA TruthAfterType ==
  ASSUME truth \in TruthRec, NEW n \in Nat, NEW st
  PROVE  TruthAfter(n, st) \in TruthRec
<1> DEFINE row == IF n = truth.last + 1 /\ n > jump.at THEN truth.row + 1 ELSE 1
           a == [truth EXCEPT !.row = row, !.last = n]
           b == [NoTruth EXCEPT !.first = n, !.top = n, !.seen = 1, !.row = row, !.last = n]
           top == IF n > truth.top THEN n ELSE truth.top
           seen == IF n >= truth.first THEN truth.seen + 1 ELSE truth.seen
           stray == IF n >= truth.first THEN truth.stray ELSE truth.stray + 1
           c == [truth EXCEPT !.top = top, !.seen = seen, !.stray = stray,
                              !.row = row, !.last = n]
<1>1. row \in Nat /\ top \in Nat /\ seen \in Nat /\ stray \in Nat
  BY DEF TruthRec
<1>2. TruthAfter(n, st) \in {a, b, c}
  BY DEF TruthAfter, TruthRec
<1> HIDE DEF row, top, seen, stray
<1>3. a \in TruthRec
  BY <1>1 DEF TruthRec
<1>4. NoTruth \in TruthRec
  BY DEF NoTruth, TruthRec
<1>5. b \in TruthRec
  BY <1>1, <1>4 DEF TruthRec
<1>6. c \in TruthRec
  BY <1>1 DEF TruthRec
<1> QED
  BY <1>2, <1>3, <1>5, <1>6

\* At first nothing is sent.
LEMMA RecvTypedInit == RecvInit => RecvTyped
<1> SUFFICES ASSUME RecvInit PROVE RecvTyped
  OBVIOUS
<1>1. NewStats \in StatsRec /\ NewStats.cycles = 0 /\ NewStats.received = 0
  BY RecvNumbers DEF NewStats, StatsRec, Seqs, U32
<1>2. NoTruth \in TruthRec
  BY DEF NoTruth, TruthRec
<1>3. Cardinality({}) = 0
  BY FS_EmptySet
<1>4. 0 % SeqMod = 0 /\ 0 \in 0 .. MaxSent
  BY RecvNumbers
<1> QED
  BY <1>1, <1>2, <1>3, <1>4 DEF RecvInit, RecvTyped

\* A packet that arrives.
LEMMA RecvTypedPacket ==
  ASSUME RecvTyped, NEW n \in rflight, RecvPacket(n)
  PROVE  RecvTyped'
<1>1. n \in Nat /\ SeqOf(n) \in Seqs
  BY SeqType, FlightFinite DEF RecvTyped
<1>2. stats' = update(stats, SeqOf(n)) /\ truth' = TruthAfter(n, stats')
  BY DEF RecvPacket
<1>3. /\ stats' \in StatsRec /\ stats'.cycles % SeqMod = 0
      /\ stats'.received <= stats.received + 1
  BY <1>1, <1>2, UpdateTypes DEF RecvTyped
<1>4. truth' \in TruthRec
  BY <1>1, <1>2, TruthAfterType DEF RecvTyped
<1>5. rflight' = rflight \ {n} /\ rlost' \subseteq rlost /\ rsent' = rsent /\ jump' = jump
  BY DEF RecvPacket
<1>6. Cardinality(rflight') = Cardinality(rflight) - 1
  BY <1>5, FlightFinite, FS_RemoveElement
<1>7. stats'.received + Cardinality(rflight') <= rsent'
  <2>1. stats'.received \in Nat
    BY <1>3 DEF StatsRec
  <2>2. stats.received + Cardinality(rflight) <= rsent
    BY DEF RecvTyped
  <2> QED
    BY <1>3, <1>5, <1>6, <2>1, <2>2, FlightFinite
<1>8. rflight' \subseteq 0 .. rsent' - 1 /\ rlost' \subseteq 0 .. rsent' - 1
  BY <1>5 DEF RecvTyped
<1> QED
  BY <1>3, <1>4, <1>5, <1>7, <1>8 DEF RecvTyped

\* Every step keeps the types.
LEMMA RecvTypedStep == RecvTyped /\ [RecvNext]_recvVars => RecvTyped'
<1> SUFFICES ASSUME RecvTyped, [RecvNext]_recvVars PROVE RecvTyped'
  OBVIOUS
<1>0. /\ stats \in StatsRec /\ stats.cycles % SeqMod = 0
      /\ truth \in TruthRec /\ jump \in [at: Nat, by: Nat]
      /\ rsent \in 0 .. MaxSent /\ rflight \subseteq 0 .. rsent - 1
      /\ rlost \subseteq 0 .. rsent - 1
      /\ stats.received + Cardinality(rflight) <= rsent
  BY DEF RecvTyped
<1>1. CASE RecvSend
  <2>1. /\ stats' = stats /\ rlost' = rlost /\ jump' = jump /\ truth' = truth
        /\ rsent < MaxSent /\ rflight' = rflight \cup {rsent} /\ rsent' = rsent + 1
    BY <1>1 DEF RecvSend
  <2>2. rsent \notin rflight
    BY <1>0, FlightFinite
  <2>3. Cardinality(rflight') = Cardinality(rflight) + 1
    BY <2>1, <2>2, FlightFinite, FS_AddElement
  <2>4. stats'.received + Cardinality(rflight') <= rsent'
    BY <1>0, <2>1, <2>3, FlightFinite
  <2>5. rsent' \in 0 .. MaxSent /\ rflight' \subseteq 0 .. rsent' - 1 /\ rlost' \subseteq 0 .. rsent' - 1
    BY <1>0, <2>1, FlightFinite, RecvNumbers
  <2> QED
    BY <1>0, <2>1, <2>4, <2>5 DEF RecvTyped
<1>2. CASE \E n \in rflight : RecvLose(n)
  <2>1. PICK n \in rflight : RecvLose(n)
    BY <1>2
  <2>2. /\ stats' = stats /\ rsent' = rsent /\ jump' = jump /\ truth' = truth
        /\ rflight' = rflight \ {n} /\ rlost' = rlost \cup {n}
    BY <2>1 DEF RecvLose
  <2>3. Cardinality(rflight') = Cardinality(rflight) - 1
    BY <2>2, FlightFinite, FS_RemoveElement
  <2>4. stats'.received + Cardinality(rflight') <= rsent'
    BY <1>0, <2>2, <2>3, FlightFinite
  <2>5. rflight' \subseteq 0 .. rsent' - 1 /\ rlost' \subseteq 0 .. rsent' - 1
    BY <1>0, <2>2
  <2> QED
    BY <1>0, <2>2, <2>4, <2>5 DEF RecvTyped
<1>3. CASE \E n \in rflight : RecvPacket(n)
  BY <1>3, RecvTypedPacket
<1>4. CASE \E j \in Jumps : Restart(j)
  <2>1. PICK j \in Jumps : Restart(j)
    BY <1>4
  <2>2. /\ stats' = stats /\ rsent' = rsent /\ truth' = truth
        /\ rflight' = rflight /\ rlost' = rlost /\ jump' = [at |-> rsent, by |-> j]
    BY <2>1 DEF Restart
  <2>3. j \in Nat
    BY RecvAssumption
  <2>4. jump' \in [at: Nat, by: Nat]
    BY <2>2, <2>3, FlightFinite
  <2> QED
    BY <1>0, <2>2, <2>4 DEF RecvTyped
<1>5. CASE RecvReport
  <2>1. /\ rsent' = rsent /\ jump' = jump /\ rflight' = rflight /\ rlost' = rlost
        /\ stats' = Snapshot(stats)
        /\ truth' = [truth EXCEPT !.expected = TrueExpected, !.got = TrueGot]
    BY <1>5 DEF RecvReport
  <2>2. TrueExpected \in Int /\ TrueGot \in Nat
    BY <1>0 DEF TrueExpected, TrueGot, TruthRec
  <2>3. truth' \in TruthRec
    BY <1>0, <2>1, <2>2 DEF TruthRec
  <2>4. Expected(stats) \in U32 /\ stats.received \in U32
    <3>1. stats.received \in U32
      BY <1>0, FlightFinite, RecvNumbers DEF U32
    <3> QED
      BY <1>0, <3>1, ReportType
  <2>5. stats' \in StatsRec /\ stats'.cycles = stats.cycles /\ stats'.received = stats.received
    BY <1>0, <2>1, <2>4 DEF Snapshot, StatsRec
  <2> QED
    BY <1>0, <2>1, <2>3, <2>5 DEF RecvTyped
<1>6. CASE UNCHANGED recvVars
  BY <1>0, <1>6 DEF recvVars, RecvTyped
<1> QED
  BY <1>1, <1>2, <1>3, <1>4, <1>5, <1>6 DEF RecvNext

\* RecvStats: every number stays within its width, and a report's cumulative loss fits
\* its 24 bits (rtcp_terminator.rs, update and build_rr_block).
THEOREM RecvTypes == RecvSpec => []RecvTypeOK
<1>1. RecvTyped /\ [RecvNext]_recvVars => RecvTyped'
  BY RecvTypedStep
<1> QED
  BY RecvTypedInit, <1>1, RecvTypedMeaning, PTL DEF RecvSpec

-----------------------------------------------------------------------------
(* RecvStats: the reports *)

\* w is the newest packet that has arrived.
Reached(w) ==
  /\ w \in -1 .. rsent - 1
  /\ w \notin rflight
  /\ \A m \in w + 1 .. rsent - 1 : m \in rflight \cup rlost
  /\ \A m \in rflight : w - m <= MaxLate
  /\ Cardinality(rlost) <= MaxLost

\* The restart: the packets on their way are all from after it.
Jumped ==
  /\ jump.at <= rsent
  /\ jump.by # 0 => /\ jump.by >= MaxDropout /\ stats.probation = 0
                    /\ \A m \in rflight : m >= jump.at

\* The truth is about packets that have arrived.
Held(w) ==
  /\ truth.last < rsent
  /\ stats.initialized =>
       /\ truth.first <= truth.top /\ truth.top <= w /\ truth.top \notin rflight
       /\ stats.received >= 1
  /\ ~stats.initialized => stats.probation # 0 /\ stats.received = 0

\* The statistics are those of the range, and so are those of the last report; with what
\* is expected since then something has come.
Tallied ==
  /\ stats.max_seq = SeqOf(truth.top) /\ stats.base_seq = SeqOf(truth.first)
  /\ stats.cycles + stats.max_seq - stats.base_seq = truth.top - truth.first
  /\ stats.received = TrueGot
  /\ stats.expected_prior = truth.expected /\ truth.expected <= TrueExpected
  /\ stats.received_prior = truth.got /\ truth.got <= TrueGot
  /\ truth.expected < TrueExpected => truth.got < TrueGot

\* The numbers have jumped, and the range is still one of the old numbers.
Limbo == jump.by # 0 /\ truth.first < jump.at

\* Then no packet with a new number was counted; bad_seq waits for the next of them.
Waiting ==
  /\ truth.top < jump.at /\ jump.at - truth.top <= MaxLost + MaxLate + 1
  /\ truth.last >= jump.at =>
       /\ stats.bad_seq = SeqOf(truth.last) + 1
       /\ truth.row <= 2
       /\ truth.row = 2 => SeqOf(truth.last) = 0

\* The numbers have not jumped, or the jump was noticed, or the new numbers have not come
\* round to the old ones yet.
Settled ==
  \/ jump.by = 0 \/ truth.first >= jump.at
  \/ jump.by + (rsent - jump.at) + MaxLost + MaxLate < SeqMod - MaxMisorder

Exact(w) ==
  stats.probation = 0 /\ Settled =>
    Tallied /\ IF Limbo THEN Waiting ELSE w - MaxLate <= truth.top

RecvInv ==
  RecvTyped /\ Jumped /\ \E w \in -1 .. rsent - 1 : Reached(w) /\ Held(w) /\ Exact(w)

\* The numbers of two packets between which there is no restart.
LEMMA SeqNear ==
  ASSUME jump \in [at: Nat, by: Nat], NEW a \in Nat, NEW b \in Nat, a <= b, b - a < SeqMod,
         jump.by = 0 \/ a >= jump.at \/ b < jump.at
  PROVE  /\ SeqOf(b) = IF SeqOf(a) + (b - a) < SeqMod THEN SeqOf(a) + (b - a)
                       ELSE SeqOf(a) + (b - a) - SeqMod
         /\ (SeqOf(b) - SeqOf(a)) % SeqMod = b - a
         /\ a < b => (SeqOf(a) - SeqOf(b)) % SeqMod = SeqMod - (b - a)
<1> DEFINE off == IF jump.by # 0 /\ a >= jump.at THEN jump.by ELSE 0
           x == FirstSeq + a + off
           d == b - a
<1>1. x \in Int /\ d \in 0 .. SeqMod - 1 /\ SeqMod \in Nat \ {0}
  BY RecvNumbers DEF Seqs
<1>2. SeqOf(a) = x % SeqMod
  BY DEF SeqOf
<1>3. SeqOf(b) = (x + d) % SeqMod
  <2>1. off = IF jump.by # 0 /\ b >= jump.at THEN jump.by ELSE 0
    OBVIOUS
  <2>2. off \in Nat
    OBVIOUS
  <2>3. SeqOf(b) = (FirstSeq + b + off) % SeqMod
    BY <2>1 DEF SeqOf
  <2> HIDE DEF off
  <2>4. FirstSeq + b + off = x + d
    BY <2>2, RecvNumbers DEF Seqs
  <2> QED
    BY <2>3, <2>4
<1>4. d = b - a
  OBVIOUS
<1> HIDE DEF x, d
<1>5. (x + d) % SeqMod = IF (x % SeqMod) + d < SeqMod THEN (x % SeqMod) + d
                         ELSE (x % SeqMod) + d - SeqMod
  BY <1>1, RemainderNear
<1>5a. (((x + d) % SeqMod) - (x % SeqMod)) % SeqMod = d
  BY <1>1, RemainderNear
<1>5b. d > 0 => ((x % SeqMod) - ((x + d) % SeqMod)) % SeqMod = SeqMod - d
  <2>1. d > 0 => d \in 1 .. SeqMod - 1
    BY <1>1
  <2> QED
    BY <1>1, <2>1, RemainderBack
<1>6. a < b => d > 0
  BY <1>4
<1> QED
  BY <1>2, <1>3, <1>4, <1>5, <1>5a, <1>5b, <1>6

\* The numbers of a packet from before the restart and of one from after it.
LEMMA SeqJumped ==
  ASSUME jump \in [at: Nat, by: Nat], NEW a \in Nat, NEW b \in Nat,
         jump.by # 0, a < jump.at, b >= jump.at, b - a + jump.by < SeqMod
  PROVE  (SeqOf(b) - SeqOf(a)) % SeqMod = b - a + jump.by
<1> DEFINE x == FirstSeq + a
           d == b - a + jump.by
<1>1. x \in Int /\ d \in 0 .. SeqMod - 1 /\ SeqMod \in Nat \ {0}
  BY RecvNumbers DEF Seqs
<1>2. SeqOf(a) = x % SeqMod
  <2>1. SeqOf(a) = (x + 0) % SeqMod
    BY DEF SeqOf
  <2>2. x + 0 = x
    BY <1>1
  <2> QED
    BY <2>1, <2>2
<1>3. SeqOf(b) = (x + d) % SeqMod
  <2>1. SeqOf(b) = (FirstSeq + b + jump.by) % SeqMod
    BY DEF SeqOf
  <2>2. FirstSeq + b + jump.by = x + d
    BY RecvNumbers DEF Seqs
  <2> QED
    BY <2>1, <2>2
<1>4. d = b - a + jump.by
  OBVIOUS
<1> HIDE DEF x, d
<1>5. (((x + d) % SeqMod) - (x % SeqMod)) % SeqMod = d
  BY <1>1, RemainderNear
<1> QED
  BY <1>2, <1>3, <1>4, <1>5

\* The fields of the truth after a packet.
LEMMA TruthFields ==
  ASSUME truth \in TruthRec, NEW n \in Nat, NEW st
  PROVE  LET t == TruthAfter(n, st)
             ignored == st.max_seq = stats.max_seq /\ st.received = stats.received
         IN  /\ t.last = n
             /\ t.row = IF n = truth.last + 1 /\ n > jump.at THEN truth.row + 1 ELSE 1
             /\ ignored =>
                  /\ t.first = truth.first /\ t.top = truth.top
                  /\ t.seen = truth.seen /\ t.stray = truth.stray
                  /\ t.expected = truth.expected /\ t.got = truth.got
             /\ ~ignored /\ st.received = 1 =>
                  /\ t.first = n /\ t.top = n /\ t.seen = 1 /\ t.stray = 0
                  /\ t.expected = 0 /\ t.got = 0
             /\ ~ignored /\ st.received # 1 =>
                  /\ t.first = truth.first /\ t.top = IF n > truth.top THEN n ELSE truth.top
                  /\ t.seen + t.stray = truth.seen + truth.stray + 1
                  /\ t.expected = truth.expected /\ t.got = truth.got
<1> DEFINE row == IF n = truth.last + 1 /\ n > jump.at THEN truth.row + 1 ELSE 1
           top == IF n > truth.top THEN n ELSE truth.top
           seen == IF n >= truth.first THEN truth.seen + 1 ELSE truth.seen
           stray == IF n >= truth.first THEN truth.stray ELSE truth.stray + 1
           a == [truth EXCEPT !.row = row, !.last = n]
           b == [NoTruth EXCEPT !.first = n, !.top = n, !.seen = 1, !.row = row, !.last = n]
           c == [truth EXCEPT !.top = top, !.seen = seen, !.stray = stray,
                              !.row = row, !.last = n]
           ignored == st.max_seq = stats.max_seq /\ st.received = stats.received
<1>1. TruthAfter(n, st) = IF ignored THEN a ELSE IF st.received = 1 THEN b ELSE c
  BY DEF TruthAfter, TruthRec
<1>2. seen + stray = truth.seen + truth.stray + 1
  BY DEF TruthRec
<1> HIDE DEF row, top, seen, stray, ignored
<1>3. /\ a.last = n /\ a.row = row /\ a.first = truth.first /\ a.top = truth.top
      /\ a.seen = truth.seen /\ a.stray = truth.stray
      /\ a.expected = truth.expected /\ a.got = truth.got
  BY DEF TruthRec
<1>4. NoTruth \in TruthRec /\ NoTruth.stray = 0 /\ NoTruth.expected = 0 /\ NoTruth.got = 0
  BY DEF NoTruth, TruthRec
<1>5. /\ b.last = n /\ b.row = row /\ b.first = n /\ b.top = n /\ b.seen = 1 /\ b.stray = 0
      /\ b.expected = 0 /\ b.got = 0
  BY <1>4 DEF TruthRec
<1>6. /\ c.last = n /\ c.row = row /\ c.first = truth.first /\ c.top = top
      /\ c.seen = seen /\ c.stray = stray
      /\ c.expected = truth.expected /\ c.got = truth.got
  BY DEF TruthRec
<1> HIDE DEF a, b, c
<1>7. TruthAfter(n, st).last = n /\ TruthAfter(n, st).row = row
  BY <1>1, <1>3, <1>5, <1>6
<1>8. ignored => TruthAfter(n, st) = a
  BY <1>1
<1>9. ~ignored /\ st.received = 1 => TruthAfter(n, st) = b
  BY <1>1
<1>10. ~ignored /\ st.received # 1 => TruthAfter(n, st) = c
  BY <1>1
<1> QED
  BY <1>2, <1>3, <1>5, <1>6, <1>7, <1>8, <1>9, <1>10 DEF row, top, ignored

\* Which packet came last, and how many in order.
LEMMA TruthLast ==
  ASSUME truth \in TruthRec, NEW n \in Nat, NEW st
  PROVE  /\ TruthAfter(n, st).last = n
         /\ TruthAfter(n, st).row =
              IF n = truth.last + 1 /\ n > jump.at THEN truth.row + 1 ELSE 1
BY TruthFields

\* A packet that is not counted.
LEMMA TruthIgnored ==
  ASSUME truth \in TruthRec, NEW n \in Nat, NEW st,
         st.max_seq = stats.max_seq, st.received = stats.received
  PROVE  LET t == TruthAfter(n, st)
         IN  /\ t.first = truth.first /\ t.top = truth.top
             /\ t.seen = truth.seen /\ t.stray = truth.stray
             /\ t.expected = truth.expected /\ t.got = truth.got
BY TruthFields

\* A packet a range begins with.
LEMMA TruthBegun ==
  ASSUME truth \in TruthRec, NEW n \in Nat, NEW st,
         st.max_seq # stats.max_seq \/ st.received # stats.received, st.received = 1
  PROVE  LET t == TruthAfter(n, st)
         IN  /\ t.first = n /\ t.top = n /\ t.seen = 1 /\ t.stray = 0
             /\ t.expected = 0 /\ t.got = 0
<1>1. ~(st.max_seq = stats.max_seq /\ st.received = stats.received)
  OBVIOUS
<1> DEFINE t == TruthAfter(n, st)
<1>2. ~(st.max_seq = stats.max_seq /\ st.received = stats.received) /\ st.received = 1 =>
        /\ t.first = n /\ t.top = n /\ t.seen = 1 /\ t.stray = 0 /\ t.expected = 0 /\ t.got = 0
  BY TruthFields
<1> QED
  BY <1>1, <1>2

\* A packet that is counted.
LEMMA TruthCounted ==
  ASSUME truth \in TruthRec, NEW n \in Nat, NEW st,
         st.max_seq # stats.max_seq \/ st.received # stats.received, st.received # 1
  PROVE  LET t == TruthAfter(n, st)
         IN  /\ t.first = truth.first /\ t.top = IF n > truth.top THEN n ELSE truth.top
             /\ t.seen + t.stray = truth.seen + truth.stray + 1
             /\ t.expected = truth.expected /\ t.got = truth.got
BY TruthFields

\* A packet that overtakes others does not overtake many, nor are many lost before it.
LEMMA GapBound ==
  ASSUME RecvTyped, NEW w \in Int, Reached(w), NEW n \in rflight,
         \A m \in rflight : n - m <= MaxLate
  PROVE  n - w <= MaxLost + MaxLate + 1
<1> DEFINE gap == w + 1 .. n - MaxLate - 1
<1>1. n \in 0 .. rsent - 1 /\ rsent \in Nat /\ w \in -1 .. rsent - 1
  BY FlightFinite DEF RecvTyped, Reached
<1>2. ASSUME NEW m \in gap PROVE m \in rlost
  <2>1. m \in w + 1 .. rsent - 1 /\ n - m > MaxLate
    BY <1>1, RecvNumbers
  <2>2. m \notin rflight
    BY <2>1, <1>1, RecvNumbers
  <2> QED
    BY <2>1, <2>2 DEF Reached
<1>3. gap \in SUBSET rlost
  BY <1>2
<1>4. Cardinality(gap) <= Cardinality(rlost)
  BY <1>3, FlightFinite, FS_Subset
<1>5. Cardinality(gap) = IF w + 1 > n - MaxLate - 1 THEN 0 ELSE n - MaxLate - 1 - (w + 1) + 1
  <2>1. w + 1 \in Int /\ n - MaxLate - 1 \in Int
    BY <1>1, RecvNumbers
  <2> QED
    BY <2>1, FS_Interval
<1>6. Cardinality(rlost) <= MaxLost /\ Cardinality(rlost) \in Nat
  BY FlightFinite DEF Reached
<1> QED
  BY <1>1, <1>4, <1>5, <1>6, RecvNumbers

\* When nothing is on its way, what was sent after the newest arrival is lost.
LEMMA QuietBound ==
  ASSUME RecvTyped, NEW w \in Int, Reached(w), rflight = {}
  PROVE  rsent - w <= MaxLost + 1
<1> DEFINE gap == w + 1 .. rsent - 1
<1>1. rsent \in Nat /\ w \in -1 .. rsent - 1
  BY FlightFinite DEF RecvTyped, Reached
<1>2. gap \in SUBSET rlost
  BY DEF Reached
<1>3. Cardinality(gap) <= Cardinality(rlost)
  BY <1>2, FlightFinite, FS_Subset
<1>4. Cardinality(gap) = IF w + 1 > rsent - 1 THEN 0 ELSE rsent - 1 - (w + 1) + 1
  <2>1. w + 1 \in Int /\ rsent - 1 \in Int
    BY <1>1
  <2> QED
    BY <2>1, FS_Interval
<1>5. Cardinality(rlost) <= MaxLost /\ Cardinality(rlost) \in Nat
  BY FlightFinite DEF Reached
<1> QED
  BY <1>1, <1>3, <1>4, <1>5, RecvNumbers

\* The newest arrival after one more.
LEMMA ReachedPacket ==
  ASSUME RecvTyped, NEW w \in Int, Reached(w), NEW n \in rflight, RecvPacket(n)
  PROVE  LET v == IF n > w THEN n ELSE w IN v \in -1 .. rsent' - 1 /\ Reached(v)'
<1> DEFINE v == IF n > w THEN n ELSE w
<1>1. /\ n \in 0 .. rsent - 1 /\ rsent \in Nat /\ w \in -1 .. rsent - 1
      /\ rflight \subseteq Int /\ rlost \subseteq Int
  BY FlightFinite DEF RecvTyped, Reached
<1>2. /\ rflight' = rflight \ {n} /\ rlost' = {m \in rlost : m > n} /\ rsent' = rsent
      /\ \A m \in rflight : n - m <= MaxLate
  BY DEF RecvPacket
<1>3. v \in -1 .. rsent' - 1 /\ v \notin rflight'
  BY <1>1, <1>2 DEF Reached
<1>4. ASSUME NEW m \in v + 1 .. rsent' - 1 PROVE m \in rflight' \cup rlost'
  <2>1. m \in w + 1 .. rsent - 1 /\ m > n
    BY <1>1, <1>2
  <2>2. m \in rflight \cup rlost
    BY <2>1 DEF Reached
  <2> QED
    BY <1>2, <2>1, <2>2
<1>5. \A m \in rflight' : v - m <= MaxLate
  BY <1>1, <1>2 DEF Reached
<1>6. Cardinality(rlost') <= MaxLost
  <2>1. rlost' \in SUBSET rlost
    BY <1>2
  <2>2. Cardinality(rlost') <= Cardinality(rlost) /\ IsFiniteSet(rlost')
    BY <2>1, FlightFinite, FS_Subset
  <2>3. Cardinality(rlost') \in Nat
    BY <2>2, FS_CardinalityType
  <2> QED
    BY <2>2, <2>3, FlightFinite, RecvNumbers DEF Reached
<1> HIDE DEF v
<1>7. Reached(v)'
  BY <1>3, <1>4, <1>5, <1>6 DEF Reached
<1> QED
  BY <1>3, <1>7 DEF v

\* init_seq: the truth and the statistics begin together.
LEMMA BegunExact ==
  ASSUME RecvTyped, RecvTyped', Jumped, NEW w \in Int, Reached(w), NEW n \in rflight, RecvPacket(n),
         Begun(stats', SeqOf(n)),
         stats'.max_seq # stats.max_seq \/ stats'.received # stats.received
  PROVE  LET v == IF n > w THEN n ELSE w
         IN  /\ truth'.first = n /\ truth'.top = n
             /\ Tallied' /\ ~Limbo' /\ v - MaxLate <= truth'.top
<1> DEFINE v == IF n > w THEN n ELSE w
<1>1. n \in Nat /\ w - n <= MaxLate /\ jump' = jump
  BY FlightFinite DEF RecvTyped, Reached, RecvPacket
<1>2. truth' = TruthAfter(n, stats') /\ truth \in TruthRec
  BY DEF RecvPacket, RecvTyped
<1>3. stats'.received = 1
  BY DEF Begun
<1>4. /\ truth'.first = n /\ truth'.top = n /\ truth'.seen = 1 /\ truth'.stray = 0
      /\ truth'.expected = 0 /\ truth'.got = 0
  BY <1>1, <1>2, <1>3, TruthBegun
<1>5. SeqOf(truth.top)' = SeqOf(n) /\ SeqOf(truth.first)' = SeqOf(n)
  BY <1>1, <1>4 DEF SeqOf
<1>6. TrueExpected' = 1 /\ TrueGot' = 1
  BY <1>1, <1>4 DEF TrueExpected, TrueGot
<1>7. SeqOf(n) \in Int
  BY <1>1, SeqType, RecvNumbers DEF RecvTyped, Seqs
<1>8. Tallied'
  <2>1. /\ stats'.base_seq = SeqOf(n) /\ stats'.max_seq = SeqOf(n) /\ stats'.cycles = 0
        /\ stats'.expected_prior = 0 /\ stats'.received_prior = 0
    BY DEF Begun
  <2> QED
    BY <1>1, <1>3, <1>4, <1>5, <1>6, <1>7, <2>1 DEF Tallied
<1>9. ~Limbo'
  <2>1. jump.by # 0 => n >= jump.at
    BY DEF Jumped
  <2>2. jump.at \in Nat
    BY DEF RecvTyped
  <2> QED
    BY <1>1, <1>4, <2>1, <2>2 DEF Limbo
<1>10. v - MaxLate <= n
  BY <1>1, RecvNumbers
<1> QED
  BY <1>4, <1>8, <1>9, <1>10

\* A packet of a valid stream of one numbering is counted, and what is counted is true.
LEMMA ValidExact ==
  ASSUME RecvTyped, RecvTyped', Jumped, NEW w \in Int, Reached(w), Held(w), NEW n \in rflight,
         RecvPacket(n), stats.initialized, stats.probation = 0,
         Tallied, ~Limbo, w - MaxLate <= truth.top
  PROVE  LET v == IF n > w THEN n ELSE w
         IN  /\ truth'.first = truth.first
             /\ truth'.top = IF n > truth.top THEN n ELSE truth.top
             /\ stats'.received = stats.received + 1
             /\ Tallied' /\ ~Limbo' /\ v - MaxLate <= truth'.top
<1> DEFINE seq == SeqOf(n)
           top == truth.top
           v == IF n > w THEN n ELSE w
<1>1. /\ stats' = update(stats, seq) /\ truth' = TruthAfter(n, stats') /\ jump' = jump
      /\ \A m \in rflight : n - m <= MaxLate
  BY DEF RecvPacket
<1>2. /\ stats \in StatsRec /\ truth \in TruthRec /\ jump \in [at: Nat, by: Nat]
      /\ n \in Nat /\ stats.received \in Nat
  BY FlightFinite DEF RecvTyped
<1>3. /\ top \in Nat /\ truth.first \in Nat /\ truth.seen \in Nat /\ truth.stray \in Nat
      /\ truth.got \in Nat /\ truth.expected \in Int
  BY <1>2 DEF TruthRec
<1>4. seq \in Seqs /\ SeqOf(top) \in Seqs /\ SeqOf(truth.first) \in Seqs
  BY <1>2, <1>3, SeqType
<1>5. /\ truth.first <= top /\ top <= w /\ top # n /\ stats.received >= 1
      /\ n - w <= MaxLost + MaxLate + 1 /\ w - n <= MaxLate
  BY GapBound, <1>1 DEF Held, Reached
<1>6. jump.by = 0 \/ (top >= jump.at /\ n >= jump.at)
  <2>1. jump.by = 0 \/ (truth.first >= jump.at /\ n >= jump.at)
    BY <1>2, <1>3 DEF Limbo, Jumped
  <2> QED
    BY <1>2, <1>3, <1>5, <2>1
<1>7. stats.max_seq = SeqOf(top)
  BY DEF Tallied
<1> HIDE DEF seq, top
<1>8. /\ SameRange(stats, stats') /\ stats'.received = stats.received + 1
      /\ IF n > top
         THEN /\ stats'.max_seq = seq
              /\ stats'.cycles + seq = stats.cycles + SeqOf(top) + (n - top)
         ELSE stats'.max_seq = stats.max_seq /\ stats'.cycles = stats.cycles
  <2>1. CASE n > top
    <3>1. n - top < MaxDropout
      BY <1>2, <1>3, <1>5, <2>1, RecvNumbers, RecvNetwork DEF top
    <3>2. n - top < SeqMod /\ top <= n
      BY <1>2, <1>3, <2>1, <3>1, RecvNumbers, RecvAssumption DEF top
    <3>3. /\ seq = IF SeqOf(top) + (n - top) < SeqMod THEN SeqOf(top) + (n - top)
                   ELSE SeqOf(top) + (n - top) - SeqMod
          /\ (seq - SeqOf(top)) % SeqMod = n - top
      BY <1>2, <1>3, <1>6, <3>2, SeqNear DEF seq, top
    <3>4. Ahead(stats, seq) = n - top
      BY <1>7, <3>3 DEF Ahead
    <3>5. /\ SameRange(stats, stats') /\ stats'.received = stats.received + 1
          /\ stats'.cycles = IF seq < SeqOf(top) THEN stats.cycles + SeqMod ELSE stats.cycles
          /\ stats'.max_seq = seq
      <4>1. Ahead(stats, seq) < MaxDropout
        BY <3>1, <3>4
      <4>2. ~(Ahead(stats, seq) >= MaxDropout)
        BY <1>2, <1>3, <3>1, <3>4, RecvNumbers DEF top
      <4> QED
        BY <1>1, <1>2, <1>4, <1>7, <4>1, <4>2, UpdateOfValid
    <3>6. stats'.cycles + seq = stats.cycles + SeqOf(top) + (n - top)
      <4>1. stats.cycles \in Nat /\ seq \in Int /\ SeqOf(top) \in Int
        BY <1>2, <1>4, RecvNumbers DEF StatsRec, Seqs
      <4>2. seq < SeqOf(top) <=> ~(SeqOf(top) + (n - top) < SeqMod)
        BY <1>2, <1>3, <3>2, <3>3, <2>1, <4>1, RecvNumbers DEF top
      <4> QED
        BY <1>2, <1>3, <3>3, <3>5, <4>1, <4>2, RecvNumbers DEF top
    <3> QED
      BY <2>1, <3>5, <3>6
  <2>2. CASE n < top
    <3>1. top - n <= MaxLate /\ top - n \in 1 .. SeqMod - 1
      BY <1>2, <1>3, <1>5, <2>2, RecvNumbers, RecvNetwork, RecvAssumption, Reached(w) DEF top, Reached
    <3>2. (seq - SeqOf(top)) % SeqMod = SeqMod - (top - n)
      <4>1. n <= top /\ top - n < SeqMod
        BY <1>2, <1>3, <2>2, <3>1, RecvNumbers DEF top
      <4>2. jump.by = 0 \/ n >= jump.at \/ top < jump.at
        BY <1>6
      <4> QED
        BY <1>2, <1>3, <2>2, <4>1, <4>2, SeqNear DEF seq, top
    <3>3. Ahead(stats, seq) = SeqMod - (top - n)
      BY <1>7, <3>2 DEF Ahead
    <3>4. /\ Ahead(stats, seq) >= MaxDropout /\ Ahead(stats, seq) > SeqMod - 1 - MaxMisorder
          /\ ~(Ahead(stats, seq) < MaxDropout)
          /\ ~(Ahead(stats, seq) <= SeqMod - 1 - MaxMisorder)
      BY <1>2, <1>3, <3>1, <3>3, RecvNumbers, RecvNetwork DEF top
    <3>5. /\ SameRange(stats, stats') /\ stats'.received = stats.received + 1
          /\ stats'.cycles = stats.cycles /\ stats'.max_seq = stats.max_seq
      BY <1>1, <1>2, <1>4, <3>4, UpdateOfValid
    <3> QED
      BY <1>2, <1>3, <2>2, <3>5 DEF top
  <2> QED
    BY <1>2, <1>3, <1>5, <2>1, <2>2 DEF top
<1>9. /\ truth'.first = truth.first /\ truth'.top = IF n > top THEN n ELSE top
      /\ truth'.seen + truth'.stray = truth.seen + truth.stray + 1
      /\ truth'.expected = truth.expected /\ truth'.got = truth.got
  <2>1. stats'.received # stats.received /\ stats'.received # 1
    BY <1>2, <1>5, <1>8
  <2> QED
    BY <1>1, <1>2, <2>1, TruthCounted DEF top
<1>10. SeqOf(truth.first)' = SeqOf(truth.first)
  BY <1>1, <1>9 DEF SeqOf
<1>11. SeqOf(truth.top)' = IF n > top THEN seq ELSE SeqOf(top)
  BY <1>1, <1>9 DEF SeqOf, seq
<1>12. /\ TrueGot' = TrueGot + 1
       /\ TrueExpected' = IF n > top THEN TrueExpected + (n - top) ELSE TrueExpected
       /\ TrueGot \in Nat /\ TrueExpected \in Nat
  <2>1. TrueGot' = TrueGot + 1 /\ TrueGot \in Nat
    BY <1>3, <1>9 DEF TrueGot
  <2>2. TrueExpected \in Nat
    BY <1>3, <1>5 DEF TrueExpected, top
  <2>3. TrueExpected' = IF n > top THEN TrueExpected + (n - top) ELSE TrueExpected
    BY <1>2, <1>3, <1>9 DEF TrueExpected, top
  <2> QED
    BY <2>1, <2>2, <2>3
<1>13. Tallied'
  <2>1. stats'.max_seq = SeqOf(truth.top)'
    BY <1>7, <1>8, <1>11
  <2>2. stats'.base_seq = SeqOf(truth.first)'
    BY <1>8, <1>10 DEF SameRange, Tallied
  <2>3. stats'.cycles + stats'.max_seq - stats'.base_seq = truth'.top - truth'.first
    <3>1. stats.cycles + stats.max_seq - stats.base_seq = top - truth.first
      BY DEF Tallied, top
    <3>2. /\ stats.cycles \in Int /\ stats.max_seq \in Int /\ stats.base_seq \in Int
          /\ stats'.cycles \in Int /\ stats'.max_seq \in Int /\ seq \in Int
          /\ stats'.base_seq = stats.base_seq
      BY <1>2, <1>4, <1>8, RecvNumbers DEF StatsRec, Seqs, SameRange, RecvTyped
    <3>3. stats'.cycles + stats'.max_seq =
            IF n > top THEN stats.cycles + stats.max_seq + (n - top)
            ELSE stats.cycles + stats.max_seq
      BY <1>7, <1>8, <3>2
    <3>4. top \in Int /\ truth'.first \in Int /\ n \in Int
      BY <1>2, <1>3, <1>9 DEF top
    <3> DEFINE e == stats.cycles + stats.max_seq
               f == stats'.cycles + stats'.max_seq
               b == stats.base_seq
               first == truth.first
    <3>5. /\ e \in Int /\ f \in Int /\ b \in Int /\ first \in Int /\ top \in Int /\ n \in Int
          /\ truth'.first = first /\ stats'.base_seq = b
          /\ truth'.top = IF n > top THEN n ELSE top
      BY <1>9, <3>2, <3>4
    <3>6. e - b = top - first
      BY <3>1, <3>2
    <3>7. f = IF n > top THEN e + (n - top) ELSE e
      BY <3>2, <3>3, <3>4
    <3>8. stats'.cycles + stats'.max_seq - stats'.base_seq = f - b
      BY <3>2
    <3> HIDE DEF e, f, b, first, top
    <3>9. f - b = (IF n > top THEN n ELSE top) - first
      BY <3>5, <3>6, <3>7
    <3> QED
      BY <3>5, <3>8, <3>9
  <2>4. stats'.received = TrueGot'
    BY <1>8, <1>12 DEF Tallied
  <2>5. stats'.expected_prior = truth'.expected /\ stats'.received_prior = truth'.got
    BY <1>8, <1>9 DEF SameRange, Tallied
  <2>6. truth'.expected <= TrueExpected' /\ truth'.got < TrueGot'
    BY <1>2, <1>3, <1>9, <1>12 DEF Tallied, top
  <2>7. truth'.got <= TrueGot'
    BY <1>3, <1>9, <1>12, <2>6
  <2> QED
    BY <2>1, <2>2, <2>3, <2>4, <2>5, <2>6, <2>7 DEF Tallied
<1>14. ~Limbo'
  BY <1>1, <1>9 DEF Limbo
<1>15. v - MaxLate <= truth'.top
  BY <1>2, <1>3, <1>5, <1>9, RecvNumbers, Reached(w) DEF top, Reached
<1> QED
  BY <1>8, <1>9, <1>13, <1>14, <1>15 DEF top

\* After a restart a packet with a new number is not counted, unless it is the one
\* bad_seq waits for.
LEMMA LimboExact ==
  ASSUME RecvTyped, RecvTyped', Jumped, NEW w \in Int, Reached(w), Held(w), NEW n \in rflight,
         RecvPacket(n), stats.initialized, stats.probation = 0,
         Settled, Tallied, Limbo, Waiting
  PROVE  \/ Begun(stats', SeqOf(n)) /\ Ahead(stats, SeqOf(n)) >= MaxDropout
         \/ /\ truth'.first = truth.first /\ truth'.top = truth.top
            /\ stats'.received = stats.received
            /\ Tallied' /\ Limbo' /\ Waiting'
<1> DEFINE seq == SeqOf(n)
           top == truth.top
<1>1. /\ stats' = update(stats, seq) /\ truth' = TruthAfter(n, stats') /\ jump' = jump
  BY DEF RecvPacket
<1>2. /\ stats \in StatsRec /\ truth \in TruthRec /\ jump \in [at: Nat, by: Nat]
      /\ n \in 0 .. rsent - 1 /\ rsent \in Nat /\ jump.at \in Nat /\ jump.by \in Nat
  BY FlightFinite DEF RecvTyped
<1>3. top \in Nat /\ truth.first \in Nat /\ truth.last \in Int /\ truth.row \in Nat
  BY <1>2 DEF TruthRec
<1>4. seq \in Seqs /\ SeqOf(top) \in Seqs
  BY <1>2, <1>3, SeqType
<1>5. n >= jump.at /\ top < jump.at /\ jump.by # 0 /\ jump.by >= MaxDropout
  BY DEF Limbo, Waiting, Jumped
<1>6. /\ n - top + jump.by <= SeqMod - 1 - MaxMisorder /\ n - top + jump.by >= MaxDropout
      /\ n - top + jump.by < SeqMod
  <2>1. jump.by + (rsent - jump.at) + MaxLost + MaxLate < SeqMod - MaxMisorder
    BY <1>2, <1>3 DEF Settled, Limbo
  <2>2. jump.at - top <= MaxLost + MaxLate + 1
    BY DEF Waiting
  <2> QED
    BY <1>2, <1>3, <1>5, <2>1, <2>2, RecvNumbers
<1>7. Ahead(stats, seq) = n - top + jump.by
  <2>1. (seq - SeqOf(top)) % SeqMod = n - top + jump.by
    <3>1. n \in Nat
      BY <1>2
    <3> QED
      BY <1>2, <1>3, <1>5, <1>6, <3>1, SeqJumped
  <2> QED
    BY <2>1 DEF Ahead, Tallied
<1> HIDE DEF seq, top
<1>8. /\ Ahead(stats, seq) >= MaxDropout /\ Ahead(stats, seq) <= SeqMod - 1 - MaxMisorder
      /\ ~(Ahead(stats, seq) < MaxDropout) /\ ~(Ahead(stats, seq) > SeqMod - 1 - MaxMisorder)
  BY <1>2, <1>3, <1>6, <1>7, RecvNumbers DEF top
<1>9. CASE seq = stats.bad_seq
  <2>1. Begun(stats', seq)
    BY <1>1, <1>2, <1>4, <1>8, <1>9, UpdateOfValid
  <2> QED
    BY <1>8, <2>1 DEF seq
<1>10. CASE seq # stats.bad_seq
  <2>1. /\ SameRange(stats, stats') /\ stats'.received = stats.received
        /\ stats'.cycles = stats.cycles /\ stats'.max_seq = stats.max_seq
        /\ stats'.bad_seq = seq + 1
    BY <1>1, <1>2, <1>4, <1>8, <1>10, UpdateOfValid
  <2>2. n \in Nat
    BY <1>2
  <2>3. /\ truth'.first = truth.first /\ truth'.top = truth.top
        /\ truth'.seen = truth.seen /\ truth'.stray = truth.stray
        /\ truth'.expected = truth.expected /\ truth'.got = truth.got
    BY <1>1, <1>2, <2>1, <2>2, TruthIgnored
  <2>4. /\ truth'.last = n
        /\ truth'.row = IF n = truth.last + 1 /\ n > jump.at THEN truth.row + 1 ELSE 1
    BY <1>1, <1>2, <2>2, TruthLast
  <2>5. /\ SeqOf(truth.first)' = SeqOf(truth.first) /\ SeqOf(truth.top)' = SeqOf(truth.top)
        /\ SeqOf(truth.last)' = seq
    BY <1>1, <2>3, <2>4 DEF SeqOf, seq
  <2>6. TrueGot' = TrueGot /\ TrueExpected' = TrueExpected
    BY <2>3 DEF TrueGot, TrueExpected
  <2>7. Tallied'
    BY <2>1, <2>3, <2>5, <2>6 DEF Tallied, SameRange
  <2>8. Limbo'
    BY <1>1, <2>3 DEF Limbo
  <2>9. truth'.row <= 2 /\ (truth'.row = 2 => seq = 0)
    <3>1. CASE n = truth.last + 1 /\ n > jump.at
      <4>1. truth.last \in Nat /\ truth.last >= jump.at
        BY <1>2, <1>3, <3>1
      <4>2. /\ stats.bad_seq = SeqOf(truth.last) + 1 /\ truth.row <= 2
            /\ truth.row = 2 => SeqOf(truth.last) = 0
        BY <4>1 DEF Waiting
      <4>3. SeqOf(truth.last) \in Seqs
        BY <1>2, <4>1, SeqType
      <4>4. seq = IF SeqOf(truth.last) + (n - truth.last) < SeqMod
                  THEN SeqOf(truth.last) + (n - truth.last)
                  ELSE SeqOf(truth.last) + (n - truth.last) - SeqMod
        <5>1. truth.last <= n /\ n - truth.last < SeqMod
          BY <2>2, <3>1, <4>1, RecvNumbers
        <5> QED
          BY <1>2, <2>2, <4>1, <5>1, SeqNear DEF seq
      <4>5. n - truth.last = 1
        BY <3>1, <4>1
      <4>6. SeqOf(truth.last) = SeqMod - 1 /\ seq = 0
        BY <1>10, <4>2, <4>3, <4>4, <4>5, RecvNumbers DEF Seqs
      <4> QED
        BY <1>3, <2>4, <3>1, <4>2, <4>6, RecvNumbers
    <3>2. CASE ~(n = truth.last + 1 /\ n > jump.at)
      BY <2>4, <3>2
    <3> QED
      BY <3>1, <3>2
  <2>10. Waiting'
    BY <1>1, <2>1, <2>3, <2>5, <2>9 DEF Waiting
  <2> QED
    BY <2>1, <2>3, <2>7, <2>8, <2>10
<1> QED
  BY <1>9, <1>10

\* A packet.
LEMMA RecvInvPacket ==
  ASSUME RecvTyped, RecvTyped', Jumped, NEW w \in Int, Reached(w), Held(w), Exact(w),
         NEW n \in rflight, RecvPacket(n)
  PROVE  LET v == IF n > w THEN n ELSE w IN Jumped' /\ Held(v)' /\ Exact(v)'
<1> DEFINE v == IF n > w THEN n ELSE w
<1>1. /\ stats' = update(stats, SeqOf(n)) /\ truth' = TruthAfter(n, stats') /\ jump' = jump
      /\ rflight' = rflight \ {n} /\ rsent' = rsent
  BY DEF RecvPacket
<1>2. /\ stats \in StatsRec /\ truth \in TruthRec /\ jump \in [at: Nat, by: Nat]
      /\ n \in 0 .. rsent - 1 /\ n \in Nat /\ rsent \in Nat /\ jump.at \in Nat
      /\ SeqOf(n) \in Seqs /\ stats.probation \in Nat /\ stats.received \in Nat
  <2>1. n \in 0 .. rsent - 1 /\ rsent \in Nat
    BY FlightFinite DEF RecvTyped
  <2>2. stats \in StatsRec /\ truth \in TruthRec /\ jump \in [at: Nat, by: Nat]
    BY DEF RecvTyped
  <2>3. SeqOf(n) \in Seqs
    BY <2>1, <2>2, SeqType
  <2>4. stats.probation \in Nat /\ stats.received \in Nat
    BY <2>2, RecvNumbers DEF StatsRec
  <2> QED
    BY <2>1, <2>2, <2>3, <2>4
<1>3. truth'.last = n /\ truth.first \in Nat /\ truth.top \in Nat
  <2>1. truth'.last = n
    BY <1>1, <1>2, TruthLast
  <2> QED
    BY <1>2, <2>1 DEF TruthRec
<1>4. v \in Int /\ v >= n /\ v >= w
  BY <1>2
<1> HIDE DEF v
<1>a. SUFFICES /\ stats'.initialized /\ stats'.received >= 1
               /\ truth'.first <= truth'.top /\ truth'.top <= v /\ truth'.top \notin rflight'
               /\ jump.by # 0 => stats'.probation = 0
               /\ Exact(v)'
  <2>1. Held(v)'
    BY <1>a, <1>1, <1>2, <1>3 DEF Held
  <2>2. Jumped'
    BY <1>a, <1>1 DEF Jumped
  <2> QED
    BY <1>a, <2>1, <2>2 DEF v
<1>5. CASE ~stats.initialized
  <2>1. stats'.received = 1 /\ stats'.initialized /\ stats'.probation > 0
    BY <1>1, <1>2, <1>5, UpdateFirst
  <2>2. stats.probation # 0 /\ jump.by = 0
    BY <1>5 DEF Held, Jumped
  <2>3. Exact(v)'
    BY <2>1 DEF Exact
  <2>4. stats'.received # stats.received
    BY <1>5, <2>1 DEF Held
  <2>5. truth'.first = n /\ truth'.top = n
    BY <1>1, <1>2, <2>1, <2>4, TruthBegun
  <2> QED
    BY <1>1, <1>2, <1>4, <2>1, <2>2, <2>3, <2>5
<1>6. CASE stats.initialized /\ stats.probation > 0
  <2>1. jump.by = 0 /\ stats.received >= 1
    BY <1>2, <1>6 DEF Jumped, Held
  <2>2. /\ stats'.initialized
        /\ \/ stats'.probation > 0 /\ stats'.received = stats.received + 1
           \/ Begun(stats', SeqOf(n)) /\ stats'.max_seq # stats.max_seq
    BY <1>1, <1>2, <1>6, UpdateInProbation
  <2>3. CASE stats'.probation > 0 /\ stats'.received = stats.received + 1
    <3>1. Exact(v)'
      BY <2>3 DEF Exact
    <3>2. stats'.received # stats.received /\ stats'.received # 1
      BY <1>2, <2>1, <2>3
    <3>3. truth'.first = truth.first /\ truth'.top = IF n > truth.top THEN n ELSE truth.top
      BY <1>1, <1>2, <3>2, TruthCounted
    <3>4. truth.first <= truth.top /\ truth.top <= w /\ truth.top \notin rflight
      BY <1>6 DEF Held
    <3> QED
      BY <1>1, <1>2, <1>3, <1>4, <2>1, <2>2, <2>3, <3>1, <3>3, <3>4
  <2>4. CASE Begun(stats', SeqOf(n)) /\ stats'.max_seq # stats.max_seq
    <3>1. /\ truth'.first = n /\ truth'.top = n
          /\ Tallied' /\ ~Limbo' /\ v - MaxLate <= truth'.top
      BY <2>4, BegunExact DEF v
    <3>2. Exact(v)'
      BY <3>1 DEF Exact
    <3> QED
      BY <1>1, <1>2, <1>4, <2>1, <2>2, <2>4, <3>1, <3>2 DEF Begun
  <2> QED
    BY <2>2, <2>3, <2>4
<1>7. CASE stats.initialized /\ stats.probation = 0
  <2>1. /\ truth.first <= truth.top /\ truth.top <= w /\ truth.top \notin rflight
        /\ stats.received >= 1
    BY <1>7 DEF Held
  <2> DEFINE u == update(stats, SeqOf(n))
  <2>2. /\ u.initialized /\ u.probation = 0
        /\ \/ u.received = stats.received + 1
           \/ Begun(u, SeqOf(n)) /\ Ahead(stats, SeqOf(n)) >= MaxDropout
           \/ u.received = stats.received /\ u.max_seq = stats.max_seq
    BY <1>2, <1>7, UpdateOfValid
  <2>3. stats' = u
    BY <1>1
  <2> HIDE DEF u
  <2>4. CASE Begun(stats', SeqOf(n)) /\ Ahead(stats, SeqOf(n)) >= MaxDropout
    <3>0. SeqOf(n) # stats.max_seq
      <4>1. stats.max_seq \in Seqs
        BY <1>2 DEF StatsRec
      <4>2. SeqOf(n) = stats.max_seq => Ahead(stats, SeqOf(n)) = 0
        BY <1>2, <4>1, RecvNumbers DEF Ahead, Seqs
      <4> QED
        BY <2>4, <4>2, RecvAssumption
    <3>1. /\ truth'.first = n /\ truth'.top = n
          /\ Tallied' /\ ~Limbo' /\ v - MaxLate <= truth'.top
      <4>1. stats'.max_seq # stats.max_seq
        BY <2>4, <3>0 DEF Begun
      <4> QED
        BY <2>4, <4>1, BegunExact DEF v
    <3>2. Exact(v)'
      BY <3>1 DEF Exact
    <3> QED
      BY <1>1, <1>2, <1>4, <2>2, <2>3, <2>4, <3>1, <3>2 DEF Begun
  <2>5. CASE ~(Begun(stats', SeqOf(n)) /\ Ahead(stats, SeqOf(n)) >= MaxDropout)
    <3>1. /\ stats'.received >= 1 /\ stats'.initialized /\ stats'.probation = 0
      BY <1>2, <2>1, <2>2, <2>3, <2>5
    <3>2. truth'.first = truth.first /\ truth'.top \in {n, truth.top}
          /\ truth'.top >= truth.top
      <4>1. CASE stats'.received = stats.received + 1
        <5>1. stats'.received # stats.received /\ stats'.received # 1
          BY <1>2, <2>1, <4>1
        <5>2. truth'.first = truth.first /\ truth'.top = IF n > truth.top THEN n ELSE truth.top
          BY <1>1, <1>2, <5>1, TruthCounted
        <5> QED
          BY <1>2, <1>3, <5>2
      <4>2. CASE stats'.received = stats.received /\ stats'.max_seq = stats.max_seq
        <5>1. truth'.first = truth.first /\ truth'.top = truth.top
          BY <1>1, <1>2, <4>2, TruthIgnored
        <5> QED
          BY <1>3, <5>1
      <4> QED
        BY <2>2, <2>3, <2>5, <4>1, <4>2
    <3>3. Settled' => Settled
      BY <1>1, <3>2 DEF Settled
    <3>4. Exact(v)'
      <4> SUFFICES ASSUME Settled' PROVE Tallied' /\ IF Limbo' THEN Waiting' ELSE v - MaxLate <= truth'.top
        BY DEF Exact
      <4>1. Settled /\ Tallied /\ IF Limbo THEN Waiting ELSE w - MaxLate <= truth.top
        BY <1>7, <3>3 DEF Exact
      <4>2. CASE Limbo
        <5>1. \/ Begun(stats', SeqOf(n)) /\ Ahead(stats, SeqOf(n)) >= MaxDropout
              \/ Tallied' /\ Limbo' /\ Waiting'
          BY <1>7, <4>1, <4>2, LimboExact
        <5> QED
          BY <2>5, <5>1
      <4>3. CASE ~Limbo
        BY <1>7, <4>1, <4>3, ValidExact DEF v
      <4> QED
        BY <4>2, <4>3
    <3> QED
      BY <1>1, <1>2, <1>3, <1>4, <2>1, <3>1, <3>2, <3>4
  <2> QED
    BY <2>4, <2>5
<1> QED
  BY <1>2, <1>5, <1>6, <1>7

\* At first nothing has arrived.
LEMMA RecvInvInit == RecvInit => RecvInv
<1> SUFFICES ASSUME RecvInit PROVE RecvInv
  OBVIOUS
<1>1. RecvTyped
  BY RecvTypedInit
<1>2. /\ stats.initialized = FALSE /\ stats.probation = MinSequential /\ stats.received = 0
      /\ rsent = 0 /\ rflight = {} /\ rlost = {} /\ jump.at = 0 /\ jump.by = 0
      /\ truth.last = -1
  BY DEF RecvInit, NewStats, NoTruth
<1>3. Cardinality(rlost) = 0
  BY <1>2, FS_EmptySet
<1>4. Reached(-1)
  BY <1>2, <1>3, RecvNumbers DEF Reached
<1>5. Held(-1) /\ Exact(-1)
  BY <1>2, RecvNumbers DEF Held, Exact
<1>6. Jumped
  BY <1>2 DEF Jumped
<1> QED
  BY <1>1, <1>2, <1>4, <1>5, <1>6 DEF RecvInv

\* Steps of the network and of the publisher do not touch the statistics.
LEMMA SameExact ==
  ASSUME RecvTyped, NEW w \in Int, Held(w), Exact(w),
         stats' = stats, truth' = truth, jump' = jump, rsent' \in Nat, rsent' >= rsent,
         truth.top \notin rflight => truth.top \notin rflight'
  PROVE  Held(w)' /\ Exact(w)'
<1>1. /\ truth.last \in Int /\ rsent \in Nat /\ jump.at \in Nat /\ jump.by \in Nat
  BY FlightFinite DEF RecvTyped, TruthRec
<1>2. Held(w)'
  BY <1>1 DEF Held
<1>3. SeqOf(truth.top)' = SeqOf(truth.top) /\ SeqOf(truth.first)' = SeqOf(truth.first)
      /\ SeqOf(truth.last)' = SeqOf(truth.last)
  BY DEF SeqOf
<1>4. TrueGot' = TrueGot /\ TrueExpected' = TrueExpected
  BY DEF TrueGot, TrueExpected
<1>5. (Tallied <=> Tallied') /\ (Waiting <=> Waiting') /\ (Limbo <=> Limbo')
  BY <1>3, <1>4 DEF Tallied, Waiting, Limbo
<1>6. Settled' => Settled
  BY <1>1, RecvNumbers DEF Settled
<1> QED
  BY <1>2, <1>5, <1>6 DEF Exact

\* The numbers jump.
LEMMA RestartExact ==
  ASSUME RecvTyped, RecvTyped', Jumped, NEW w \in Int, Reached(w), Held(w), Exact(w),
         NEW j \in Jumps, Restart(j)
  PROVE  Jumped' /\ Held(w)' /\ Exact(w)'
<1>1. /\ stats' = stats /\ truth' = truth /\ rsent' = rsent /\ rflight' = rflight
      /\ rlost' = rlost /\ jump' = [at |-> rsent, by |-> j] /\ rflight = {} /\ jump.by = 0
      /\ stats.probation = 0
  BY DEF Restart
<1>2. jump'.at = rsent /\ jump'.by = j /\ j \in Nat /\ (j = 0 \/ j >= MaxDropout)
  BY <1>1, RecvAssumption, RecvNetwork
<1>3. /\ truth.last \in Int /\ rsent \in Nat /\ truth.first \in Nat /\ truth.top \in Nat
  BY FlightFinite DEF RecvTyped, TruthRec
<1>4. Jumped'
  BY <1>1, <1>2, <1>3 DEF Jumped
<1>5. Held(w)'
  BY <1>1 DEF Held
<1>6. stats.initialized /\ truth.first <= truth.top /\ truth.top <= w /\ truth.last < rsent
      /\ w \in -1 .. rsent - 1
  BY <1>1 DEF Held, Reached
<1>7. Tallied /\ w - MaxLate <= truth.top
  BY <1>1 DEF Exact, Settled, Limbo
<1>8. SeqOf(truth.top)' = SeqOf(truth.top) /\ SeqOf(truth.first)' = SeqOf(truth.first)
  BY <1>1, <1>2, <1>3, <1>6 DEF SeqOf
<1>9. TrueGot' = TrueGot /\ TrueExpected' = TrueExpected
  BY <1>1 DEF TrueGot, TrueExpected
<1>10. Tallied'
  BY <1>1, <1>7, <1>8, <1>9 DEF Tallied
<1>11. Waiting'
  <2>1. rsent - w <= MaxLost + 1
    BY <1>1, QuietBound
  <2>2. rsent - truth.top <= MaxLost + MaxLate + 1 /\ truth.top < rsent
    BY <1>3, <1>6, <1>7, <2>1, RecvNumbers
  <2>3. ~(truth.last >= rsent)
    BY <1>3, <1>6
  <2> QED
    BY <1>1, <1>2, <2>2, <2>3 DEF Waiting
<1>12. Exact(w)'
  BY <1>1, <1>7, <1>10, <1>11 DEF Exact
<1> QED
  BY <1>4, <1>5, <1>12

\* The range is as long as the statistics say.
LEMMA ExpectedExact ==
  ASSUME RecvTyped, NEW w \in Int, Reached(w), Held(w), Tallied, stats.initialized
  PROVE  /\ Expected(stats) = TrueExpected /\ TrueExpected \in 1 .. Mod32 - 1
         /\ TrueGot \in 1 .. Mod32 - 1
<1>1. /\ truth.first \in Nat /\ truth.top \in Nat /\ rsent \in Nat /\ rsent <= MaxSent
      /\ truth.first <= truth.top /\ truth.top <= w /\ w \in -1 .. rsent - 1
  BY FlightFinite DEF RecvTyped, TruthRec, Held, Reached
<1>2. TrueExpected \in 1 .. Mod32 - 1
  BY <1>1, RecvNumbers DEF TrueExpected
<1>3. TrueGot \in 1 .. Mod32 - 1
  BY FlightFinite, RecvNumbers DEF Tallied, Held, RecvTyped
<1> DEFINE x == stats.cycles + stats.max_seq - stats.base_seq + 1
<1>4. x = TrueExpected
  <2>1. stats.cycles + stats.max_seq - stats.base_seq = truth.top - truth.first
    BY DEF Tallied
  <2> QED
    BY <2>1 DEF TrueExpected
<1>5. Expected(stats) = x % Mod32
  BY DEF Expected
<1> HIDE DEF x
<1>6. x % Mod32 = x
  BY <1>2, <1>4, RecvNumbers
<1> QED
  BY <1>2, <1>3, <1>4, <1>5, <1>6

\* A report is sent, and the next one begins after it.
LEMMA ReportStep ==
  ASSUME RecvTyped, RecvTyped', Jumped, NEW w \in Int, Reached(w), Held(w), Exact(w), RecvReport
  PROVE  Jumped' /\ Held(w)' /\ Exact(w)'
<1>1. /\ rsent' = rsent /\ jump' = jump /\ rflight' = rflight /\ rlost' = rlost
      /\ stats.initialized /\ stats' = Snapshot(stats)
      /\ truth' = [truth EXCEPT !.expected = TrueExpected, !.got = TrueGot]
  BY DEF RecvReport
<1>2. /\ stats'.max_seq = stats.max_seq /\ stats'.base_seq = stats.base_seq
      /\ stats'.cycles = stats.cycles /\ stats'.received = stats.received
      /\ stats'.probation = stats.probation /\ stats'.bad_seq = stats.bad_seq
      /\ stats'.expected_prior = Expected(stats) /\ stats'.received_prior = stats.received
  BY <1>1 DEF Snapshot, RecvTyped, StatsRec
<1>3. stats'.initialized
  BY <1>1 DEF Snapshot, RecvTyped, StatsRec
<1>4. /\ truth'.first = truth.first /\ truth'.top = truth.top
      /\ truth'.seen = truth.seen /\ truth'.stray = truth.stray
      /\ truth'.row = truth.row /\ truth'.last = truth.last
      /\ truth'.expected = TrueExpected /\ truth'.got = TrueGot
  BY <1>1 DEF RecvTyped, TruthRec
<1>5. Jumped'
  BY <1>1, <1>2 DEF Jumped
<1>6. Held(w)'
  BY <1>1, <1>2, <1>3, <1>4 DEF Held
<1>7. SeqOf(truth.top)' = SeqOf(truth.top) /\ SeqOf(truth.first)' = SeqOf(truth.first)
      /\ SeqOf(truth.last)' = SeqOf(truth.last)
  BY <1>1, <1>4 DEF SeqOf
<1>8. TrueGot' = TrueGot /\ TrueExpected' = TrueExpected
  BY <1>4 DEF TrueGot, TrueExpected
<1>9. Tallied => Tallied'
  <2> SUFFICES ASSUME Tallied PROVE Tallied'
    OBVIOUS
  <2>1. Expected(stats) = TrueExpected /\ TrueExpected \in Int /\ TrueGot \in Int
    BY <1>1, ExpectedExact
  <2>2. ~(TrueExpected < TrueExpected) /\ TrueExpected <= TrueExpected /\ TrueGot <= TrueGot
    BY <2>1
  <2> QED
    BY <1>2, <1>4, <1>7, <1>8, <2>1, <2>2 DEF Tallied
<1>10. (Limbo <=> Limbo') /\ (Waiting <=> Waiting') /\ (Settled <=> Settled')
  BY <1>1, <1>2, <1>4, <1>7 DEF Limbo, Waiting, Settled
<1>11. Exact(w)'
  BY <1>2, <1>4, <1>9, <1>10 DEF Exact
<1> QED
  BY <1>5, <1>6, <1>11

\* Every step keeps the invariant.
LEMMA RecvInvStep == RecvInv /\ [RecvNext]_recvVars => RecvInv'
<1> SUFFICES ASSUME RecvInv, [RecvNext]_recvVars PROVE RecvInv'
  OBVIOUS
<1>1. RecvTyped /\ Jumped /\ RecvTyped'
  BY RecvTypedStep DEF RecvInv
<1>2. PICK w \in -1 .. rsent - 1 : Reached(w) /\ Held(w) /\ Exact(w)
  BY DEF RecvInv
<1>3. rsent \in Nat /\ w \in Int /\ rflight \subseteq 0 .. rsent - 1
  BY <1>1, <1>2, FlightFinite DEF RecvTyped
<1>4. CASE RecvSend
  <2>1. /\ stats' = stats /\ rlost' = rlost /\ jump' = jump /\ truth' = truth
        /\ rflight' = rflight \cup {rsent} /\ rsent' = rsent + 1
    BY <1>4 DEF RecvSend
  <2>2. Reached(w)' /\ w \in -1 .. rsent' - 1
    <3>1. w \in -1 .. rsent' - 1 /\ w \notin rflight'
      BY <1>2, <1>3, <2>1 DEF Reached
    <3>2. \A m \in w + 1 .. rsent' - 1 : m \in rflight' \cup rlost'
      BY <1>2, <1>3, <2>1 DEF Reached
    <3>3. \A m \in rflight' : w - m <= MaxLate
      BY <1>2, <1>3, <2>1, RecvNumbers DEF Reached
    <3> QED
      BY <1>2, <2>1, <3>1, <3>2, <3>3 DEF Reached
  <2>3. Jumped'
    BY <1>1, <1>3, <2>1 DEF Jumped, RecvTyped
  <2>4. Held(w)' /\ Exact(w)'
    <3>1. truth.top \notin rflight => truth.top \notin rflight' \/ truth.top = rsent
      BY <2>1
    <3>2. stats.initialized => truth.top # rsent
      BY <1>2, <1>3 DEF Held
    <3>3. CASE stats.initialized
      BY <1>1, <1>2, <1>3, <2>1, <3>1, <3>2, <3>3, SameExact
    <3>4. CASE ~stats.initialized
      <4>1. stats.probation # 0
        BY <1>2, <3>4 DEF Held
      <4>2. Exact(w)'
        BY <2>1, <4>1 DEF Exact
      <4>3. Held(w)'
        BY <1>1, <1>2, <1>3, <2>1, <3>4 DEF Held, RecvTyped, TruthRec
      <4> QED
        BY <4>2, <4>3
    <3> QED
      BY <3>3, <3>4
  <2> QED
    BY <1>1, <2>2, <2>3, <2>4 DEF RecvInv
<1>5. CASE \E n \in rflight : RecvLose(n)
  <2>1. PICK n \in rflight : RecvLose(n)
    BY <1>5
  <2>2. /\ stats' = stats /\ rsent' = rsent /\ jump' = jump /\ truth' = truth
        /\ rflight' = rflight \ {n} /\ rlost' = rlost \cup {n} /\ Cardinality(rlost) < MaxLost
    BY <2>1 DEF RecvLose
  <2>3. Cardinality(rlost') <= MaxLost
    <3>1. Cardinality(rlost') \in {Cardinality(rlost), Cardinality(rlost) + 1}
      BY <1>1, <2>2, FlightFinite, FS_AddElement
    <3> QED
      BY <1>1, <2>2, <3>1, FlightFinite, RecvNumbers
  <2>4. Reached(w)' /\ w \in -1 .. rsent' - 1
    BY <1>2, <2>2, <2>3 DEF Reached
  <2>5. Jumped'
    BY <1>1, <2>2 DEF Jumped
  <2>6. Held(w)' /\ Exact(w)'
    BY <1>1, <1>2, <1>3, <2>2, SameExact
  <2> QED
    BY <1>1, <2>4, <2>5, <2>6 DEF RecvInv
<1>6. CASE \E n \in rflight : RecvPacket(n)
  <2>1. PICK n \in rflight : RecvPacket(n)
    BY <1>6
  <2> DEFINE v == IF n > w THEN n ELSE w
  <2>2. v \in -1 .. rsent' - 1 /\ Reached(v)'
    BY <1>1, <1>2, <1>3, <2>1, ReachedPacket
  <2>3. Jumped' /\ Held(v)' /\ Exact(v)'
    BY <1>1, <1>2, <1>3, <2>1, RecvInvPacket
  <2> HIDE DEF v
  <2> QED
    BY <1>1, <2>2, <2>3 DEF RecvInv
<1>7. CASE \E j \in Jumps : Restart(j)
  <2>1. PICK j \in Jumps : Restart(j)
    BY <1>7
  <2>2. rsent' = rsent /\ rflight' = rflight /\ rlost' = rlost
    BY <2>1 DEF Restart
  <2>3. Reached(w)' /\ w \in -1 .. rsent' - 1
    BY <1>2, <2>2 DEF Reached
  <2>4. Jumped' /\ Held(w)' /\ Exact(w)'
    BY <1>1, <1>2, <1>3, <2>1, RestartExact
  <2> QED
    BY <1>1, <2>3, <2>4 DEF RecvInv
<1>8. CASE RecvReport
  <2>2. rsent' = rsent /\ rflight' = rflight /\ rlost' = rlost
    BY <1>8 DEF RecvReport
  <2>3. Reached(w)' /\ w \in -1 .. rsent' - 1
    BY <1>2, <2>2 DEF Reached
  <2>4. Jumped' /\ Held(w)' /\ Exact(w)'
    BY <1>1, <1>2, <1>3, <1>8, ReportStep
  <2> QED
    BY <1>1, <2>3, <2>4 DEF RecvInv
<1>9. CASE UNCHANGED recvVars
  <2>1. /\ stats' = stats /\ rsent' = rsent /\ jump' = jump /\ truth' = truth
        /\ rflight' = rflight /\ rlost' = rlost
    BY <1>9 DEF recvVars
  <2>2. Reached(w)' /\ w \in -1 .. rsent' - 1 /\ Jumped'
    BY <1>1, <1>2, <2>1 DEF Reached, Jumped
  <2>3. Held(w)' /\ Exact(w)'
    BY <1>1, <1>2, <1>3, <2>1, SameExact
  <2> QED
    BY <1>1, <2>2, <2>3 DEF RecvInv
<1> QED
  BY <1>4, <1>5, <1>6, <1>7, <1>8, <1>9 DEF RecvNext

\* A fraction of which less than all is lost fits into a byte.
LEMMA FractionByte ==
  ASSUME NEW part \in Nat, NEW all \in Nat, part < all
  PROVE  (part * 256) \div all \in 0 .. 255
<1> DEFINE q == (part * 256) \div all
           p == part * 256
<1>1. p \in Nat /\ p < 256 * all /\ all > 0
  OBVIOUS
<1> HIDE DEF p
<1>2. p \div all \in Int /\ all * (p \div all) <= p /\ p < all * (p \div all) + all
  BY <1>1
<1> DEFINE d == p \div all
<1> HIDE DEF d
<1>3. d \in Int /\ all * d <= p /\ p < all * d + all
  BY <1>2 DEF d
<1>4. d <= 255
  <2> SUFFICES ASSUME d >= 256 PROVE FALSE
    BY <1>3
  <2>1. all * d >= all * 256
    BY <1>1, <1>3
  <2> QED
    BY <1>1, <1>3, <2>1
<1>5. d >= 0
  <2> SUFFICES ASSUME d <= -1 PROVE FALSE
    BY <1>3
  <2>1. all * d <= -all
    BY <1>1, <1>3
  <2>2. all * d \in Int
    BY <1>1, <1>3
  <2> QED
    BY <1>1, <1>3, <2>1, <2>2
<1> QED
  BY <1>3, <1>4, <1>5 DEF d, p

\* What a report of a tallied range says.
LEMMA TalliedReport ==
  ASSUME RecvTyped, NEW w \in Int, Reached(w), Held(w), Tallied, stats.initialized
  PROVE  ReportExact
<1> DEFINE expected == TrueExpected - truth.expected
           got == TrueGot - truth.got
<1>1. /\ Expected(stats) = TrueExpected /\ TrueExpected \in 1 .. Mod32 - 1
      /\ TrueGot \in 1 .. Mod32 - 1
  BY ExpectedExact
<1>2. /\ stats.expected_prior = truth.expected /\ truth.expected <= TrueExpected
      /\ stats.received_prior = truth.got /\ truth.got <= TrueGot
      /\ (truth.expected < TrueExpected => truth.got < TrueGot)
      /\ stats.received = TrueGot
      /\ stats.max_seq = SeqOf(truth.top)
      /\ stats.cycles + stats.max_seq - stats.base_seq = truth.top - truth.first
  BY DEF Tallied
<1>3. truth.expected \in 0 .. Mod32 - 1 /\ truth.got \in Nat
  BY <1>2 DEF RecvTyped, StatsRec, U32, TruthRec
<1>4. expected \in 0 .. Mod32 - 1 /\ got \in 0 .. Mod32 - 1 /\ (expected > 0 => got > 0)
  BY <1>1, <1>2, <1>3, RecvNumbers
<1>5. (Expected(stats) - stats.expected_prior) % Mod32 = expected
  <2>1. Expected(stats) - stats.expected_prior = expected
    BY <1>1, <1>2
  <2> HIDE DEF expected
  <2> QED
    BY <1>4, <2>1, RecvNumbers
<1>6. (stats.received - stats.received_prior) % Mod32 = got
  <2>1. stats.received - stats.received_prior = got
    BY <1>2
  <2> HIDE DEF got
  <2> QED
    BY <1>4, <2>1, RecvNumbers
<1> HIDE DEF expected, got
<1>7. Due.fraction = IF expected > 0 THEN (Monus(expected, got) * 256) \div expected ELSE 0
  BY <1>5, <1>6 DEF Due, build_rr_block
<1>8. Due.cum_lost = MinOf(Monus(TrueExpected, TrueGot), MaxCumLost)
  BY <1>1, <1>2 DEF Due, build_rr_block
<1>9. Due.ext_seq = stats.cycles + stats.max_seq
  BY DEF Due, build_rr_block
<1>10. stats.cycles \in Nat /\ stats.max_seq \in Seqs /\ stats.base_seq \in Int
       /\ stats.cycles % SeqMod = 0
  BY RecvNumbers DEF RecvTyped, StatsRec, Seqs
<1>11. Due.ext_seq - stats.base_seq = truth.top - truth.first
  <2>1. stats.cycles + stats.max_seq - stats.base_seq = truth.top - truth.first
    BY <1>2
  <2> DEFINE e == stats.cycles + stats.max_seq
  <2>2. e - stats.base_seq = truth.top - truth.first
    BY <1>10, <2>1, RecvNumbers DEF Seqs
  <2>3. Due.ext_seq = e
    BY <1>9
  <2> HIDE DEF e
  <2> QED
    BY <2>2, <2>3
<1>12. Due.ext_seq % SeqMod = SeqOf(truth.top)
  <2>1. SeqMod \in Nat \ {0} /\ stats.cycles \in Int /\ stats.max_seq \in Int
        /\ stats.max_seq \in 0 .. SeqMod - 1
    BY <1>10, RecvNumbers DEF Seqs
  <2>2. ((stats.cycles % SeqMod) + stats.max_seq) % SeqMod = (stats.cycles + stats.max_seq) % SeqMod
    BY <2>1, RemainderInside
  <2>3. (stats.cycles % SeqMod) + stats.max_seq = stats.max_seq
    BY <1>10, <2>1
  <2>4. stats.max_seq % SeqMod = stats.max_seq
    BY <2>1
  <2> QED
    BY <1>2, <1>9, <2>2, <2>3, <2>4
<1>13. Due.fraction \in 0 .. 255
  <2>1. CASE expected > 0
    <3>1. Monus(expected, got) \in Nat /\ Monus(expected, got) < expected /\ expected \in Nat
      BY <1>4, <2>1, RecvNumbers DEF Monus
    <3>2. (Monus(expected, got) * 256) \div expected \in 0 .. 255
      BY <3>1, FractionByte
    <3> QED
      BY <1>7, <2>1, <3>2
  <2>2. CASE ~(expected > 0)
    BY <1>7, <2>2
  <2> QED
    BY <2>1, <2>2
<1>14. Due.fraction = IF TrueExpected - truth.expected > 0
                      THEN (Monus(TrueExpected - truth.expected, TrueGot - truth.got) * 256)
                             \div (TrueExpected - truth.expected)
                      ELSE 0
  BY <1>7 DEF expected, got
<1> QED
  BY <1>8, <1>11, <1>12, <1>13, <1>14 DEF ReportExact

\* What the invariant says of the reports and of restarts.
LEMMA RecvInvMeaning == RecvInv => (Settled => ReportExact /\ RestartNoticed)
<1> SUFFICES ASSUME RecvInv, Settled PROVE ReportExact /\ RestartNoticed
  OBVIOUS
<1>1. PICK w \in -1 .. rsent - 1 : Reached(w) /\ Held(w) /\ Exact(w)
  BY DEF RecvInv
<1>2. RecvTyped /\ w \in Int /\ Jumped
  BY DEF RecvInv
<1>3. ReportExact
  <2>1. CASE stats.probation = 0
    <3>1. Tallied /\ stats.initialized
      BY <1>1, <2>1 DEF Exact, Held
    <3> QED
      BY <1>1, <1>2, <3>1, TalliedReport
  <2>2. CASE stats.probation # 0
    BY <2>2 DEF ReportExact
  <2> QED
    BY <2>1, <2>2
<1>4. RestartNoticed
  <2> SUFFICES ASSUME jump.by # 0, truth.last >= jump.at, truth.row >= 3, ~(truth.first >= jump.at)
               PROVE FALSE
    BY DEF RestartNoticed
  <2>1. truth.first \in Nat /\ truth.row \in Nat /\ jump.at \in Nat
    BY <1>2 DEF RecvTyped, TruthRec
  <2>2. Limbo
    BY <2>1 DEF Limbo
  <2>3. Waiting
    BY <1>1, <1>2, <2>2 DEF Exact, Jumped
  <2> QED
    BY <2>1, <2>3 DEF Waiting
<1> QED
  BY <1>3, <1>4

\* RecvStats: the invariant the reports rest on.
THEOREM RecvInvariant == RecvSpec => []RecvInv
<1>1. RecvInv /\ [RecvNext]_recvVars => RecvInv'
  BY RecvInvStep
<1> QED
  BY RecvInvInit, <1>1, PTL DEF RecvSpec

\* Every report of a validated stream is true, whatever the sizes of the counters, the loss,
\* the reordering and the restart, as long as a restart that goes unnoticed has not brought
\* the new numbers round to the old ones (rtcp_terminator.rs, update and build_rr_block).
THEOREM ReportsExact == RecvSpec => [](Settled => ReportExact)
BY RecvInvariant, RecvInvMeaning, PTL

\* Under the same condition three packets in order after a restart are enough for it to be
\* noticed, the first of them being number 65535 or not.
THEOREM RestartsNoticed == RecvSpec => [](Settled => RestartNoticed)
BY RecvInvariant, RecvInvMeaning, PTL

-----------------------------------------------------------------------------
(* Twcc: numbers and slots *)

\* A number is its quotient and its remainder.
LEMMA QuotientRemainder ==
  ASSUME NEW m \in Nat \ {0}, NEW x \in Int
  PROVE  x \div m \in Int /\ x = m * (x \div m) + (x % m)
<1>1. m \in Nat /\ m > 0
  OBVIOUS
<1>2. x \div m \in Int
  BY <1>1
<1>3. x = m * (x \div m) + (x % m)
  BY <1>1
<1> QED
  BY <1>2, <1>3

\* The constants as numbers: the ring divides the numbers into at least two laps.
LEMMA TwccNumbers ==
  /\ NumMod \in Nat \ {0} /\ Capacity \in Nat \ {0} /\ Laps \in Nat /\ Laps >= 2
  /\ NumMod = Capacity * Laps /\ Capacity + Capacity <= NumMod
  /\ FirstNum \in 0 .. NumMod - 1 /\ StepBack \in 0 .. Capacity - 1
  /\ MaxPending \in Nat /\ MaxPending > 0 /\ MaxPending + MaxPending + 1 < NumMod
  /\ NumMod \div 2 \in Nat /\ MaxPending < NumMod \div 2 /\ Capacity <= NumMod \div 2
  /\ (NumMod \div 2) + (NumMod \div 2) <= NumMod
  /\ MaxBehind \in 0 .. Capacity - 1 /\ MaxPackets \in Nat
<1>1. /\ NumMod \in Nat \ {0} /\ Capacity \in Nat \ {0} /\ NumMod % Capacity = 0 /\ Capacity < NumMod
      /\ FirstNum \in 0 .. NumMod - 1 /\ StepBack \in 0 .. Capacity - 1 /\ MaxPackets \in Nat
  BY TwccAssumption
<1>2. Laps \in Int /\ NumMod = Capacity * Laps
  BY <1>1, QuotientRemainder DEF Laps
<1>3. Laps >= 2
  <2>1. Laps <= 1 => Capacity * Laps <= Capacity
    BY <1>1, <1>2
  <2> QED
    BY <1>1, <1>2, <2>1
<1>4. Capacity + Capacity <= NumMod
  <2>1. Capacity * Laps >= Capacity * 2
    BY <1>1, <1>2, <1>3
  <2> QED
    BY <1>1, <1>2, <2>1
<1>5. /\ NumMod \div 2 \in Nat /\ (NumMod \div 2) + (NumMod \div 2) <= NumMod
      /\ NumMod <= (NumMod \div 2) + (NumMod \div 2) + 1
  BY <1>1
<1>6. /\ MaxPending \in Nat /\ MaxPending > 0 /\ MaxPending < NumMod \div 2
      /\ MaxPending + MaxPending + 1 < NumMod
  BY <1>1, <1>5, TwccNetwork
<1>7. Capacity <= NumMod \div 2
  BY <1>1, <1>4, <1>5
<1> QED
  BY <1>1, <1>2, <1>3, <1>4, <1>5, <1>6, <1>7, TwccNetwork

\* The number of a packet, and those of its neighbours.
LEMMA NumOfType ==
  ASSUME NEW q \in Int
  PROVE  NumOf(q) \in 0 .. NumMod - 1
<1>1. FirstNum + q \in Int
  BY TwccNumbers
<1> QED
  BY <1>1, TwccNumbers, DivMod DEF NumOf

LEMMA NumPlus ==
  ASSUME NEW q \in Int, NEW d \in Int
  PROVE  (NumOf(q) + d) % NumMod = NumOf(q + d)
<1>1. FirstNum + q \in Int /\ FirstNum + q + d = FirstNum + (q + d) /\ NumMod \in Nat \ {0}
  BY TwccNumbers
<1>2. (((FirstNum + q) % NumMod) + d) % NumMod = (FirstNum + q + d) % NumMod
  BY <1>1, RemainderInside
<1> QED
  BY <1>1, <1>2 DEF NumOf

LEMMA NumNear ==
  ASSUME NEW a \in Int, NEW b \in Int, a <= b, b - a < NumMod
  PROVE  (NumOf(b) - NumOf(a)) % NumMod = b - a
<1> DEFINE x == FirstNum + a
           d == b - a
<1>1. x \in Int /\ d \in 0 .. NumMod - 1 /\ NumMod \in Nat \ {0} /\ x + d = FirstNum + b
  BY TwccNumbers
<1>2. (((x + d) % NumMod) - (x % NumMod)) % NumMod = d
  <2> HIDE DEF x, d
  <2> QED
    BY <1>1, RemainderNear
<1> QED
  BY <1>1, <1>2 DEF NumOf

LEMMA NumBack ==
  ASSUME NEW a \in Int, NEW b \in Int, a < b, b - a < NumMod
  PROVE  (NumOf(a) - NumOf(b)) % NumMod = NumMod - (b - a)
<1> DEFINE x == FirstNum + a
           d == b - a
<1>1. x \in Int /\ d \in 1 .. NumMod - 1 /\ NumMod \in Nat \ {0} /\ x + d = FirstNum + b
  BY TwccNumbers
<1>2. ((x % NumMod) - ((x + d) % NumMod)) % NumMod = NumMod - d
  <2> HIDE DEF x, d
  <2> QED
    BY <1>1, RemainderBack
<1> QED
  BY <1>1, <1>2 DEF NumOf

\* Two packets with the same number are a whole round apart.
LEMMA NumApart ==
  ASSUME NEW a \in Int, NEW b \in Int, a < b, NumOf(a) = NumOf(b)
  PROVE  b - a >= NumMod
<1> SUFFICES ASSUME b - a < NumMod PROVE FALSE
  BY TwccNumbers
<1>1. (NumOf(b) - NumOf(a)) % NumMod = b - a
  BY NumNear
<1>2. NumOf(b) - NumOf(a) = 0
  BY NumOfType
<1> QED
  BY <1>1, <1>2, TwccNumbers

\* The slot of a packet.
Slot(q) == NumOf(q) % Capacity

LEMMA SlotDirect ==
  ASSUME NEW q \in Int
  PROVE  Slot(q) \in 0 .. Capacity - 1 /\ Slot(q) = (FirstNum + q) % Capacity
<1> DEFINE x == FirstNum + q
<1>1. x \in Int /\ NumMod \in Nat \ {0} /\ Capacity \in Nat \ {0} /\ Laps \in Int
  BY TwccNumbers
<1>2. NumOf(q) \in Int
  BY NumOfType
<1>3. Slot(q) \in 0 .. Capacity - 1
  BY <1>1, <1>2, DivMod DEF Slot
<1> HIDE DEF x
<1>4. PICK k \in Int : x = NumMod * k + (x % NumMod)
  BY <1>1, DivMod
<1> DEFINE y == x % NumMod
<1>5. y \in Int
  BY <1>1
<1> HIDE DEF y
<1>6. x = y + Capacity * (Laps * k)
  <2>1. (Capacity * Laps) * k = Capacity * (Laps * k)
    BY <1>1, <1>4
  <2>2. NumMod * k = Capacity * (Laps * k)
    BY <2>1, TwccNumbers
  <2>3. Capacity * (Laps * k) \in Int
    BY <1>1, <1>4
  <2> QED
    BY <1>4, <1>5, <2>2, <2>3 DEF y
<1>7. (y + Capacity * (Laps * k)) % Capacity = y % Capacity
  <2>1. Laps * k \in Int
    BY <1>1, <1>4
  <2> QED
    BY <1>1, <1>5, <2>1, RemainderShift
<1> QED
  BY <1>3, <1>6, <1>7 DEF x, y, Slot, NumOf

\* Two packets of the same slot are a lap apart.
LEMMA SlotApart ==
  ASSUME NEW a \in Int, NEW b \in Int, a < b, Slot(a) = Slot(b)
  PROVE  b - a >= Capacity
<1> SUFFICES ASSUME b - a < Capacity PROVE FALSE
  BY TwccNumbers
<1> DEFINE x == FirstNum + a
           d == b - a
<1>1. x \in Int /\ d \in 0 .. Capacity - 1 /\ d # 0 /\ Capacity \in Nat \ {0} /\ x + d = FirstNum + b
  BY TwccNumbers
<1>2. (((x + d) % Capacity) - (x % Capacity)) % Capacity = d
  <2> HIDE DEF x, d
  <2> QED
    BY <1>1, RemainderNear
<1>3. (x + d) % Capacity = x % Capacity
  BY <1>1, SlotDirect
<1> DEFINE z == x % Capacity
<1>4. z \in Int
  BY <1>1
<1> HIDE DEF z, d
<1>5. (z - z) % Capacity = d
  BY <1>2, <1>3 DEF z
<1> QED
  BY <1>1, <1>4, <1>5

\* Whole laps do not change the slot.
LEMMA SlotLaps ==
  ASSUME NEW q \in Int, NEW k \in Int
  PROVE  Slot(q + Capacity * k) = Slot(q)
<1>1. FirstNum + q \in Int /\ Capacity \in Nat \ {0} /\ Capacity * k \in Int
  BY TwccNumbers
<1>2. ((FirstNum + q) + Capacity * k) % Capacity = (FirstNum + q) % Capacity
  BY <1>1, RemainderShift
<1>3. FirstNum + (q + Capacity * k) = (FirstNum + q) + Capacity * k
  BY <1>1, TwccNumbers
<1>4. Slot(q) = (FirstNum + q) % Capacity
  BY SlotDirect
<1>5. Slot(q + Capacity * k) = (FirstNum + (q + Capacity * k)) % Capacity
  <2>1. q + Capacity * k \in Int
    BY <1>1
  <2> QED
    BY <2>1, SlotDirect
<1> QED
  BY <1>2, <1>3, <1>4, <1>5

-----------------------------------------------------------------------------
(* Twcc: the types *)

EntryRec == [num: -1 .. NumMod - 1, at: Nat]

RecorderRec ==
  [started: BOOLEAN, base: 0 .. NumMod - 1, max: 0 .. NumMod - 1,
   ring: [0 .. Capacity - 1 -> EntryRec]]

\* An entry is of a number of its slot.
Sorted(ring) == \A i \in 0 .. Capacity - 1 : ring[i] = NoEntry \/ ring[i].num % Capacity = i

TwccTyped ==
  /\ rec \in RecorderRec /\ Sorted(rec.ring)
  /\ tsent \in 0 .. MaxPackets /\ tflight \subseteq 0 .. tsent - 1
  /\ tlost \subseteq 0 .. tsent - 1 /\ now \in Nat

LEMMA TwccTypedMeaning == TwccTyped => TwccTypeOK
BY DEF TwccTyped, TwccTypeOK, RecorderRec, Sorted

\* What record stores, and where.
LEMMA RecordFields ==
  ASSUME NEW r \in RecorderRec, NEW num \in 0 .. NumMod - 1, NEW t \in Nat
  PROVE  LET e == [num |-> num, at |-> t]
             u == record(r, num, t)
         IN  /\ u \in RecorderRec /\ u.started /\ e \in EntryRec
             /\ u.ring = [r.ring EXCEPT ![num % Capacity] = e]
             /\ ~r.started => u.base = num /\ u.max = num
             /\ r.started => /\ u.base = r.base
                             /\ u.max = IF Newer(num, r.max) THEN num ELSE r.max
<1> DEFINE e == [num |-> num, at |-> t]
           ring == [r.ring EXCEPT ![num % Capacity] = e]
           s == [r EXCEPT !.ring = ring]
           max == IF Newer(num, r.max) THEN num ELSE r.max
<1>1. e \in EntryRec
  BY TwccNumbers DEF EntryRec
<1>2. ring \in [0 .. Capacity - 1 -> EntryRec]
  BY <1>1 DEF RecorderRec
<1>3. record(r, num, t) = IF ~r.started
                          THEN [s EXCEPT !.started = TRUE, !.base = num, !.max = num]
                          ELSE [s EXCEPT !.max = max]
  BY DEF record, RecorderRec
<1>4. max \in 0 .. NumMod - 1
  BY DEF RecorderRec
<1> HIDE DEF e, ring, max
<1>5. s \in RecorderRec /\ s.ring = ring /\ s.base = r.base /\ s.max = r.max
  BY <1>2 DEF RecorderRec
<1>6. s.started = r.started
  BY <1>2 DEF RecorderRec
<1> HIDE DEF s
<1>7. CASE ~r.started
  <2> DEFINE u == [s EXCEPT !.started = TRUE, !.base = num, !.max = num]
  <2>1. u \in RecorderRec /\ u.started /\ u.ring = ring /\ u.base = num /\ u.max = num
    BY <1>5 DEF RecorderRec
  <2> HIDE DEF u
  <2>2. record(r, num, t) = u
    BY <1>3, <1>7 DEF u
  <2> QED
    BY <1>1, <1>7, <2>1, <2>2 DEF e, ring
<1>8. CASE r.started
  <2> DEFINE u == [s EXCEPT !.max = max]
  <2>1. u \in RecorderRec /\ u.ring = ring /\ u.base = r.base /\ u.max = max
    BY <1>4, <1>5 DEF RecorderRec
  <2>2. u.started
    BY <1>5, <1>6, <1>8 DEF RecorderRec
  <2> HIDE DEF u
  <2>3. record(r, num, t) = u
    BY <1>3, <1>8 DEF u
  <2> QED
    BY <1>1, <1>8, <2>1, <2>2, <2>3 DEF e, ring, max
<1> QED
  BY <1>7, <1>8

\* The window record leaves, once there is one, and at first.
MaxAfter(r, num) == IF Newer(num, r.max) THEN num ELSE r.max

LEMMA RecordStarted ==
  ASSUME NEW r \in RecorderRec, NEW num \in 0 .. NumMod - 1, NEW t \in Nat, r.started
  PROVE  record(r, num, t).base = r.base /\ record(r, num, t).max = MaxAfter(r, num)
BY RecordFields DEF MaxAfter

LEMMA RecordFirst ==
  ASSUME NEW r \in RecorderRec, NEW num \in 0 .. NumMod - 1, NEW t \in Nat, ~r.started
  PROVE  record(r, num, t).base = num /\ record(r, num, t).max = num
BY RecordFields

\* What is pending is a number of the width.
LEMMA PendingType ==
  ASSUME NEW r \in RecorderRec
  PROVE  pending_count(r) \in 0 .. NumMod - 1
<1>1. r.max - r.base + 1 \in Int
  BY TwccNumbers DEF RecorderRec
<1>2. (r.max - r.base + 1) % NumMod \in 0 .. NumMod - 1
  BY <1>1, TwccNumbers, DivMod
<1> QED
  BY <1>2, TwccNumbers DEF pending_count

LEMMA TwccTypedInit == TwccInit => TwccTyped
<1> SUFFICES ASSUME TwccInit PROVE TwccTyped
  OBVIOUS
<1>1. NoEntry \in EntryRec
  BY TwccNumbers DEF NoEntry, EntryRec
<1>2. NewRecorder \in RecorderRec /\ Sorted(NewRecorder.ring)
  BY <1>1, TwccNumbers DEF NewRecorder, RecorderRec, Sorted
<1> QED
  BY <1>2, TwccNumbers DEF TwccInit, TwccTyped

LEMMA TwccTypedPacket ==
  ASSUME TwccTyped, NEW n \in tflight, NEW p \in Pauses, TwccPacket(n, p)
  PROVE  TwccTyped'
<1> DEFINE t == IF rec.started THEN now + p ELSE 0
<1>1. /\ rec' = record(rec, NumOf(n), t) /\ now' = t /\ tsent' = tsent /\ tlost' = tlost
      /\ tflight' = tflight \ {n}
  BY DEF TwccPacket
<1>2. t \in Nat /\ n \in Int
  BY TwccAssumption, TwccNumbers DEF TwccTyped
<1> HIDE DEF t
<1>3. NumOf(n) \in 0 .. NumMod - 1 /\ Slot(n) \in 0 .. Capacity - 1
  BY <1>2, NumOfType, SlotDirect
<1>4. /\ rec' \in RecorderRec
      /\ rec'.ring = [rec.ring EXCEPT ![Slot(n)] = [num |-> NumOf(n), at |-> t]]
  BY <1>1, <1>2, <1>3, RecordFields DEF TwccTyped, Slot
<1>5. Sorted(rec'.ring)
  <2>1. rec.ring \in [0 .. Capacity - 1 -> EntryRec]
    BY DEF TwccTyped, RecorderRec
  <2> QED
    BY <1>3, <1>4, <2>1 DEF TwccTyped, Sorted, Slot
<1> QED
  BY <1>1, <1>2, <1>4, <1>5 DEF TwccTyped

\* The timer moves the base and nothing else.
LEMMA TimerFields ==
  ASSUME TwccTyped, TwccTimer
  PROVE  /\ rec' \in RecorderRec /\ rec'.started = rec.started /\ rec'.max = rec.max
         /\ rec'.ring = rec.ring
         /\ \/ Builds(rec) /\ rec'.base = Advanced(rec) /\ due' = DueFrom(due.top + 1)
            \/ /\ rec.started /\ Overflows(rec) /\ rec'.base = SteppedBack(rec)
               /\ due' = DueFrom(due.top - StepBack)
<1>1. rec \in RecorderRec /\ rec.base \in Int /\ rec.max \in Int
  BY TwccNumbers DEF TwccTyped, RecorderRec
<1>2. Advanced(rec) \in 0 .. NumMod - 1
  <2>1. rec.base + pending_count(rec) \in Int
    BY <1>1, PendingType, TwccNumbers
  <2> QED
    BY <2>1, TwccNumbers, DivMod DEF Advanced
<1>3. SteppedBack(rec) \in 0 .. NumMod - 1
  <2>1. rec.max - StepBack \in Int
    BY <1>1, TwccNumbers
  <2> QED
    BY <2>1, TwccNumbers, DivMod DEF SteppedBack
<1>4. ASSUME NEW b \in 0 .. NumMod - 1, rec' = [rec EXCEPT !.base = b]
      PROVE  /\ rec' \in RecorderRec /\ rec'.max = rec.max
             /\ rec'.ring = rec.ring /\ rec'.base = b
  BY <1>1, <1>4 DEF RecorderRec
<1>5. ASSUME NEW b \in 0 .. NumMod - 1, rec' = [rec EXCEPT !.base = b]
      PROVE  rec'.started = rec.started
  BY <1>1, <1>5 DEF RecorderRec
<1>6. CASE Builds(rec) /\ rec' = [rec EXCEPT !.base = Advanced(rec)] /\ due' = DueFrom(due.top + 1)
  BY <1>2, <1>4, <1>5, <1>6
<1>7. CASE /\ rec.started /\ Overflows(rec) /\ rec' = [rec EXCEPT !.base = SteppedBack(rec)]
           /\ due' = DueFrom(due.top - StepBack)
  BY <1>3, <1>4, <1>5, <1>7
<1> QED
  BY <1>6, <1>7 DEF TwccTimer

LEMMA TwccTypedStep == TwccTyped /\ [TwccNext]_twccVars => TwccTyped'
<1> SUFFICES ASSUME TwccTyped, [TwccNext]_twccVars PROVE TwccTyped'
  OBVIOUS
<1>1. CASE TwccSend
  BY <1>1, TwccNumbers DEF TwccSend, TwccTyped
<1>2. CASE TwccTimer
  <2>1. now' = now /\ tsent' = tsent /\ tflight' = tflight /\ tlost' = tlost
    BY <1>2 DEF TwccTimer
  <2>2. rec' \in RecorderRec /\ rec'.ring = rec.ring
    BY <1>2, TimerFields
  <2> QED
    BY <2>1, <2>2 DEF TwccTyped
<1>3. CASE \E n \in tflight : TwccLose(n)
  BY <1>3 DEF TwccLose, TwccTyped
<1>4. CASE \E n \in tflight : \E p \in Pauses : TwccPacket(n, p)
  BY <1>4, TwccTypedPacket
<1>5. CASE UNCHANGED twccVars
  BY <1>5 DEF twccVars, TwccTyped
<1> QED
  BY <1>1, <1>2, <1>3, <1>4, <1>5 DEF TwccNext

\* TwccRecorder: the numbers stay within 16 bits, and a slot of the ring never holds a number
\* that is not one of its own (twcc.rs, record).
THEOREM TwccTypes == TwccSpec => []TwccTypeOK
<1>1. TwccTyped /\ [TwccNext]_twccVars => TwccTyped'
  BY TwccTypedStep
<1> QED
  BY TwccTypedInit, <1>1, TwccTypedMeaning, PTL DEF TwccSpec

-----------------------------------------------------------------------------
(* Twcc: the ring and the truth *)

\* The packets that have arrived.
Came == (0 .. tsent - 1) \ (tflight \cup tlost)

\* The recorder's window is that of the packets: it begins with packet due.base, ends with the
\* newest one, and is shorter than half of the numbers.
Span ==
  /\ due \in [base: Nat, top: Int, at: Seq(Int)]
  /\ tsent - due.base <= MaxPending
  /\ IF rec.started
     THEN /\ rec.base = NumOf(due.base) /\ rec.max = NumOf(due.top)
          /\ due.top \in Came /\ due.base <= due.top + 1
          /\ \A m \in Came : m <= due.top
          /\ \A m \in tflight : due.top - m <= MaxBehind
          /\ Len(due.at) = due.top - due.base + 1
     ELSE /\ Came = {} /\ due.base = 0 /\ due.top = -1 /\ due.at = <<>>
          /\ \A i \in 0 .. Capacity - 1 : rec.ring[i] = NoEntry

\* The truth has a time for what has arrived, and -1 for what has not.
Times ==
  \A k \in 1 .. Len(due.at) :
    /\ due.base + k - 1 \in Came => due.at[k] \in Nat
    /\ due.base + k - 1 \notin Came => due.at[k] = -1

\* Slot i has the newest packet q of its own that has arrived, and when it arrived.
Entry(i, q) ==
  /\ Slot(q) = i /\ rec.ring[i].num = NumOf(q)
  /\ \A m \in Came : Slot(m) = i => m <= q
  /\ q >= due.base => rec.ring[i].at = due.at[q - due.base + 1]

Ring ==
  \A i \in 0 .. Capacity - 1 :
    \/ rec.ring[i] = NoEntry /\ \A q \in Came : Slot(q) # i
    \/ \E q \in Came : Entry(i, q)

TwccInv ==
  TwccTyped /\ tflight \cap tlost = {} /\ ~SlotMissed(tlost) /\ Span /\ Times /\ Ring

LEMMA CameType ==
  ASSUME TwccTyped
  PROVE  /\ Came \subseteq 0 .. tsent - 1 /\ Came \subseteq Nat /\ tsent \in Nat
         /\ tflight \subseteq Nat /\ \A m \in tflight : m < tsent /\ m \notin Came
BY TwccNumbers DEF Came, TwccTyped

\* How much is pending.
LEMMA PendingCount ==
  ASSUME TwccTyped, Span, rec.started
  PROVE  /\ pending_count(rec) = due.top - due.base + 1
         /\ due.top - due.base + 1 \in 0 .. MaxPending
         /\ due.base \in Nat /\ due.top \in Nat /\ due.at \in Seq(Int)
<1>1. /\ due.base \in Nat /\ due.top \in Nat /\ due.at \in Seq(Int)
      /\ due.base <= due.top + 1 /\ due.top < tsent /\ tsent - due.base <= MaxPending
      /\ rec.base = NumOf(due.base) /\ rec.max = NumOf(due.top) /\ tsent \in Nat
  BY CameType DEF Span
<1>2. due.top - due.base + 1 \in 0 .. MaxPending
  <2> DEFINE p == due.base
             t == due.top
  <2>1. p \in Nat /\ t \in Nat /\ p <= t + 1 /\ t < tsent /\ tsent - p <= MaxPending /\ tsent \in Nat
    BY <1>1
  <2>2. MaxPending \in Nat
    BY TwccNumbers
  <2> HIDE DEF p, t
  <2>3. t - p + 1 \in 0 .. MaxPending
    BY <2>1, <2>2
  <2> QED
    BY <2>3 DEF p, t
<1>3. rec.base \in Int /\ rec.max \in Int
  BY TwccNumbers DEF TwccTyped, RecorderRec
<1> DEFINE a == due.base
           b == due.top
           x == NumOf(b) + 1
           y == -NumOf(a)
<1>4. a \in Int /\ b \in Int /\ a <= b + 1 /\ b + 1 - a < NumMod /\ b + 1 \in Int
  <2>1. a \in Nat /\ b \in Nat /\ a <= b + 1 /\ b - a + 1 <= MaxPending
    BY <1>1, <1>2
  <2>2. MaxPending \in Nat /\ NumMod \in Nat /\ MaxPending < NumMod
    BY TwccNumbers
  <2> HIDE DEF a, b
  <2> QED
    BY <2>1, <2>2
<1>5. rec.base = NumOf(a) /\ rec.max = NumOf(b)
  BY <1>1
<1> HIDE DEF a, b
<1>6. (NumOf(b) + 1) % NumMod = NumOf(b + 1)
  BY <1>4, NumPlus
<1>7. (NumOf(b + 1) - NumOf(a)) % NumMod = b + 1 - a
  BY <1>4, NumNear
<1>8. x \in Int /\ y \in Int /\ x % NumMod \in Int
  BY <1>3, <1>5, TwccNumbers
<1>9. ((x % NumMod) + y) % NumMod = (x + y) % NumMod
  <2> HIDE DEF x, y
  <2> QED
    BY <1>8, TwccNumbers, RemainderInside
<1>10. (x % NumMod) + y = NumOf(b + 1) - NumOf(a) /\ x + y = rec.max - rec.base + 1
  BY <1>3, <1>5, <1>6, <1>8
<1>11. (rec.max - rec.base + 1) % NumMod = b + 1 - a
  BY <1>7, <1>9, <1>10
<1>12. pending_count(rec) = b + 1 - a
  BY <1>11 DEF pending_count
<1> QED
  BY <1>1, <1>2, <1>12 DEF a, b

LEMMA TwccInvInit == TwccInit => TwccInv
<1> SUFFICES ASSUME TwccInit PROVE TwccInv
  OBVIOUS
<1>1. TwccTyped
  BY TwccTypedInit
<1>2. /\ rec.started = FALSE /\ \A i \in 0 .. Capacity - 1 : rec.ring[i] = NoEntry
      /\ tsent = 0 /\ tflight = {} /\ tlost = {}
      /\ due.base = 0 /\ due.top = -1 /\ due.at = <<>>
  BY DEF TwccInit, NewRecorder
<1>3. Came = {}
  BY <1>2 DEF Came
<1>4. due \in [base: Nat, top: Int, at: Seq(Int)]
  BY DEF TwccInit
<1>5. Span
  <2>1. tsent - due.base <= MaxPending
    BY <1>2, TwccNumbers
  <2> QED
    BY <1>2, <1>3, <1>4, <2>1 DEF Span
<1>6. Times
  BY <1>2 DEF Times
<1>7. Ring
  BY <1>2, <1>3 DEF Ring
<1>8. ~SlotMissed(tlost)
  BY <1>2 DEF SlotMissed
<1> QED
  BY <1>1, <1>2, <1>5, <1>6, <1>7, <1>8 DEF TwccInv

\* Steps that change neither the recorder nor what has arrived.
LEMMA SameRing ==
  ASSUME TwccTyped, Span, Times, Ring, rec' = rec, due' = due, Came' = Came,
         tsent' \in Int, tsent' - due.base <= MaxPending,
         \A m \in tflight' : m \in tflight \/ m = tsent
  PROVE  Span' /\ Times' /\ Ring'
<1>1. Times' /\ Ring'
  BY DEF Times, Ring, Entry, Slot, NumOf
<1>2. rec.started => \A m \in tflight' : due.top - m <= MaxBehind
  <2> SUFFICES ASSUME rec.started, NEW m \in tflight' PROVE due.top - m <= MaxBehind
    OBVIOUS
  <2>1. due.top \in Nat /\ due.top < tsent /\ tsent \in Nat
    BY CameType DEF Span
  <2>2. CASE m \in tflight
    BY <2>2 DEF Span
  <2>3. CASE m = tsent
    BY <2>1, <2>3, TwccNumbers
  <2> QED
    BY <2>2, <2>3
<1>3. Span'
  BY <1>2 DEF Span, NumOf
<1> QED
  BY <1>1, <1>3

\* What arrives is newer than the newest packet by less than half of the numbers, or older
\* by less than a lap: max_seq is that of the newest packet.
LEMMA NewerMeaning ==
  ASSUME TwccTyped, Span, rec.started, NEW n \in tflight
  PROVE  Newer(NumOf(n), rec.max) <=> n > due.top
<1> DEFINE b == due.top
           half == NumMod \div 2
<1>1. /\ b \in Nat /\ n \in Nat /\ n # b /\ b < tsent /\ n < tsent /\ tsent \in Nat
      /\ due.base \in Nat /\ due.base <= b + 1
      /\ tsent - due.base <= MaxPending /\ b - n <= MaxBehind /\ rec.max = NumOf(b)
  BY CameType DEF Span
<1>2. /\ half \in Nat /\ MaxPending < half /\ MaxBehind < half /\ half + half <= NumMod
      /\ NumMod \in Nat /\ MaxPending \in Nat /\ MaxBehind \in Nat
  BY TwccNumbers
<1>3. Newer(NumOf(n), NumOf(b)) <=>
        0 < (NumOf(n) - NumOf(b)) % NumMod /\ (NumOf(n) - NumOf(b)) % NumMod < half
  BY DEF Newer
<1> HIDE DEF b, half
<1>4. CASE n > b
  <2>1. n - b < half /\ n - b < NumMod /\ n - b > 0 /\ b <= n /\ n \in Int /\ b \in Int
    BY <1>1, <1>2, <1>4
  <2>2. (NumOf(n) - NumOf(b)) % NumMod = n - b
    BY <2>1, NumNear
  <2> QED
    BY <1>1, <1>3, <1>4, <2>1, <2>2 DEF b
<1>5. CASE n < b
  <2>1. b - n < half /\ b - n < NumMod /\ n \in Int /\ b \in Int
    BY <1>1, <1>2, <1>5
  <2>2. (NumOf(n) - NumOf(b)) % NumMod = NumMod - (b - n)
    BY <1>5, <2>1, NumBack
  <2>3. ~(NumMod - (b - n) < half) /\ ~(n > b)
    BY <1>2, <1>5, <2>1
  <2> QED
    BY <1>1, <1>3, <2>2, <2>3 DEF b
<1> QED
  BY <1>1, <1>4, <1>5

\* The truth after a packet.
BaseAfter(n) == IF rec.started THEN due.base ELSE n

TopAfter(n) == IF n > due.top THEN n ELSE due.top

AtAfter(n, t, k) ==
  IF BaseAfter(n) + k - 1 = n THEN t ELSE IF k <= Len(due.at) THEN due.at[k] ELSE -1

LEMMA DueAfterFields ==
  ASSUME due \in [base: Nat, top: Int, at: Seq(Int)], NEW n \in Nat, NEW t \in Nat,
         due.top >= -1, rec.started => due.base <= due.top + 1
  PROVE  /\ DueAfter(n, t) \in [base: Nat, top: Int, at: Seq(Int)]
         /\ DueAfter(n, t).base = BaseAfter(n) /\ DueAfter(n, t).top = TopAfter(n)
         /\ TopAfter(n) - BaseAfter(n) + 1 \in Nat
         /\ Len(DueAfter(n, t).at) = TopAfter(n) - BaseAfter(n) + 1
         /\ \A k \in 1 .. TopAfter(n) - BaseAfter(n) + 1 :
              DueAfter(n, t).at[k] = AtAfter(n, t, k)
<1> DEFINE base == BaseAfter(n)
           top == TopAfter(n)
           len == top - base + 1
           at == [k \in 1 .. len |-> AtAfter(n, t, k)]
<1>1. base \in Nat /\ top \in Int
  BY DEF BaseAfter, TopAfter
<1>2. len \in Nat
  BY <1>1 DEF BaseAfter, TopAfter
<1>3. DueAfter(n, t) = [base |-> base, top |-> top, at |-> at]
  BY DEF DueAfter, BaseAfter, TopAfter, AtAfter
<1>4. due.at \in Seq(Int)
  OBVIOUS
<1> HIDE DEF base, top, len
<1>5. at \in [1 .. len -> Int]
  <2> SUFFICES ASSUME NEW k \in 1 .. len
               PROVE  AtAfter(n, t, k) \in Int
    OBVIOUS
  <2>1. k <= Len(due.at) => k \in 1 .. Len(due.at)
    BY <1>2, <1>4
  <2>2. k \in 1 .. Len(due.at) => due.at[k] \in Int
    BY <1>4, ElementOfSeq
  <2> QED
    BY <2>1, <2>2 DEF AtAfter
<1>6. at \in Seq(Int) /\ Len(at) = len
  BY <1>2, <1>5
<1>7. \A k \in 1 .. len : at[k] = AtAfter(n, t, k)
  OBVIOUS
<1> HIDE DEF at
<1> DEFINE d == DueAfter(n, t)
<1>8. d.base = base /\ d.top = top /\ d.at = at /\ d \in [base: Nat, top: Int, at: Seq(Int)]
  BY <1>1, <1>3, <1>6
<1> HIDE DEF d
<1>9. Len(d.at) = len /\ \A k \in 1 .. len : d.at[k] = AtAfter(n, t, k)
  BY <1>6, <1>7, <1>8
<1> QED
  BY <1>2, <1>8, <1>9 DEF base, top, len, d

\* A packet arrives: the base, the truth and what has arrived.
LEMMA PacketSpan ==
  ASSUME TwccTyped, Span, Times, tflight \cap tlost = {}, NEW n \in tflight,
         NEW p \in Pauses, TwccPacket(n, p)
  PROVE  /\ Came' = Came \cup {n} /\ Span' /\ Times'
         /\ due'.base = IF rec.started THEN due.base ELSE n
         /\ n >= due'.base => due'.at[n - due'.base + 1] = now'
         /\ \A q \in Came : rec.started /\ q >= due.base =>
              due'.at[q - due.base + 1] = due.at[q - due.base + 1]
<1> DEFINE t == IF rec.started THEN now + p ELSE 0
           base == BaseAfter(n)
           top == TopAfter(n)
<1>1. /\ rec' = record(rec, NumOf(n), t) /\ now' = t /\ due' = DueAfter(n, t)
      /\ tsent' = tsent /\ tlost' = tlost /\ tflight' = tflight \ {n}
      /\ \A m \in tflight : n - m <= MaxBehind
  BY DEF TwccPacket
<1>2. t \in Nat
  BY TwccAssumption DEF TwccTyped
<1>3. /\ n \in Nat /\ n < tsent /\ n \notin Came /\ tsent \in Nat
      /\ Came \subseteq Nat /\ Came \subseteq 0 .. tsent - 1 /\ tflight \subseteq Nat
  BY CameType
<1>4. /\ due \in [base: Nat, top: Int, at: Seq(Int)] /\ tsent - due.base <= MaxPending
      /\ due.base \in Nat /\ due.top \in Int /\ due.top >= -1
      /\ rec.started => /\ due.base <= due.top + 1 /\ due.top \in Came /\ due.top \in Nat
                        /\ Len(due.at) = due.top - due.base + 1
                        /\ \A m \in Came : m <= due.top
                        /\ \A m \in tflight : due.top - m <= MaxBehind
      /\ ~rec.started => Came = {} /\ due.base = 0 /\ due.top = -1 /\ due.at = <<>>
  BY <1>3 DEF Span
<1>5. Came' = Came \cup {n}
  BY <1>1, <1>3 DEF Came, TwccTyped
<1> HIDE DEF t
<1>6. /\ due' \in [base: Nat, top: Int, at: Seq(Int)]
      /\ due'.base = base /\ due'.top = top
      /\ top - base + 1 \in Nat /\ Len(due'.at) = top - base + 1
      /\ \A k \in 1 .. top - base + 1 : due'.at[k] = AtAfter(n, t, k)
  <2>1. /\ due \in [base: Nat, top: Int, at: Seq(Int)] /\ n \in Nat /\ t \in Nat
        /\ due.top >= -1 /\ (rec.started => due.base <= due.top + 1)
    BY <1>2, <1>3, <1>4
  <2> QED
    BY <1>1, <2>1, DueAfterFields
<1>7. /\ rec'.started
      /\ rec.started => rec'.base = rec.base
      /\ ~rec.started => rec'.base = NumOf(n) /\ rec'.max = NumOf(n)
      /\ rec.started => rec'.max = IF Newer(NumOf(n), rec.max) THEN NumOf(n) ELSE rec.max
  <2>1. NumOf(n) \in 0 .. NumMod - 1 /\ rec \in RecorderRec
    BY <1>3, NumOfType DEF TwccTyped
  <2> DEFINE num == NumOf(n)
             u == record(rec, num, t)
  <2> HIDE DEF num
  <2>2. /\ u.started
        /\ ~rec.started => u.base = num /\ u.max = num
        /\ rec.started => /\ u.base = rec.base
                          /\ u.max = IF Newer(num, rec.max) THEN num ELSE rec.max
    <3>1. num \in 0 .. NumMod - 1
      BY <2>1 DEF num
    <3>2. rec \in RecorderRec /\ t \in Nat
      BY <1>2, <2>1
    <3>3. u.started
      BY <3>1, <3>2, RecordFields
    <3>4. ~rec.started => u.base = num /\ u.max = num
      BY <3>1, <3>2, RecordFirst
    <3>5. rec.started => u.base = rec.base /\ u.max = MaxAfter(rec, num)
      BY <3>1, <3>2, RecordStarted
    <3>6. rec.started => u.max = IF Newer(num, rec.max) THEN num ELSE rec.max
      BY <3>5 DEF MaxAfter
    <3> HIDE DEF u
    <3> QED
      BY <3>3, <3>4, <3>5, <3>6
  <2>3. rec' = u
    BY <1>1 DEF num
  <2> HIDE DEF u
  <2> QED
    BY <2>2, <2>3 DEF num
<1>8. rec'.base = NumOf(base) /\ rec'.max = NumOf(top)
  <2>1. CASE rec.started
    BY <1>7, <2>1, NewerMeaning DEF Span, BaseAfter, TopAfter
  <2>2. CASE ~rec.started
    BY <1>3, <1>4, <1>7, <2>2 DEF BaseAfter, TopAfter
  <2> QED
    BY <2>1, <2>2
<1>9. /\ base \in Nat /\ top \in Nat /\ base <= top + 1 /\ n <= top
      /\ (n = top \/ (rec.started /\ top = due.top)) /\ (rec.started => due.top <= top)
      /\ base = (IF rec.started THEN due.base ELSE n)
  <2>1. CASE rec.started
    <3>1. base = due.base /\ top = IF n > due.top THEN n ELSE due.top
      BY <2>1 DEF BaseAfter, TopAfter
    <3> HIDE DEF base, top
    <3> QED
      BY <1>3, <1>4, <2>1, <3>1
  <2>2. CASE ~rec.started
    <3>1. base = n /\ top = n
      BY <1>3, <1>4, <2>2 DEF BaseAfter, TopAfter
    <3> HIDE DEF base, top
    <3> QED
      BY <1>3, <2>2, <3>1
  <2> QED
    BY <2>1, <2>2
<1>10. \A m \in Came : m <= top
  <2> SUFFICES ASSUME NEW m \in Came PROVE m <= top
    OBVIOUS
  <2>1. rec.started /\ m <= due.top /\ m \in Nat
    BY <1>3, <1>4
  <2>2. due.top <= top /\ due.top \in Int /\ top \in Nat
    BY <1>4, <1>9, <2>1
  <2> HIDE DEF top
  <2> QED
    BY <2>1, <2>2
<1>11. \A m \in tflight : top - m <= MaxBehind
  BY <1>1, <1>4, <1>9
<1>12. tsent - base <= MaxPending
  BY <1>3, <1>4, <1>9, TwccNumbers
<1>13. Span'
  <2>1. rec'.base = NumOf(due'.base) /\ rec'.max = NumOf(due'.top)
    BY <1>6, <1>8
  <2>2. due'.top \in Came' /\ due'.base <= due'.top + 1
    BY <1>4, <1>5, <1>6, <1>9
  <2>3. \A m \in Came' : m <= due'.top
    BY <1>5, <1>6, <1>9, <1>10
  <2>4. \A m \in tflight' : due'.top - m <= MaxBehind
    BY <1>1, <1>6, <1>11
  <2>5. tsent' - due'.base <= MaxPending /\ Len(due'.at) = due'.top - due'.base + 1
    BY <1>1, <1>6, <1>12
  <2> QED
    BY <1>6, <1>7, <2>1, <2>2, <2>3, <2>4, <2>5 DEF Span, NumOf
<1>14. Times'
  <2> SUFFICES ASSUME NEW k \in 1 .. Len(due'.at)
               PROVE  /\ due'.base + k - 1 \in Came' => due'.at[k] \in Nat
                      /\ due'.base + k - 1 \notin Came' => due'.at[k] = -1
    BY DEF Times
  <2>1. k \in 1 .. top - base + 1 /\ k \in Nat
    BY <1>6
  <2>2. /\ base + k - 1 = n => due'.at[k] = t
        /\ base + k - 1 # n => due'.at[k] = IF k <= Len(due.at) THEN due.at[k] ELSE -1
    BY <1>6, <2>1 DEF AtAfter
  <2>3. CASE base + k - 1 = n
    BY <1>2, <1>5, <1>6, <2>2, <2>3
  <2>4. CASE base + k - 1 # n /\ k <= Len(due.at)
    <3>1. rec.started /\ k \in 1 .. Len(due.at)
      BY <1>4, <2>1, <2>4
    <3>2. due'.at[k] = due.at[k] /\ base = due.base
      BY <1>9, <2>2, <2>4, <3>1
    <3>3. /\ due.base + k - 1 \in Came => due.at[k] \in Nat
          /\ due.base + k - 1 \notin Came => due.at[k] = -1
      BY <3>1 DEF Times
    <3> QED
      BY <1>5, <1>6, <2>4, <3>2, <3>3
  <2>5. CASE base + k - 1 # n /\ ~(k <= Len(due.at))
    <3>1. due'.at[k] = -1
      BY <2>2, <2>5
    <3>2. base + k - 1 \notin Came
      <4>1. CASE rec.started
        BY <1>4, <1>9, <2>1, <2>5, <4>1
      <4>2. CASE ~rec.started
        BY <1>4, <4>2
      <4> QED
        BY <4>1, <4>2
    <3> QED
      BY <1>5, <1>6, <2>5, <3>1, <3>2
  <2> QED
    BY <2>3, <2>4, <2>5
<1>15. n >= base => due'.at[n - base + 1] = t
  <2> SUFFICES ASSUME n >= base PROVE due'.at[n - base + 1] = t
    OBVIOUS
  <2>1. n - base + 1 \in 1 .. top - base + 1 /\ base + (n - base + 1) - 1 = n
    BY <1>3, <1>9
  <2> QED
    BY <1>6, <2>1 DEF AtAfter
<1>16. ASSUME NEW q \in Came, rec.started, q >= due.base
       PROVE  due'.at[q - due.base + 1] = due.at[q - due.base + 1]
  <2>1. /\ q - due.base + 1 \in 1 .. top - base + 1 /\ base + (q - due.base + 1) - 1 = q
        /\ q - due.base + 1 <= Len(due.at) /\ q # n
    <3>1. base = due.base /\ q <= due.top /\ due.top <= top /\ q \in Nat /\ q # n
      BY <1>3, <1>4, <1>9, <1>16
    <3>2. Len(due.at) = due.top - due.base + 1 /\ due.base \in Nat /\ due.top \in Nat
      BY <1>4, <1>16
    <3>3. top \in Nat
      BY <1>9
    <3> DEFINE old == due.base
               last == due.top
               len == Len(due.at)
    <3>4. /\ base = old /\ q <= last /\ last <= top /\ q \in Nat /\ q # n /\ q >= old
          /\ len = last - old + 1 /\ old \in Nat /\ last \in Nat /\ top \in Nat
      BY <1>16, <3>1, <3>2, <3>3
    <3> HIDE DEF base, top, old, last, len
    <3>5. /\ q - old + 1 \in 1 .. top - base + 1 /\ base + (q - old + 1) - 1 = q
          /\ q - old + 1 <= len /\ q # n
      BY <3>4
    <3> QED
      BY <3>5 DEF old, len
  <2> QED
    BY <1>6, <2>1 DEF AtAfter
<1> QED
  BY <1>1, <1>5, <1>6, <1>9, <1>13, <1>14, <1>15, <1>16

\* And the ring.
LEMMA PacketRing ==
  ASSUME TwccTyped, Span, Times, Ring, tflight \cap tlost = {}, NEW n \in tflight,
         NEW p \in Pauses, TwccPacket(n, p)
  PROVE  Ring'
<1>1. /\ Came' = Came \cup {n}
      /\ due'.base = IF rec.started THEN due.base ELSE n
      /\ n >= due'.base => due'.at[n - due'.base + 1] = now'
      /\ \A q \in Came : rec.started /\ q >= due.base =>
           due'.at[q - due.base + 1] = due.at[q - due.base + 1]
  BY PacketSpan
<1>2. /\ n \in Nat /\ n \notin Came /\ Came \subseteq Nat /\ due.base \in Nat
  BY CameType DEF Span
<1>3. Slot(n) \in 0 .. Capacity - 1
  BY <1>2, SlotDirect
<1>4. rec'.ring = [rec.ring EXCEPT ![Slot(n)] = [num |-> NumOf(n), at |-> now']]
  <2>1. rec' = record(rec, NumOf(n), now') /\ now' \in Nat
    BY TwccAssumption DEF TwccPacket, TwccTyped
  <2>2. NumOf(n) \in 0 .. NumMod - 1 /\ rec \in RecorderRec
    BY <1>2, NumOfType DEF TwccTyped
  <2> QED
    BY <2>1, <2>2, RecordFields DEF Slot
<1>5. rec.ring \in [0 .. Capacity - 1 -> EntryRec]
  BY DEF TwccTyped, RecorderRec
<1>6. ASSUME NEW m \in Came, Slot(m) = Slot(n) PROVE m <= n
  <2> SUFFICES ASSUME m > n PROVE FALSE
    BY <1>2
  <2>1. m - n >= Capacity
    BY <1>2, <1>6, SlotApart
  <2>2. rec.started /\ m <= due.top /\ due.top - n <= MaxBehind
    BY <1>6 DEF Span
  <2>3. due.top \in Int /\ m \in Nat
    BY <1>2 DEF Span
  <2> QED
    BY <1>2, <2>1, <2>2, <2>3, TwccNumbers
<1>7. ASSUME NEW i \in 0 .. Capacity - 1
      PROVE  \/ rec'.ring[i] = NoEntry /\ \A q \in Came' : Slot(q) # i
             \/ \E q \in Came' : Entry(i, q)'
  <2>1. CASE i = Slot(n)
    <3>1. rec'.ring[i] = [num |-> NumOf(n), at |-> now']
      BY <1>3, <1>4, <1>5, <2>1
    <3>2. rec'.ring[i].num = NumOf(n) /\ rec'.ring[i].at = now'
      BY <3>1
    <3>3. \A m \in Came' : Slot(m) = i => m <= n
      BY <1>1, <1>2, <1>6, <2>1
    <3>4. Entry(i, n)'
      BY <1>1, <2>1, <3>2, <3>3 DEF Entry, Slot, NumOf
    <3> QED
      BY <1>1, <3>4
  <2>2. CASE i # Slot(n)
    <3>1. rec'.ring[i] = rec.ring[i]
      BY <1>3, <1>4, <1>5, <2>2
    <3>2. CASE rec.ring[i] = NoEntry /\ \A q \in Came : Slot(q) # i
      BY <1>1, <2>2, <3>1, <3>2
    <3>3. CASE \E q \in Came : Entry(i, q)
      <4>1. PICK q \in Came : Entry(i, q)
        BY <3>3
      <4>2. rec.started
        BY <4>1 DEF Span
      <4>3. \A m \in Came' : Slot(m) = i => m <= q
        BY <1>1, <2>2, <4>1 DEF Entry
      <4>4. q >= due'.base => rec'.ring[i].at = due'.at[q - due'.base + 1]
        BY <1>1, <3>1, <4>1, <4>2 DEF Entry
      <4>5. Slot(q) = i /\ rec'.ring[i].num = NumOf(q)
        BY <3>1, <4>1 DEF Entry
      <4>6. Entry(i, q)'
        BY <4>3, <4>4, <4>5 DEF Entry, Slot, NumOf
      <4> QED
        BY <1>1, <4>6
    <3> QED
      BY <3>2, <3>3 DEF Ring
  <2> QED
    BY <2>1, <2>2
<1> QED
  BY <1>7 DEF Ring, Slot, NumOf

\* What remains of the truth from packet b on.
LEMMA DueFromFields ==
  ASSUME Span, rec.started, NEW b \in Nat, b >= due.base, b <= due.top + 1
  PROVE  /\ DueFrom(b) \in [base: Nat, top: Int, at: Seq(Int)]
         /\ DueFrom(b).base = b /\ DueFrom(b).top = due.top
         /\ Len(DueFrom(b).at) = due.top - b + 1
         /\ \A k \in 1 .. due.top - b + 1 : DueFrom(b).at[k] = due.at[b - due.base + k]
<1> DEFINE m == b - due.base + 1
           len == Len(due.at)
           at == SubSeq(due.at, m, len)
<1>1. /\ due \in [base: Nat, top: Int, at: Seq(Int)] /\ due.base \in Nat /\ due.top \in Int
      /\ len = due.top - due.base + 1 /\ due.at \in Seq(Int)
  BY DEF Span
<1>2. m \in Nat /\ m >= 1 /\ len \in Nat /\ m <= len + 1 /\ len - m + 1 = due.top - b + 1
  BY <1>1
<1>3. DueFrom(b) = [due EXCEPT !.base = b, !.at = at]
  BY <1>1 DEF DueFrom
<1>4. m - 1 = b - due.base /\ due.top - b + 1 \in Nat
  BY <1>1
<1> HIDE DEF m, len
<1>5. \A i \in m .. len : due.at[i] \in Int
  <2> SUFFICES ASSUME NEW i \in m .. len PROVE due.at[i] \in Int
    OBVIOUS
  <2>1. i \in 1 .. len
    BY <1>2
  <2> QED
    BY <1>1, <2>1, ElementOfSeq DEF len
<1>6. /\ at \in Seq(Int) /\ Len(at) = IF m <= len THEN len - m + 1 ELSE 0
      /\ \A i \in 1 .. len - m + 1 : at[i] = due.at[m + i - 1]
  <2>1. m \in Int /\ len \in Int
    BY <1>2
  <2> QED
    BY <1>5, <2>1, SubSeqProperties
<1> HIDE DEF at
<1>7. Len(at) = due.top - b + 1
  BY <1>2, <1>6
<1>8. \A k \in 1 .. due.top - b + 1 : at[k] = due.at[b - due.base + k]
  <2> SUFFICES ASSUME NEW k \in 1 .. due.top - b + 1 PROVE at[k] = due.at[b - due.base + k]
    OBVIOUS
  <2>1. k \in 1 .. len - m + 1 /\ m + k - 1 = b - due.base + k
    BY <1>1, <1>2, <1>4
  <2> QED
    BY <1>6, <2>1
<1>9. /\ DueFrom(b) \in [base: Nat, top: Int, at: Seq(Int)]
      /\ DueFrom(b).base = b /\ DueFrom(b).top = due.top /\ DueFrom(b).at = at
  BY <1>1, <1>3, <1>6
<1> QED
  BY <1>7, <1>8, <1>9

\* After the timer the window begins with packet b.
LEMMA TimerFrom ==
  ASSUME TwccTyped, Span, Times, Ring, rec.started, TwccTimer,
         NEW b \in Nat, b >= due.base, b <= due.top + 1,
         due' = DueFrom(b), rec'.base = NumOf(b)
  PROVE  Span' /\ Times' /\ Ring'
<1>1. /\ rec'.started = rec.started /\ rec'.max = rec.max /\ rec'.ring = rec.ring
      /\ tsent' = tsent /\ tflight' = tflight /\ tlost' = tlost
  BY TimerFields DEF TwccTimer
<1>2. Came' = Came
  BY <1>1 DEF Came
<1>3. /\ due' \in [base: Nat, top: Int, at: Seq(Int)]
      /\ due'.base = b /\ due'.top = due.top /\ Len(due'.at) = due.top - b + 1
      /\ \A k \in 1 .. due.top - b + 1 : due'.at[k] = due.at[b - due.base + k]
  BY DueFromFields
<1>4. /\ due.base \in Nat /\ due.top \in Nat /\ tsent \in Nat /\ tsent - due.base <= MaxPending
      /\ Len(due.at) = due.top - due.base + 1 /\ Came \subseteq Nat
      /\ \A q \in Came : q <= due.top
  BY CameType DEF Span
<1>5. Span'
  <2>1. tsent' - due'.base <= MaxPending
    BY <1>1, <1>3, <1>4, TwccNumbers
  <2>2. /\ due.top \in Came' /\ \A m \in Came' : m <= due.top
        /\ \A m \in tflight' : due.top - m <= MaxBehind
        /\ rec'.max = NumOf(due.top)
    BY <1>1, <1>2 DEF Span
  <2> QED
    BY <1>1, <1>3, <2>1, <2>2 DEF Span, NumOf
<1>6. Times'
  <2> SUFFICES ASSUME NEW k \in 1 .. Len(due'.at)
               PROVE  /\ due'.base + k - 1 \in Came' => due'.at[k] \in Nat
                      /\ due'.base + k - 1 \notin Came' => due'.at[k] = -1
    BY DEF Times
  <2> DEFINE j == b - due.base + k
  <2>0. k \in 1 .. due.top - b + 1 /\ due.top - b + 1 \in Int
    BY <1>3, <1>4
  <2>1. j \in 1 .. Len(due.at) /\ due.base + j - 1 = b + k - 1
    <3> DEFINE old == due.base
               top == due.top
               len == Len(due.at)
    <3>1. /\ k \in Int /\ k >= 1 /\ k <= top - b + 1
          /\ b \in Int /\ old \in Int /\ top \in Int /\ b >= old
      BY <1>4, <2>0
    <3>2. len = top - old + 1
      BY <1>4
    <3>3. j = b - old + k
      OBVIOUS
    <3> HIDE DEF old, top, len, j
    <3>4. j \in 1 .. len /\ old + j - 1 = b + k - 1
      BY <3>1, <3>2, <3>3
    <3> QED
      BY <3>4 DEF old, len
  <2>2. due'.at[k] = due.at[j]
    BY <1>3, <2>0
  <2> HIDE DEF j
  <2>3. /\ due.base + j - 1 \in Came => due.at[j] \in Nat
        /\ due.base + j - 1 \notin Came => due.at[j] = -1
    BY <2>1 DEF Times
  <2> QED
    BY <1>2, <1>3, <2>1, <2>2, <2>3
<1>7. Ring'
  <2> SUFFICES ASSUME NEW i \in 0 .. Capacity - 1
               PROVE  \/ rec'.ring[i] = NoEntry /\ \A q \in Came' : Slot(q) # i
                      \/ \E q \in Came' : Entry(i, q)'
    BY DEF Ring, Slot, NumOf
  <2>1. CASE rec.ring[i] = NoEntry /\ \A q \in Came : Slot(q) # i
    BY <1>1, <1>2, <2>1
  <2>2. CASE \E q \in Came : Entry(i, q)
    <3>1. PICK q \in Came : Entry(i, q)
      BY <2>2
    <3>2. q >= due'.base => rec'.ring[i].at = due'.at[q - due'.base + 1]
      <4> SUFFICES ASSUME q >= b PROVE rec'.ring[i].at = due'.at[q - b + 1]
        BY <1>3
      <4>1. /\ q >= due.base /\ q - b + 1 \in 1 .. due.top - b + 1
            /\ b - due.base + (q - b + 1) = q - due.base + 1
        <5> DEFINE old == due.base
                   top == due.top
        <5>1. q \in Nat /\ q <= top /\ q >= b /\ b >= old /\ old \in Nat /\ top \in Nat
          BY <1>4
        <5> HIDE DEF old, top
        <5>2. /\ q >= old /\ q - b + 1 \in 1 .. top - b + 1
              /\ b - old + (q - b + 1) = q - old + 1
          BY <5>1
        <5> QED
          BY <5>2 DEF old, top
      <4>2. rec.ring[i].at = due.at[q - due.base + 1]
        BY <3>1, <4>1 DEF Entry
      <4> QED
        BY <1>1, <1>3, <4>1, <4>2
    <3>3. Slot(q) = i /\ rec'.ring[i].num = NumOf(q) /\ \A m \in Came' : Slot(m) = i => m <= q
      BY <1>1, <1>2, <3>1 DEF Entry
    <3>4. Entry(i, q)'
      BY <3>2, <3>3 DEF Entry, Slot, NumOf
    <3> QED
      BY <1>2, <3>4
  <2> QED
    BY <2>1, <2>2 DEF Ring
<1> QED
  BY <1>5, <1>6, <1>7

\* The timer: after a feedback, and after the overflow guard.
LEMMA TimerStep ==
  ASSUME TwccTyped, Span, Times, Ring, TwccTimer
  PROVE  Span' /\ Times' /\ Ring'
<1>1. rec.started
  BY DEF TwccTimer, Builds
<1>2. /\ pending_count(rec) = due.top - due.base + 1
      /\ due.base \in Nat /\ due.top \in Nat /\ due.base <= due.top + 1
      /\ rec.base = NumOf(due.base) /\ rec.max = NumOf(due.top)
  BY <1>1, PendingCount DEF Span
<1> DEFINE a == due.base
           t == due.top
<1>3. CASE Builds(rec) /\ rec'.base = Advanced(rec) /\ due' = DueFrom(due.top + 1)
  <2>1. rec'.base = (NumOf(a) + (t - a + 1)) % NumMod
    BY <1>2, <1>3 DEF Advanced
  <2>2. a \in Int /\ t - a + 1 \in Int /\ a + (t - a + 1) = t + 1 /\ t + 1 \in Nat /\ t + 1 >= a
    BY <1>2
  <2> HIDE DEF a, t
  <2>3. (NumOf(a) + (t - a + 1)) % NumMod = NumOf(a + (t - a + 1))
    BY <2>2, NumPlus
  <2>4. rec'.base = NumOf(t + 1)
    BY <2>1, <2>2, <2>3
  <2>5. t + 1 >= due.base /\ t + 1 <= due.top + 1 /\ due' = DueFrom(t + 1)
    BY <1>2, <1>3, <2>2 DEF a, t
  <2> QED
    BY <1>1, <2>2, <2>4, <2>5, TimerFrom
<1>4. CASE Overflows(rec) /\ rec'.base = SteppedBack(rec) /\ due' = DueFrom(due.top - StepBack)
  <2>1. t - a + 1 > Capacity
    BY <1>2, <1>4 DEF Overflows
  <2>2. /\ t \in Int /\ -StepBack \in Int /\ t - StepBack \in Nat /\ t + (-StepBack) = t - StepBack
        /\ t - StepBack >= a /\ t - StepBack <= t + 1
    BY <1>2, <2>1, TwccNumbers
  <2>3. rec'.base = (NumOf(t) - StepBack) % NumMod
    BY <1>2, <1>4 DEF SteppedBack
  <2>4. NumOf(t) \in Int /\ StepBack \in Int
    BY <2>2, NumOfType, TwccNumbers
  <2> HIDE DEF a, t
  <2>5. (NumOf(t) + (-StepBack)) % NumMod = NumOf(t + (-StepBack))
    BY <2>2, NumPlus
  <2>6. NumOf(t) + (-StepBack) = NumOf(t) - StepBack
    BY <2>4
  <2>7. rec'.base = NumOf(t - StepBack)
    BY <2>2, <2>3, <2>5, <2>6
  <2>8. t - StepBack >= due.base /\ t - StepBack <= due.top + 1 /\ due' = DueFrom(t - StepBack)
    BY <1>4, <2>2 DEF a, t
  <2> QED
    BY <1>1, <2>2, <2>7, <2>8, TimerFrom
<1> QED
  BY <1>3, <1>4, TimerFields

\* Every step keeps the invariant.
LEMMA TwccInvStep == TwccInv /\ [TwccNext]_twccVars => TwccInv'
<1> SUFFICES ASSUME TwccInv, [TwccNext]_twccVars PROVE TwccInv'
  OBVIOUS
<1>1. /\ TwccTyped /\ TwccTyped' /\ tflight \cap tlost = {} /\ ~SlotMissed(tlost)
      /\ Span /\ Times /\ Ring
  BY TwccTypedStep DEF TwccInv
<1>2. /\ tsent \in Nat /\ due.base \in Nat /\ tflight \subseteq 0 .. tsent - 1
      /\ tlost \subseteq 0 .. tsent - 1
  BY <1>1, CameType DEF Span, TwccTyped
<1>3. CASE TwccSend
  <2>1. /\ rec' = rec /\ due' = due /\ tlost' = tlost /\ tsent' = tsent + 1
        /\ tflight' = tflight \cup {tsent} /\ tsent - due.base < MaxPending
    BY <1>3 DEF TwccSend
  <2>2. Came' = Came
    BY <1>2, <2>1 DEF Came
  <2>3. tsent' \in Int /\ tsent' - due.base <= MaxPending
    BY <1>2, <2>1, TwccNumbers
  <2>4. Span' /\ Times' /\ Ring'
    BY <1>1, <2>1, <2>2, <2>3, SameRing
  <2>5. tflight' \cap tlost' = {} /\ ~SlotMissed(tlost')
    BY <1>1, <1>2, <2>1
  <2> QED
    BY <1>1, <2>4, <2>5 DEF TwccInv, SlotMissed
<1>4. CASE TwccTimer
  <2>1. tflight' = tflight /\ tlost' = tlost
    BY <1>4 DEF TwccTimer
  <2>2. Span' /\ Times' /\ Ring'
    BY <1>1, <1>4, TimerStep
  <2> QED
    BY <1>1, <2>1, <2>2 DEF TwccInv, SlotMissed
<1>5. CASE \E n \in tflight : TwccLose(n)
  <2>1. PICK n \in tflight : TwccLose(n)
    BY <1>5
  <2>2. /\ rec' = rec /\ due' = due /\ tsent' = tsent /\ tflight' = tflight \ {n}
        /\ tlost' = tlost \cup {n} /\ ~SlotMissed(tlost \cup {n})
    BY <2>1 DEF TwccLose
  <2>3. Came' = Came
    BY <2>2 DEF Came
  <2>4. tsent' \in Int /\ tsent' - due.base <= MaxPending
    BY <1>1, <1>2, <2>2 DEF Span
  <2>5. Span' /\ Times' /\ Ring'
    BY <1>1, <2>2, <2>3, <2>4, SameRing
  <2>6. tflight' \cap tlost' = {} /\ ~SlotMissed(tlost')
    BY <1>1, <2>2
  <2> QED
    BY <1>1, <2>5, <2>6 DEF TwccInv, SlotMissed
<1>6. CASE \E n \in tflight : \E p \in Pauses : TwccPacket(n, p)
  <2>1. PICK n \in tflight, p \in Pauses : TwccPacket(n, p)
    BY <1>6
  <2>2. tflight' = tflight \ {n} /\ tlost' = tlost
    BY <2>1 DEF TwccPacket
  <2>3. Span' /\ Times'
    BY <1>1, <2>1, PacketSpan
  <2>4. Ring'
    BY <1>1, <2>1, PacketRing
  <2>5. tflight' \cap tlost' = {}
    BY <1>1, <2>2
  <2> QED
    BY <1>1, <2>2, <2>3, <2>4, <2>5 DEF TwccInv, SlotMissed
<1>7. CASE UNCHANGED twccVars
  <2>1. /\ rec' = rec /\ due' = due /\ tsent' = tsent /\ tflight' = tflight /\ tlost' = tlost
    BY <1>7 DEF twccVars
  <2>2. Came' = Came
    BY <2>1 DEF Came
  <2>3. tsent' \in Int /\ tsent' - due.base <= MaxPending
    BY <1>1, <1>2, <2>1 DEF Span
  <2>4. Span' /\ Times' /\ Ring'
    BY <1>1, <2>1, <2>2, <2>3, SameRing
  <2> QED
    BY <1>1, <2>1, <2>4 DEF TwccInv, SlotMissed
<1> QED
  BY <1>3, <1>4, <1>5, <1>6, <1>7 DEF TwccNext

\* TwccRecorder: the invariant the feedback rests on.
THEOREM TwccInvariant == TwccSpec => []TwccInv
<1>1. TwccInv /\ [TwccNext]_twccVars => TwccInv'
  BY TwccInvStep
<1> QED
  BY TwccInvInit, <1>1, PTL DEF TwccSpec


-----------------------------------------------------------------------------
(* Twcc: what the ring knows *)

\* What is pending fits into the ring.
LEMMA RingHolds ==
  ASSUME TwccTyped, Span, rec.started, ~Overflows(rec)
  PROVE  due.top - due.base + 1 <= Capacity /\ due.base \in Nat /\ due.top \in Nat
<1>1. /\ pending_count(rec) = due.top - due.base + 1
      /\ due.base \in Nat /\ due.top \in Nat
  BY PendingCount
<1>2. Capacity \in Nat /\ ~(due.top - due.base + 1 > Capacity)
  BY <1>1, TwccNumbers DEF Overflows
<1> QED
  BY <1>1, <1>2

\* A pending packet that arrived: the entry of its slot is its own.
LEMMA RingHas ==
  ASSUME TwccInv, rec.started, ~Overflows(rec), NEW p \in Came, due.base <= p
  PROVE  /\ rec.ring[Slot(p)].num = NumOf(p)
         /\ rec.ring[Slot(p)].at = due.at[p - due.base + 1]
<1>1. TwccTyped /\ Span /\ Ring
  BY DEF TwccInv
<1>2. /\ due.top - due.base + 1 <= Capacity /\ due.base \in Nat /\ due.top \in Nat
      /\ p <= due.top /\ Came \subseteq Nat /\ p \in Nat
  BY <1>1, RingHolds, CameType DEF Span
<1>3. Slot(p) \in 0 .. Capacity - 1
  BY <1>2, SlotDirect
<1>4. PICK q \in Came : Entry(Slot(p), q)
  BY <1>1, <1>3 DEF Ring
<1>5. Slot(q) = Slot(p) /\ p <= q /\ q <= due.top /\ q \in Nat
  BY <1>1, <1>2, <1>4 DEF Entry, Span
<1>6. p = q
  <2> SUFFICES ASSUME p < q PROVE FALSE
    BY <1>2, <1>5
  <2>1. q - p >= Capacity
    BY <1>2, <1>5, SlotApart
  <2> QED
    BY <1>2, <1>5, <2>1, TwccNumbers
<1> QED
  BY <1>4, <1>6 DEF Entry

\* Had one of the same number been left in the slot of a packet that has not arrived, one
\* that shares the slot would have arrived in between.
LEMMA RingLacks ==
  ASSUME TwccInv, rec.started, ~Overflows(rec), NEW p \in Nat, p \notin Came,
         due.base <= p, p <= due.top
  PROVE  rec.ring[Slot(p)].num # NumOf(p)
<1> SUFFICES ASSUME rec.ring[Slot(p)].num = NumOf(p) PROVE FALSE
  OBVIOUS
<1>1. TwccTyped /\ Span /\ Ring /\ ~SlotMissed(tlost)
  BY DEF TwccInv
<1>2. /\ due.top - due.base + 1 <= Capacity /\ due.base \in Nat /\ due.top \in Nat
      /\ due.top < tsent /\ tsent \in Nat /\ Came \subseteq Nat
      /\ \A m \in Came : m <= due.top
      /\ \A m \in tflight : due.top - m <= MaxBehind
  <2>1. due.top - due.base + 1 <= Capacity /\ due.base \in Nat /\ due.top \in Nat
    BY <1>1, RingHolds
  <2>2. /\ due.top \in Came /\ \A m \in Came : m <= due.top
        /\ \A m \in tflight : due.top - m <= MaxBehind
    BY <1>1 DEF Span
  <2> QED
    BY <1>1, <2>1, <2>2, CameType
<1>3. Slot(p) \in 0 .. Capacity - 1 /\ NumOf(p) \in 0 .. NumMod - 1
  BY SlotDirect, NumOfType
<1>4. PICK q \in Came : Entry(Slot(p), q)
  <2>1. rec.ring[Slot(p)] # NoEntry
    BY <1>3, TwccNumbers DEF NoEntry
  <2> QED
    BY <1>1, <1>3, <2>1 DEF Ring
<1>5. /\ NumOf(q) = NumOf(p) /\ q \in Nat /\ q <= due.top /\ q # p
      /\ \A m \in Came : Slot(m) = Slot(p) => m <= q
  BY <1>2, <1>4 DEF Entry
<1>6. p - q >= NumMod
  <2>1. CASE q > p
    <3>1. q - p >= NumMod
      BY <1>5, <2>1, NumApart
    <3> QED
      BY <1>2, <1>5, <3>1, TwccNumbers
  <2>2. CASE q < p
    BY <1>5, <2>2, NumApart
  <2> QED
    BY <1>5, <2>1, <2>2
<1> DEFINE first == p - NumMod + Capacity
<1>7. /\ first \in Nat /\ first >= q + Capacity
      /\ Capacity \in Nat \ {0} /\ Laps \in Nat /\ Laps >= 2 /\ NumMod = Capacity * Laps
  BY <1>5, <1>6, TwccNumbers
<1>8. PICK k \in 0 .. Laps - 2 : first + k * Capacity \notin tlost
  <2>1. CASE first \in tlost
    BY <1>1, <2>1 DEF SlotMissed
  <2>2. CASE first \notin tlost
    <3>1. 0 \in 0 .. Laps - 2 /\ first + 0 * Capacity = first
      BY <1>7
    <3> QED
      BY <2>2, <3>1
  <2> QED
    BY <2>1, <2>2
<1> DEFINE m == first + k * Capacity
           z == k - (Laps - 1)
<1>9. z \in Int /\ z <= -1 /\ m = p + Capacity * z
  <2>1. z \in Int /\ z <= -1 /\ k \in Int /\ k - Laps + 1 = z
    BY <1>7
  <2>2. Capacity * z = Capacity * k - Capacity * Laps + Capacity
    BY <1>7, <2>1
  <2>3. Capacity * k = k * Capacity /\ Capacity * k \in Int
    BY <1>7, <2>1
  <2> QED
    BY <1>7, <2>1, <2>2, <2>3, TwccNumbers
<1>10. m \in Nat /\ m >= first /\ m <= p - Capacity
  <2>1. k * Capacity \in Nat
    BY <1>7
  <2>2. Capacity * z <= -Capacity /\ Capacity * z \in Int
    BY <1>7, <1>9
  <2> QED
    BY <1>7, <1>9, <2>1, <2>2
<1>11. Slot(m) = Slot(p)
  BY <1>9, SlotLaps
<1> HIDE DEF m, z, first
<1>12. m \in Came
  <2>1. m \notin tlost
    BY <1>8 DEF m
  <2>2. m \notin tflight
    BY <1>2, <1>7, <1>10, TwccNumbers
  <2>3. m \in 0 .. tsent - 1
    BY <1>2, <1>7, <1>10
  <2> QED
    BY <2>1, <2>2, <2>3 DEF Came
<1> QED
  BY <1>5, <1>7, <1>10, <1>11, <1>12

\* So the ring knows what has arrived, and when.
LEMMA RingKnows ==
  ASSUME TwccInv, rec.started, ~Overflows(rec), NEW i \in 0 .. pending_count(rec) - 1
  PROVE  /\ i \in Arrived(rec) <=> due.base + i \in Came
         /\ i \in Arrived(rec) => ArrivalAt(rec, i) = due.at[i + 1]
<1>1. TwccTyped /\ Span
  BY DEF TwccInv
<1>2. /\ pending_count(rec) = due.top - due.base + 1 /\ due.base \in Nat /\ due.top \in Nat
      /\ rec.base = NumOf(due.base)
  BY <1>1, PendingCount DEF Span
<1> DEFINE p == due.base + i
<1>3. i \in Int /\ p \in Nat /\ due.base <= p /\ p <= due.top /\ p - due.base + 1 = i + 1
  BY <1>2
<1>4. (rec.base + i) % NumMod = NumOf(p)
  <2>1. due.base \in Int /\ i \in Int
    BY <1>2, <1>3
  <2>2. (NumOf(due.base) + i) % NumMod = NumOf(due.base + i)
    BY <2>1, NumPlus
  <2> QED
    BY <1>2, <2>2
<1> HIDE DEF p
<1>5. i \in Arrived(rec) <=> rec.ring[Slot(p)].num = NumOf(p)
  BY <1>4 DEF Arrived, Holds, Slot
<1>6. ArrivalAt(rec, i) = rec.ring[Slot(p)].at
  BY <1>4 DEF ArrivalAt, Slot
<1>7. CASE p \in Came
  <2>1. rec.ring[Slot(p)].num = NumOf(p) /\ rec.ring[Slot(p)].at = due.at[p - due.base + 1]
    BY <1>3, <1>7, RingHas
  <2> QED
    BY <1>3, <1>5, <1>6, <1>7, <2>1 DEF p
<1>8. CASE p \notin Came
  <2>1. rec.ring[Slot(p)].num # NumOf(p)
    BY <1>3, <1>8, RingLacks
  <2> QED
    BY <1>5, <1>8, <2>1 DEF p
<1> QED
  BY <1>7, <1>8

\* What the truth has a time for is what the ring has.
LEMMA TruthKnown ==
  ASSUME TwccInv, rec.started, ~Overflows(rec), NEW k \in 1 .. pending_count(rec)
  PROVE  /\ due.at[k] # -1 <=> k - 1 \in Arrived(rec)
         /\ k - 1 \in Arrived(rec) => /\ ArrivalAt(rec, k - 1) = due.at[k]
                                      /\ due.at[k] \in Nat
<1>1. TwccTyped /\ Span /\ Times
  BY DEF TwccInv
<1>2. /\ pending_count(rec) = Len(due.at) /\ pending_count(rec) \in Nat /\ due.base \in Nat
  BY <1>1, PendingCount DEF Span
<1> DEFINE i == k - 1
<1>3. /\ i \in 0 .. pending_count(rec) - 1 /\ i + 1 = k /\ due.base + i = due.base + k - 1
      /\ k \in 1 .. Len(due.at)
  BY <1>2
<1> HIDE DEF i
<1>4. /\ i \in Arrived(rec) <=> due.base + i \in Came
      /\ i \in Arrived(rec) => ArrivalAt(rec, i) = due.at[i + 1]
  BY <1>3, RingKnows
<1>5. /\ due.base + k - 1 \in Came => due.at[k] \in Nat
      /\ due.base + k - 1 \notin Came => due.at[k] = -1
  BY <1>1, <1>3 DEF Times
<1> QED
  BY <1>3, <1>4, <1>5 DEF i

-----------------------------------------------------------------------------
(* Finite sets of numbers *)

\* How many of B come before x.
Below(B, x) == {j \in B : j < x}

Rank(B, x) == Cardinality(Below(B, x))

LEMMA RankType ==
  ASSUME NEW B \in SUBSET Int, IsFiniteSet(B), NEW x \in B
  PROVE  /\ IsFiniteSet(Below(B, x)) /\ Rank(B, x) \in 0 .. Cardinality(B) - 1
         /\ Cardinality({j \in B : j <= x}) = Rank(B, x) + 1
<1>1. Below(B, x) \in SUBSET B
  BY DEF Below
<1>2. IsFiniteSet(Below(B, x)) /\ Rank(B, x) \in Nat
  BY <1>1, FS_Subset, FS_CardinalityType DEF Rank
<1>3. {j \in B : j <= x} = Below(B, x) \cup {x} /\ x \notin Below(B, x)
  <2>1. \A j \in B : j <= x <=> j < x \/ j = x
    OBVIOUS
  <2>2. \A j : j \in {m \in B : m <= x} <=> j \in Below(B, x) \cup {x}
    BY <2>1 DEF Below
  <2>3. ~(x < x)
    OBVIOUS
  <2> QED
    BY <2>2, <2>3 DEF Below
<1>4. Cardinality({j \in B : j <= x}) = Rank(B, x) + 1
  BY <1>2, <1>3, FS_AddElement DEF Rank
<1>5. Cardinality({j \in B : j <= x}) <= Cardinality(B)
  <2>1. {j \in B : j <= x} \in SUBSET B
    OBVIOUS
  <2> QED
    BY <2>1, FS_Subset
<1>6. Cardinality(B) \in Nat
  BY FS_CardinalityType
<1> QED
  BY <1>2, <1>4, <1>5, <1>6

LEMMA RankOrder ==
  ASSUME NEW B \in SUBSET Int, IsFiniteSet(B), NEW x \in B, NEW y \in B, x < y
  PROVE  Rank(B, x) < Rank(B, y)
<1> DEFINE upto == {j \in B : j <= x}
<1>1. upto \in SUBSET Below(B, y)
  <2>1. \A j \in B : j <= x => j < y
    OBVIOUS
  <2> QED
    BY <2>1 DEF Below
<1>2. /\ IsFiniteSet(Below(B, y)) /\ Rank(B, y) \in Int /\ Rank(B, x) \in Int
      /\ Cardinality(upto) = Rank(B, x) + 1
  <2>1. Cardinality(B) \in Nat
    BY FS_CardinalityType
  <2>2. IsFiniteSet(Below(B, y)) /\ Rank(B, y) \in 0 .. Cardinality(B) - 1
    BY RankType
  <2>3. Rank(B, x) \in 0 .. Cardinality(B) - 1 /\ Cardinality(upto) = Rank(B, x) + 1
    BY RankType
  <2> QED
    BY <2>1, <2>2, <2>3
<1>3. Cardinality(upto) <= Rank(B, y)
  <2> HIDE DEF upto
  <2> QED
    BY <1>1, <1>2, FS_Subset DEF Rank
<1> HIDE DEF upto
<1> QED
  BY <1>2, <1>3

\* Every rank is taken.
LEMMA RankTaken ==
  ASSUME NEW B \in SUBSET Int, IsFiniteSet(B), NEW k \in 0 .. Cardinality(B) - 1
  PROVE  \E x \in B : Rank(B, x) = k
<1> DEFINE n == Cardinality(B)
           T == 0 .. n - 1
           f == [x \in B |-> Rank(B, x)]
<1>1. n \in Nat
  BY FS_CardinalityType
<1> HIDE DEF n
<1>2. IsFiniteSet(T) /\ Cardinality(T) = n
  <2>1. 0 \in Int /\ n - 1 \in Int
    BY <1>1
  <2>2. IsFiniteSet(T) /\ Cardinality(T) = IF 0 > n - 1 THEN 0 ELSE n - 1 - 0 + 1
    BY <2>1, FS_Interval
  <2> QED
    BY <1>1, <2>2
<1>3. f \in Injection(B, T)
  <2>1. f \in [B -> T]
    BY RankType DEF n
  <2>2. ASSUME NEW x \in B, NEW y \in B, f[x] = f[y] PROVE x = y
    <3>1. Rank(B, x) = Rank(B, y) /\ Rank(B, x) \in Int /\ x \in Int /\ y \in Int
      <4>1. Rank(B, x) \in 0 .. n - 1 /\ x \in Int /\ y \in Int
        BY RankType DEF n
      <4> QED
        BY <1>1, <2>2, <4>1
    <3>2. ~(x < y)
      <4> SUFFICES ASSUME x < y PROVE FALSE
        OBVIOUS
      <4>1. Rank(B, x) < Rank(B, y)
        BY RankOrder
      <4> QED
        BY <3>1, <4>1
    <3>3. ~(y < x)
      <4> SUFFICES ASSUME y < x PROVE FALSE
        OBVIOUS
      <4>1. Rank(B, y) < Rank(B, x)
        BY RankOrder
      <4> QED
        BY <3>1, <4>1
    <3> QED
      BY <3>1, <3>2, <3>3
  <2> QED
    BY <2>1, <2>2 DEF Injection, IsInjective
<1> HIDE DEF f, T
<1>4. f \in Surjection(B, T)
  BY <1>2, <1>3, FS_Injection DEF n
<1>5. \E x \in B : f[x] = k
  BY <1>4 DEF Surjection, T, n
<1> QED
  BY <1>5 DEF f

\* There is a least and a greatest.
LEMMA LeastGreatest ==
  ASSUME NEW B \in SUBSET Int, IsFiniteSet(B), B # {}
  PROVE  /\ \E x \in B : \A y \in B : x <= y
         /\ \E x \in B : \A y \in B : y <= x
<1> DEFINE n == Cardinality(B)
<1>1. n \in Nat /\ n # 0
  BY FS_CardinalityType, FS_EmptySet
<1>2. \E x \in B : \A y \in B : x <= y
  <2>1. PICK x \in B : Rank(B, x) = 0
    <3>1. 0 \in 0 .. Cardinality(B) - 1
      BY <1>1
    <3> QED
      BY <3>1, RankTaken
  <2>2. Below(B, x) = {}
    BY <2>1, RankType, FS_EmptySet DEF Rank
  <2> QED
    BY <2>2 DEF Below
<1>3. \E x \in B : \A y \in B : y <= x
  <2>1. PICK x \in B : Rank(B, x) = n - 1
    <3>1. n - 1 \in 0 .. Cardinality(B) - 1
      BY <1>1
    <3> QED
      BY <3>1, RankTaken
  <2>2. Cardinality({j \in B : j <= x}) = n
    BY <1>1, <2>1, RankType
  <2>3. {j \in B : j <= x} = B
    <3>1. {j \in B : j <= x} \in SUBSET B
      OBVIOUS
    <3> QED
      BY <2>2, <3>1, FS_Subset
  <2> QED
    BY <2>3
<1> QED
  BY <1>2, <1>3

\* One further, one more: a set shifted by one.
LEMMA ShiftedCount ==
  ASSUME NEW B \in SUBSET Int, IsFiniteSet(B), NEW C \in SUBSET Int,
         \A k \in Int : k \in C <=> k - 1 \in B
  PROVE  IsFiniteSet(C) /\ Cardinality(C) = Cardinality(B)
<1> DEFINE f == [x \in B |-> x + 1]
<1>1. f \in [B -> C]
  OBVIOUS
<1>2. \A x, y \in B : f[x] = f[y] => x = y
  OBVIOUS
<1>3. \A k \in C : \E x \in B : f[x] = k
  <2> SUFFICES ASSUME NEW k \in C PROVE \E x \in B : f[x] = k
    OBVIOUS
  <2>1. k - 1 \in B /\ k - 1 + 1 = k
    OBVIOUS
  <2> QED
    BY <2>1
<1>4. f \in Bijection(B, C)
  <2> HIDE DEF f
  <2> QED
    BY <1>1, <1>2, <1>3 DEF Bijection, Injection, Surjection, IsInjective
<1>5. ExistsBijection(B, C)
  BY <1>4 DEF ExistsBijection
<1> QED
  BY <1>5, FS_Bijection

-----------------------------------------------------------------------------
(* Twcc: the feedback *)

\* Where the symbol of a packet is.
ChunkOf(k) == ((k - 1) \div PerChunk) + 1

PlaceOf(k) == ((k - 1) % PerChunk) + 1

LEMMA ChunkIndex ==
  ASSUME NEW c \in Nat, NEW k \in 1 .. c
  PROVE  /\ ChunkOf(k) \in 1 .. ChunkCount(c) /\ PlaceOf(k) \in 1 .. PerChunk
         /\ (ChunkOf(k) - 1) * PerChunk + PlaceOf(k) = k
<1> DEFINE x == k - 1
           y == c + PerChunk - 1
           d == x \div PerChunk
           e == y \div PerChunk
           r == x % PerChunk
           s == y % PerChunk
<1>1. PerChunk \in Nat \ {0} /\ x \in Nat /\ y \in Int /\ x < c /\ c - 1 = y - PerChunk
  BY TwccAssumption
<1>2. r \in 0 .. PerChunk - 1 /\ s \in 0 .. PerChunk - 1
  <2> HIDE DEF x, y
  <2> QED
    BY <1>1, DivMod
<1>3. d \in Int /\ e \in Int /\ x = PerChunk * d + r /\ y = PerChunk * e + s
  <2> HIDE DEF x, y
  <2> QED
    BY <1>1, QuotientRemainder
<1>4. /\ ChunkCount(c) = e /\ ChunkOf(k) = d + 1 /\ PlaceOf(k) = r + 1
      /\ k = x + 1 /\ x = k - 1
  BY DEF ChunkCount, ChunkOf, PlaceOf
<1> HIDE DEF x, y, d, e, r, s
<1>5. PerChunk * d \in Int /\ PerChunk * e \in Int /\ d * PerChunk = PerChunk * d
  BY <1>1, <1>3
<1>6. d >= 0
  <2> SUFFICES ASSUME d <= -1 PROVE FALSE
    BY <1>3
  <2>1. PerChunk * d <= -PerChunk
    BY <1>1, <1>3
  <2> QED
    BY <1>1, <1>2, <1>3, <1>5, <2>1
<1>7. d + 1 <= e
  <2> SUFFICES ASSUME e <= d PROVE FALSE
    BY <1>3
  <2>1. PerChunk * e <= PerChunk * d
    BY <1>1, <1>3
  <2> QED
    BY <1>1, <1>2, <1>3, <1>5, <2>1
<1>8. d + 1 \in 1 .. e /\ r + 1 \in 1 .. PerChunk
  BY <1>1, <1>2, <1>3, <1>6, <1>7
<1>9. ((d + 1) - 1) * PerChunk + (r + 1) = k
  <2>1. (d + 1) - 1 = d
    BY <1>3
  <2>2. PerChunk * d + (r + 1) = k
    BY <1>2, <1>3, <1>4, <1>5
  <2> QED
    BY <1>5, <2>1, <2>2
<1> QED
  BY <1>4, <1>8, <1>9

\* A feedback in its parts.
LEMMA FeedbackFields ==
  ASSUME NEW r
  PROVE  /\ Feedback(r).base = r.base /\ Feedback(r).count = pending_count(r)
         /\ Feedback(r).ref =
              ArrivalAt(r, CHOOSE i \in Arrived(r) : \A j \in Arrived(r) : i <= j) \div RefUnit
         /\ Feedback(r).chunks =
              encode_status_chunks([i \in 1 .. pending_count(r) |-> StatusOf(r, i - 1)])
         /\ Feedback(r).deltas = encode_recv_deltas(r)
BY DEF Feedback

\* The symbol of a packet is its status.
LEMMA SymbolIs ==
  ASSUME pending_count(rec) \in Nat, NEW k \in 1 .. pending_count(rec)
  PROVE  SymbolOf(Feedback(rec), k) = StatusOf(rec, k - 1)
<1> DEFINE c == pending_count(rec)
           statuses == [i \in 1 .. c |-> StatusOf(rec, i - 1)]
           a == ChunkOf(k)
           b == PlaceOf(k)
<1>1. c \in Nat /\ k \in 1 .. c
  OBVIOUS
<1>2. SymbolOf(Feedback(rec), k) = encode_status_chunks(statuses)[a][b]
  BY FeedbackFields DEF SymbolOf, ChunkOf, PlaceOf
<1>3. statuses[k] = StatusOf(rec, k - 1)
  OBVIOUS
<1>4. statuses \in [1 .. c -> 0 .. 2]
  BY DEF StatusOf
<1> HIDE DEF c, statuses
<1>5. a \in 1 .. ChunkCount(c) /\ b \in 1 .. PerChunk /\ (a - 1) * PerChunk + b = k
  BY <1>1, ChunkIndex
<1>6. Len(statuses) = c
  BY <1>1, <1>4
<1> HIDE DEF a, b
<1>7. k <= Len(statuses)
  BY <1>1, <1>6
<1>8. encode_status_chunks(statuses)[a][b] = statuses[k]
  BY <1>5, <1>6, <1>7 DEF encode_status_chunks
<1> QED
  BY <1>2, <1>3, <1>8

\* The pending numbers that arrived, and the symbols that say so.
LEMMA ReceivedSet ==
  ASSUME pending_count(rec) \in Nat
  PROVE  /\ Arrived(rec) \in SUBSET (0 .. pending_count(rec) - 1)
         /\ Arrived(rec) \in SUBSET Int /\ IsFiniteSet(Arrived(rec))
         /\ Received(Feedback(rec)) \in SUBSET Int
         /\ \A k \in Int : k \in Received(Feedback(rec)) <=> k - 1 \in Arrived(rec)
<1> DEFINE c == pending_count(rec)
           fb == Feedback(rec)
<1>1. Arrived(rec) \in SUBSET (0 .. c - 1)
  BY DEF Arrived
<1>2. IsFiniteSet(Arrived(rec))
  <2>1. IsFiniteSet(0 .. c - 1)
    <3>1. 0 \in Int /\ c - 1 \in Int
      OBVIOUS
    <3> HIDE DEF c
    <3> QED
      BY <3>1, FS_Interval
  <2> HIDE DEF c
  <2> QED
    BY <1>1, <2>1, FS_Subset
<1>3. Received(fb) = {k \in 1 .. c : SymbolOf(fb, k) # 0}
  BY FeedbackFields DEF Received
<1>4. ASSUME NEW k \in Int PROVE k \in Received(fb) <=> k - 1 \in Arrived(rec)
  <2>1. CASE k \in 1 .. c
    <3>1. SymbolOf(fb, k) = StatusOf(rec, k - 1)
      BY <2>1, SymbolIs
    <3>2. StatusOf(rec, k - 1) # 0 <=> k - 1 \in Arrived(rec)
      BY DEF StatusOf
    <3> QED
      BY <1>3, <2>1, <3>1, <3>2
  <2>2. CASE k \notin 1 .. c
    <3>1. k - 1 \notin 0 .. c - 1
      BY <2>2
    <3> QED
      BY <1>1, <1>3, <2>2, <3>1
  <2> QED
    BY <2>1, <2>2
<1>5. Received(fb) \in SUBSET Int
  BY <1>3
<1>6. Arrived(rec) \in SUBSET Int
  BY <1>1
<1> QED
  BY <1>1, <1>2, <1>4, <1>5, <1>6

\* One delta for each, in their order.
LEMMA DeltasCount ==
  ASSUME pending_count(rec) \in Nat
  PROVE  /\ Len(encode_recv_deltas(rec)) = Cardinality(Arrived(rec))
         /\ \A i \in Arrived(rec) :
              encode_recv_deltas(rec)[Rank(Arrived(rec), i) + 1] = Clamp(Delta(rec, i))
<1> DEFINE A == Arrived(rec)
           nth(k) == CHOOSE i \in A : Cardinality({j \in A : j < i}) = k - 1
           ds == [k \in 1 .. Cardinality(A) |-> Clamp(Delta(rec, nth(k)))]
           S == {Clamp(Delta(rec, nth(k))) : k \in 1 .. Cardinality(A)}
<1>1. encode_recv_deltas(rec) = ds
  BY DEF encode_recv_deltas
<1>2. A \in SUBSET Int /\ IsFiniteSet(A)
  BY ReceivedSet
<1> HIDE DEF A
<1>3. Cardinality(A) \in Nat
  BY <1>2, FS_CardinalityType
<1>4. ds \in [1 .. Cardinality(A) -> S]
  OBVIOUS
<1>5. ASSUME NEW i \in A
      PROVE  ds[Rank(A, i) + 1] = Clamp(Delta(rec, i))
  <2> DEFINE k == Rank(A, i) + 1
  <2>1. Rank(A, i) \in 0 .. Cardinality(A) - 1
    BY <1>2, RankType
  <2>2. k \in 1 .. Cardinality(A) /\ k - 1 = Rank(A, i)
    BY <1>3, <2>1
  <2>3. ds[k] = Clamp(Delta(rec, nth(k)))
    BY <2>2
  <2> DEFINE x == nth(k)
  <2>4. x \in A /\ Rank(A, x) = Rank(A, i)
    BY <2>2 DEF Rank, Below
  <2> HIDE DEF x
  <2>5. x = i
    <3>1. ~(x < i)
      <4> SUFFICES ASSUME x < i PROVE FALSE
        OBVIOUS
      <4>1. Rank(A, x) < Rank(A, i)
        BY <1>2, <2>4, RankOrder
      <4> QED
        BY <2>1, <2>4, <4>1
    <3>2. ~(i < x)
      <4> SUFFICES ASSUME i < x PROVE FALSE
        OBVIOUS
      <4>1. Rank(A, i) < Rank(A, x)
        BY <1>2, <2>4, RankOrder
      <4> QED
        BY <2>1, <2>4, <4>1
    <3>3. x \in Int /\ i \in Int
      BY <1>2, <2>4
    <3> QED
      BY <3>1, <3>2, <3>3
  <2> QED
    BY <2>3, <2>5 DEF x
<1>6. Len(ds) = Cardinality(A)
  <2> HIDE DEF ds, S
  <2> QED
    BY <1>3, <1>4
<1> HIDE DEF ds, S
<1> QED
  BY <1>1, <1>5, <1>6 DEF A

\* The delta read for a packet is the one that was written for it.
LEMMA DeltaRead ==
  ASSUME pending_count(rec) \in Nat, NEW k \in Received(Feedback(rec))
  PROVE  DeltaOf(Feedback(rec), k) = Clamp(Delta(rec, k - 1))
<1> DEFINE A == Arrived(rec)
           R == Received(Feedback(rec))
           B == {j \in A : j <= k - 1}
           C == {j \in R : j <= k}
<1>1. /\ A \in SUBSET Int /\ IsFiniteSet(A) /\ R \in SUBSET Int
      /\ \A j \in Int : j \in R <=> j - 1 \in A
  BY ReceivedSet
<1>2. Feedback(rec).deltas = encode_recv_deltas(rec)
  BY FeedbackFields
<1>3. DeltaOf(Feedback(rec), k) = encode_recv_deltas(rec)[Cardinality(C)]
  BY <1>2 DEF DeltaOf
<1> HIDE DEF A, R
<1>4. k \in R /\ k \in Int /\ k - 1 \in A
  BY <1>1 DEF R
<1>5. IsFiniteSet(B) /\ B \in SUBSET Int /\ C \in SUBSET Int
  <2>1. B \in SUBSET A
    OBVIOUS
  <2> HIDE DEF B
  <2> QED
    BY <1>1, <2>1, FS_Subset
<1>6. \A j \in Int : j \in C <=> j - 1 \in B
  BY <1>1, <1>4
<1>7. Cardinality(B) = Rank(A, k - 1) + 1
  BY <1>1, <1>4, RankType
<1> HIDE DEF B, C
<1>8. Cardinality(C) = Rank(A, k - 1) + 1
  BY <1>5, <1>6, <1>7, ShiftedCount
<1> QED
  BY <1>3, <1>4, <1>8, DeltasCount DEF A

\* Going from one delta to the next is going from one arrival to the next.
LEMMA TimeRead ==
  ASSUME TwccInv, rec.started, ~Overflows(rec), NEW k \in Received(Feedback(rec))
  PROVE  due.at[k] = TimeBefore(Feedback(rec), k) + Delta(rec, k - 1)
<1> DEFINE A == Arrived(rec)
           R == Received(Feedback(rec))
           i == k - 1
           bA == {j \in A : j < i}
           bR == {j \in R : j < k}
<1>1. pending_count(rec) \in Nat
  BY PendingCount, TwccNumbers DEF TwccInv
<1>2. /\ A \in SUBSET Int /\ IsFiniteSet(A) /\ R \in SUBSET Int
      /\ A \in SUBSET (0 .. pending_count(rec) - 1)
      /\ \A j \in Int : j \in R <=> j - 1 \in A
  BY <1>1, ReceivedSet
<1>3. k \in R /\ k \in Int /\ i \in A /\ i \in Int /\ i + 1 = k
  BY <1>2
<1>4. ASSUME NEW j \in A
      PROVE  ArrivalAt(rec, j) = due.at[j + 1] /\ due.at[j + 1] \in Nat
  <2> DEFINE h == j + 1
  <2>1. h \in 1 .. pending_count(rec) /\ h - 1 = j
    <3>1. j \in 0 .. pending_count(rec) - 1
      BY <1>2
    <3> QED
      BY <1>1, <3>1
  <2> HIDE DEF h
  <2>2. h - 1 \in Arrived(rec)
    BY <2>1
  <2>3. ArrivalAt(rec, h - 1) = due.at[h] /\ due.at[h] \in Nat
    BY <2>1, <2>2, TruthKnown
  <2> QED
    BY <2>1, <2>3 DEF h
<1>5. ArrivalAt(rec, i) = due.at[k] /\ due.at[k] \in Nat
  BY <1>3, <1>4
<1>6. Previous(rec, i) = IF bA = {} THEN i ELSE CHOOSE j \in bA : \A m \in bA : m <= j
  BY DEF Previous
<1>7. TimeBefore(Feedback(rec), k) =
        IF bR = {} THEN Feedback(rec).ref * RefUnit
        ELSE due.at[CHOOSE j \in bR : \A m \in bR : m <= j]
  BY DEF TimeBefore
<1>8. /\ Feedback(rec).ref =
           ArrivalAt(rec, CHOOSE j \in A : \A m \in A : j <= m) \div RefUnit
  BY FeedbackFields
<1>9. Delta(rec, i) = IF Previous(rec, i) = i THEN ArrivalAt(rec, i) % RefUnit
                      ELSE ArrivalAt(rec, i) - ArrivalAt(rec, Previous(rec, i))
  BY DEF Delta
<1> HIDE DEF A, R, i
<1>10. \A j \in Int : j \in bR <=> j - 1 \in bA
  BY <1>2, <1>3
<1>11. bA \in SUBSET A /\ bR \in SUBSET R /\ bA \in SUBSET Int /\ bR \in SUBSET Int
       /\ i \notin bA
  <2>1. bA \in SUBSET A /\ bR \in SUBSET R /\ ~(i < i)
    BY <1>3
  <2> QED
    BY <1>2, <2>1
<1>12. CASE bA = {}
  <2>1. bR = {}
    BY <1>10, <1>11, <1>12
  <2>2. \A m \in A : i <= m
    BY <1>2, <1>3, <1>12
  <2>3. (CHOOSE j \in A : \A m \in A : j <= m) = i
    <3> DEFINE least == CHOOSE j \in A : \A m \in A : j <= m
    <3>1. least \in A /\ \A m \in A : least <= m
      BY <1>3, <2>2
    <3>2. least <= i /\ i <= least /\ least \in Int /\ i \in Int
      BY <1>2, <1>3, <2>2, <3>1
    <3> HIDE DEF least
    <3>3. least = i
      BY <3>2
    <3> QED
      BY <3>3 DEF least
  <2>4. TimeBefore(Feedback(rec), k) = (due.at[k] \div RefUnit) * RefUnit
    BY <1>5, <1>7, <1>8, <2>1, <2>3
  <2>5. Delta(rec, i) = due.at[k] % RefUnit
    BY <1>5, <1>6, <1>9, <1>12
  <2> DEFINE x == due.at[k]
             d == x \div RefUnit
             z == x % RefUnit
  <2>6. d \in Int /\ z \in Int /\ x = RefUnit * d + z /\ RefUnit \in Nat
    <3>1. RefUnit \in Nat \ {0} /\ x \in Int
      BY <1>5, TwccAssumption
    <3> HIDE DEF x
    <3> QED
      BY <3>1, QuotientRemainder, DivMod
  <2>7. TimeBefore(Feedback(rec), k) = d * RefUnit /\ Delta(rec, i) = z /\ due.at[k] = x
    BY <2>4, <2>5
  <2> HIDE DEF x, d, z
  <2>8. RefUnit * d = d * RefUnit
    BY <2>6
  <2> QED
    BY <2>6, <2>7, <2>8 DEF i
<1>13. CASE bA # {}
  <2>1. PICK m \in bA : \A j \in bA : j <= m
    <3>1. IsFiniteSet(bA)
      BY <1>2, <1>11, FS_Subset
    <3> HIDE DEF bA
    <3> QED
      BY <1>11, <1>13, <3>1, LeastGreatest
  <2>2. m \in Int /\ m # i /\ m \in A
    BY <1>11, <2>1
  <2> HIDE DEF bA, bR
  <2>3. (CHOOSE j \in bA : \A x \in bA : x <= j) = m
    <3> DEFINE last == CHOOSE j \in bA : \A x \in bA : x <= j
    <3>1. last \in bA /\ \A x \in bA : x <= last
      BY <2>1
    <3>2. last <= m /\ m <= last /\ last \in Int
      BY <1>11, <2>1, <3>1
    <3> HIDE DEF last
    <3>3. last = m
      BY <2>2, <3>2
    <3> QED
      BY <3>3 DEF last
  <2>4. m + 1 \in bR /\ \A j \in bR : j <= m + 1
    <3>1. (m + 1) - 1 = m /\ m + 1 \in Int
      BY <2>2
    <3> DEFINE h == m + 1
    <3>2. h \in bR
      <4>1. h \in Int /\ h - 1 = m
        BY <3>1
      <4> HIDE DEF h
      <4> QED
        BY <1>10, <2>1, <4>1
    <3>3. ASSUME NEW j \in bR PROVE j <= m + 1
      <4>1. j \in Int /\ j - 1 <= m
        BY <1>10, <1>11, <2>1
      <4> QED
        BY <2>2, <4>1
    <3> QED
      BY <3>2, <3>3
  <2>5. (CHOOSE j \in bR : \A x \in bR : x <= j) = m + 1
    <3> DEFINE last == CHOOSE j \in bR : \A x \in bR : x <= j
    <3>1. last \in bR /\ \A x \in bR : x <= last
      BY <2>4
    <3>2. last <= m + 1 /\ m + 1 <= last /\ last \in Int
      BY <1>11, <2>4, <3>1
    <3> HIDE DEF last
    <3>3. last = m + 1
      BY <2>2, <3>2
    <3> QED
      BY <3>3 DEF last
  <2>6. TimeBefore(Feedback(rec), k) = due.at[m + 1]
    BY <1>7, <2>4, <2>5
  <2>7. Previous(rec, i) = m
    BY <1>6, <1>13, <2>3
  <2>8. ArrivalAt(rec, m) = due.at[m + 1] /\ due.at[m + 1] \in Nat
    BY <1>4, <2>2
  <2>9. Delta(rec, i) = due.at[k] - due.at[m + 1]
    BY <1>5, <1>9, <2>2, <2>7, <2>8
  <2>10. due.at[k] = due.at[m + 1] + (due.at[k] - due.at[m + 1])
    BY <1>5, <2>8
  <2> QED
    BY <2>6, <2>9, <2>10 DEF i
<1> QED
  BY <1>12, <1>13

\* The invariant makes the feedback true.
LEMMA InvariantFeedback == TwccInv => FeedbackTrue
<1> SUFFICES ASSUME TwccInv, rec.started PROVE FeedbackTrue
  BY DEF FeedbackTrue
<1> DEFINE c == pending_count(rec)
           fb == Feedback(rec)
           A == Arrived(rec)
           R == Received(fb)
<1>1. TwccTyped /\ Span
  BY DEF TwccInv
<1>2. rec.base = NumOf(due.base) /\ c = Len(due.at) /\ c \in Nat
  BY <1>1, PendingCount, TwccNumbers DEF Span
<1>3. ~Overflows(rec) => \A k \in 1 .. Len(due.at) : due.at[k] # -1 <=> k - 1 \in A
  BY <1>2, TruthKnown
<1>4. ASSUME Builds(rec)
      PROVE  /\ R = {k \in 1 .. fb.count : due.at[k] # -1}
             /\ Len(fb.deltas) = Cardinality(R)
             /\ InRange => \A k \in R : due.at[k] = TimeBefore(fb, k) + DeltaOf(fb, k)
  <2>1. ~Overflows(rec)
    BY <1>4 DEF Builds
  <2>2. /\ A \in SUBSET Int /\ IsFiniteSet(A) /\ R \in SUBSET Int
        /\ \A k \in Int : k \in R <=> k - 1 \in A
    BY <1>2, ReceivedSet
  <2>3. fb.count = c /\ fb.deltas = encode_recv_deltas(rec)
    BY FeedbackFields
  <2>4. R \in SUBSET (1 .. c)
    BY <2>3 DEF Received
  <2>5. ASSUME InRange, NEW k \in R
        PROVE  due.at[k] = TimeBefore(fb, k) + DeltaOf(fb, k)
    <3>1. DeltaOf(fb, k) = Clamp(Delta(rec, k - 1))
      BY <1>2, DeltaRead
    <3>2. due.at[k] = TimeBefore(fb, k) + Delta(rec, k - 1)
      BY <2>1, TimeRead
    <3>3. Clamp(Delta(rec, k - 1)) = Delta(rec, k - 1)
      BY <2>2, <2>5 DEF InRange
    <3> QED
      BY <3>1, <3>2, <3>3
  <2>6. Len(fb.deltas) = Cardinality(A)
    BY <1>2, <2>3, DeltasCount
  <2> HIDE DEF fb, A, R, c
  <2>7. Cardinality(R) = Cardinality(A)
    BY <2>2, ShiftedCount
  <2>8. R = {k \in 1 .. fb.count : due.at[k] # -1}
    <3>1. \A k \in 1 .. c : due.at[k] # -1 <=> k - 1 \in A
      BY <1>2, <1>3, <2>1
    <3>2. ASSUME NEW k \in 1 .. c PROVE k \in R <=> due.at[k] # -1
      <4>1. k \in Int
        BY <1>2
      <4>2. k \in R <=> k - 1 \in A
        BY <2>2, <4>1
      <4>3. due.at[k] # -1 <=> k - 1 \in A
        BY <3>1
      <4> QED
        BY <4>2, <4>3
    <3> QED
      BY <2>3, <2>4, <3>2
  <2> QED
    BY <2>5, <2>6, <2>7, <2>8
<1> QED
  BY <1>2, <1>3, <1>4 DEF FeedbackTrue

\* build_twcc_feedback (twcc.rs): whatever is lost, overtaken or late, short of a whole round of
\* the ring missed, the publisher reads from a feedback which of the pending packets have
\* arrived, and when.
THEOREM FeedbackIsTrue == TwccSpec => []FeedbackTrue
BY TwccInvariant, InvariantFeedback, PTL

-----------------------------------------------------------------------------
(* The two together *)

\* collect_rtp_stats feeds both records with what arrives: whichever is looked at, the
\* numbers of both stay within their widths and the slots hold numbers of their own.
THEOREM FeedbackTypes == FeedbackSpec => []FeedbackTypeOK
<1>1. FeedbackInit => RecvInit /\ TwccInit
  BY DEF FeedbackInit
<1>2. [FeedbackNext]_<<recvVars, twccVars, fed>> => [RecvNext]_recvVars /\ [TwccNext]_twccVars
  BY DEF FeedbackNext
<1> QED
  BY <1>1, <1>2, RecvTypes, TwccTypes, PTL DEF FeedbackSpec, RecvSpec, TwccSpec, FeedbackTypeOK
=============================================================================
