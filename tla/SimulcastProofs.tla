-------------------------- MODULE SimulcastProofs ---------------------------
(***************************************************************************)
(* Proofs about Simulcast, for every modulus of the sequence numbers, every *)
(* cache size and every degree of reordering.                              *)
(***************************************************************************)
EXTENDS Simulcast, TLAPS

\* What makes a forwarded packet decodable: a subscriber whose rewriter waits
\* for no keyframe is on the layer of the packet it got last, and has missed
\* nothing of that layer since.
InStep ==
  entry # None /\ entry.rid \in Layers /\ entry.initialized /\ ~entry.pending_keyframe
    => last # None /\ last.layer = entry.rid /\ ~skipped

SInv == TypeOK /\ InStep

\* Sequence numbers stay in range under the wrapping operations.
LEMMA SeqRange ==
  ASSUME NEW a \in Int, NEW b \in Int
  PROVE  SeqAdd(a, b) \in Seqs /\ SeqSub(a, b) \in Seqs
BY SimulcastAssumption DEF SeqAdd, SeqSub, Seqs

\* Sequence numbers are integers, and 0 is one of them.
LEMMA SeqsAreInts == Seqs \subseteq Int /\ 0 \in Seqs
BY SimulcastAssumption DEF Seqs

\* A new entry is well typed, waits for no change and has seen no keyframe.
LEMMA NewEntryType ==
  ASSUME NEW rid \in Rids
  PROVE  NewEntry(rid) \in LayerEntry /\ ~NewEntry(rid).initialized
BY SeqsAreInts DEF NewEntry, LayerEntry

\* A rewrite keeps the entry's types and layer and ends the wait for a keyframe.
LEMMA RebasedType ==
  ASSUME NEW e \in LayerEntry, NEW q \in Seqs
  PROVE  /\ Rebased(e, q) \in LayerEntry
         /\ Rebased(e, q).rid = e.rid
<1>1. e.last_out_seq \in Int /\ q \in Int
  BY SeqsAreInts DEF LayerEntry
<1>2. SeqAdd(e.last_out_seq, 1) \in Seqs
  BY <1>1, SeqRange
<1>3. SeqSub(SeqAdd(e.last_out_seq, 1), q) \in Seqs
  BY <1>1, <1>2, SeqRange, SeqsAreInts
<1>4. CASE ~e.initialized
  BY <1>4, SeqsAreInts DEF Rebased, LayerEntry
<1>5. CASE e.initialized /\ e.pending_keyframe
  BY <1>5, <1>3 DEF Rebased, LayerEntry
<1>6. CASE e.initialized /\ ~e.pending_keyframe
  BY <1>6 DEF Rebased
<1> QED
  BY <1>4, <1>5, <1>6

\* Forwarding packet q of the layer the subscriber is on keeps the types and
\* leaves the subscriber in step.
LEMMA ForwardInv ==
  ASSUME NEW e \in LayerEntry, NEW l \in Layers, NEW q \in Seqs,
         NEW key \in BOOLEAN, NEW late \in BOOLEAN,
         e.rid = l, Forward(e, l, q, key, late)
  PROVE  /\ entry' \in LayerEntry
         /\ last' \in SentPacket
         /\ asked' \in BOOLEAN /\ skipped' \in BOOLEAN
         /\ InStep'
<1> DEFINE r == Rebased(e, q)
           v == SeqAdd(q, r.seq_offset)
<1>1. r \in LayerEntry /\ r.rid = l
  BY RebasedType
<1>2. q \in Int /\ r.seq_offset \in Int
  BY <1>1, SeqsAreInts DEF LayerEntry
<1>3. v \in Seqs
  BY <1>2, SeqRange
<1> HIDE DEF r, v
<1>4. /\ entry' = [r EXCEPT !.last_out_seq = v]
      /\ last' = [layer |-> l, seq |-> q, out |-> v, key |-> key, late |-> late]
      /\ asked' = FALSE /\ skipped' = FALSE
  BY DEF Forward, r, v
<1>5. entry' \in LayerEntry /\ entry'.rid = l
  BY <1>1, <1>3, <1>4 DEF LayerEntry
<1>6. last' \in SentPacket /\ last'.layer = l
  BY <1>3, <1>4 DEF SentPacket
<1>7. last' # None
  BY <1>6, NoneAssumption
<1>8. InStep'
  BY <1>4, <1>5, <1>6, <1>7 DEF InStep
<1> QED
  BY <1>4, <1>5, <1>6, <1>8

\* A packet the subscriber does not get keeps types and step: it is either of
\* another layer, or one that a rewriter waiting for a keyframe drops.
LEMMA SkipInv ==
  ASSUME SInv, NEW e \in LayerEntry, NEW l \in Layers, NEW key \in BOOLEAN,
         e = entry \/ (entry = None /\ ~e.initialized),
         e.rid # l \/ Drops(e, key), Skip(e, l)
  PROVE  /\ entry' \in LayerEntry
         /\ last' \in SentPacket \cup {None}
         /\ asked' \in BOOLEAN /\ skipped' \in BOOLEAN
         /\ InStep'
<1>1. /\ entry' = e /\ last' = last /\ asked' = asked
      /\ skipped' = (skipped \/ (last # None /\ last.layer = l))
  BY DEF Skip
<1>2. last' \in SentPacket \cup {None} /\ asked' \in BOOLEAN /\ skipped' \in BOOLEAN
  BY <1>1 DEF SInv, TypeOK
<1>3. ASSUME e.rid \in Layers, e.initialized, ~e.pending_keyframe
      PROVE  last # None /\ last.layer = e.rid /\ ~skipped'
  <2>1. e = entry /\ entry # None
    BY <1>3, NoneAssumption
  <2>2. last # None /\ last.layer = e.rid /\ ~skipped
    BY <1>3, <2>1 DEF SInv, InStep
  <2>3. e.rid # l
    BY <1>3 DEF Drops
  <2> QED
    BY <1>1, <2>2, <2>3
<1>4. InStep'
  BY <1>1, <1>3 DEF InStep
<1> QED
  BY <1>1, <1>2, <1>4

\* The entry that a packet meets: the subscriber's, or a new one for "h".
LEMMA FanoutInv ==
  ASSUME SInv, NEW l \in Layers, NEW q \in Seqs, NEW key \in BOOLEAN, NEW late \in BOOLEAN,
         Fanout(l, q, key, late)
  PROVE  /\ entry' \in LayerEntry
         /\ last' \in SentPacket \cup {None}
         /\ asked' \in BOOLEAN /\ skipped' \in BOOLEAN
         /\ InStep'
<1> DEFINE e == IF entry = None THEN NewEntry("h") ELSE entry
<1>1. "h" \in Rids
  BY DEF Rids, Layers
<1>2. e \in LayerEntry /\ (e = entry \/ (entry = None /\ ~e.initialized))
  BY <1>1, NewEntryType DEF SInv, TypeOK
<1>3. IF e.rid # l \/ Drops(e, key) THEN Skip(e, l) ELSE Forward(e, l, q, key, late)
  BY DEF Fanout
<1> HIDE DEF e
<1>4. CASE e.rid # l \/ Drops(e, key)
  <2>1. Skip(e, l)
    BY <1>3, <1>4
  <2> QED
    BY <1>2, <1>4, <2>1, SkipInv
<1>5. CASE ~(e.rid # l \/ Drops(e, key))
  <2>1. Forward(e, l, q, key, late) /\ e.rid = l
    BY <1>3, <1>5
  <2> QED
    BY <1>2, <2>1, ForwardInv
<1> QED
  BY <1>4, <1>5

\* Storing a packet keeps the type of the cache.
LEMMA StoreType ==
  ASSUME SInv, NEW l \in Layers, NEW q \in Seqs
  PROVE  Store(l, q) \in [0..CacheSize - 1 -> (Layers \X Seqs) \cup {None}]
<1>1. cache \in [0..CacheSize - 1 -> (Layers \X Seqs) \cup {None}]
  BY DEF SInv, TypeOK
<1>2. <<l, q>> \in (Layers \X Seqs) \cup {None}
  OBVIOUS
<1> QED
  BY <1>1, <1>2 DEF Store

\* Each step keeps the invariant.
LEMMA SInvStep == SInv /\ [Next]_simVars => SInv'
<1> SUFFICES ASSUME SInv, [Next]_simVars PROVE SInv'
  OBVIOUS
<1>0. /\ next \in [Layers -> Seqs] /\ missing \in [Layers -> SUBSET Seqs]
      /\ entry \in LayerEntry \cup {None}
      /\ cache \in [0..CacheSize - 1 -> (Layers \X Seqs) \cup {None}]
      /\ last \in SentPacket \cup {None} /\ asked \in BOOLEAN /\ skipped \in BOOLEAN
      /\ InStep
  BY DEF SInv, TypeOK
<1>1. ASSUME NEW l \in Layers
      PROVE  /\ next[l] \in Seqs
             /\ [next EXCEPT ![l] = SeqAdd(next[l], 1)] \in [Layers -> Seqs]
  <2>1. next[l] \in Seqs
    BY <1>0
  <2>2. SeqAdd(next[l], 1) \in Seqs
    <3>1. next[l] \in Int /\ 1 \in Int
      BY <2>1, SimulcastAssumption DEF Seqs
    <3> QED
      BY <3>1, SeqRange
  <2> QED
    BY <1>0, <2>1, <2>2
<1>2. ASSUME NEW rid \in Rids, handle_subscribe_layer(rid) PROVE SInv'
  <2> DEFINE e == IF entry = None THEN NewEntry(rid) ELSE entry
  <2>1. e \in LayerEntry
    BY <1>0, NewEntryType
  <2>2. /\ entry' = IF entry # None /\ entry.rid = rid THEN e
                    ELSE IF rid = "pause" THEN [e EXCEPT !.rid = rid]
                    ELSE SwitchLayer([e EXCEPT !.rid = rid])
        /\ asked' = (asked \/ entry = None \/ entry.rid # rid)
        /\ UNCHANGED <<next, missing, cache, last, skipped>>
    BY <1>2 DEF handle_subscribe_layer
  <2>3. asked' \in BOOLEAN
    BY <1>0, <2>2
  <2>4. CASE entry # None /\ entry.rid = rid
    <3>1. entry' = entry
      BY <2>2, <2>4
    <3> QED
      BY <1>0, <2>2, <2>3, <3>1 DEF SInv, TypeOK, InStep
  <2>5. CASE ~(entry # None /\ entry.rid = rid) /\ rid = "pause"
    <3> HIDE DEF e
    <3>1. entry' = [e EXCEPT !.rid = rid]
      BY <2>2, <2>5
    <3>2. entry' \in LayerEntry /\ entry'.rid = "pause"
      BY <2>1, <2>5, <3>1 DEF LayerEntry
    <3>3. entry'.rid \notin Layers
      BY <3>2 DEF Layers
    <3> QED
      BY <1>0, <2>2, <2>3, <3>2, <3>3 DEF SInv, TypeOK, InStep
  <2>6. CASE ~(entry # None /\ entry.rid = rid) /\ rid # "pause"
    <3> HIDE DEF e
    <3>1. entry' = [[e EXCEPT !.rid = rid] EXCEPT !.pending_keyframe = TRUE]
      BY <2>2, <2>6 DEF SwitchLayer
    <3>2. entry' \in LayerEntry /\ entry'.pending_keyframe = TRUE
      BY <2>1, <3>1 DEF LayerEntry
    <3> QED
      BY <1>0, <2>2, <2>3, <3>2 DEF SInv, TypeOK, InStep
  <2> QED
    BY <2>4, <2>5, <2>6
<1>3. ASSUME NEW l \in Layers, NEW key \in BOOLEAN, Arrives(l, key) PROVE SInv'
  <2>1. /\ Fanout(l, next[l], key, FALSE) /\ cache' = Store(l, next[l])
        /\ next' = [next EXCEPT ![l] = SeqAdd(next[l], 1)]
        /\ missing' = [missing EXCEPT ![l] = Recent(l, missing[l], next'[l])]
    BY <1>3 DEF Arrives
  <2>2. /\ entry' \in LayerEntry /\ last' \in SentPacket \cup {None}
        /\ asked' \in BOOLEAN /\ skipped' \in BOOLEAN /\ InStep'
    <3>1. next[l] \in Seqs /\ FALSE \in BOOLEAN
      BY <1>1
    <3> QED
      BY <2>1, <3>1, FanoutInv
  <2>3. cache' \in [0..CacheSize - 1 -> (Layers \X Seqs) \cup {None}]
    BY <1>1, <2>1, StoreType
  <2>4. Recent(l, missing[l], next'[l]) \in SUBSET Seqs
    BY <1>0 DEF Recent
  <2>5. missing' \in [Layers -> SUBSET Seqs]
    BY <1>0, <2>1, <2>4
  <2> QED
    BY <1>1, <2>1, <2>2, <2>3, <2>5 DEF SInv, TypeOK
<1>4. ASSUME NEW l \in Layers, NEW q \in Seqs, NEW key \in BOOLEAN, ArrivesLate(l, q, key)
      PROVE  SInv'
  <2>1. /\ Fanout(l, q, key, TRUE) /\ cache' = Store(l, q) /\ next' = next
        /\ missing' = [missing EXCEPT ![l] = missing[l] \ {q}]
    BY <1>4 DEF ArrivesLate
  <2>2. /\ entry' \in LayerEntry /\ last' \in SentPacket \cup {None}
        /\ asked' \in BOOLEAN /\ skipped' \in BOOLEAN /\ InStep'
    BY <2>1, FanoutInv
  <2>3. cache' \in [0..CacheSize - 1 -> (Layers \X Seqs) \cup {None}]
    BY <2>1, StoreType
  <2>4. missing' \in [Layers -> SUBSET Seqs]
    BY <1>0, <2>1
  <2> QED
    BY <1>0, <2>1, <2>2, <2>3, <2>4 DEF SInv, TypeOK
<1>5. ASSUME NEW l \in Layers, Delayed(l) PROVE SInv'
  <2>1. /\ next' = [next EXCEPT ![l] = SeqAdd(next[l], 1)]
        /\ missing' = [missing EXCEPT ![l] = Recent(l, missing[l] \cup {next[l]}, next'[l])]
        /\ UNCHANGED <<entry, cache, last, asked, skipped>>
    BY <1>5 DEF Delayed
  <2>2. Recent(l, missing[l] \cup {next[l]}, next'[l]) \in SUBSET Seqs
    BY <1>0, <1>1 DEF Recent
  <2>3. missing' \in [Layers -> SUBSET Seqs]
    BY <1>0, <2>1, <2>2
  <2> QED
    BY <1>0, <1>1, <2>1, <2>3 DEF SInv, TypeOK, InStep
<1>6. CASE UNCHANGED simVars
  BY <1>0, <1>6 DEF SInv, TypeOK, InStep, simVars
<1> QED
  BY <1>2, <1>3, <1>4, <1>5, <1>6 DEF Next

\* The invariant holds before the first packet.
LEMMA SInvInit == Init => SInv
<1> SUFFICES ASSUME Init PROVE SInv
  OBVIOUS
<1>1. TypeOK
  BY DEF Init, TypeOK
<1>2. InStep
  BY DEF Init, InStep
<1> QED
  BY <1>1, <1>2 DEF SInv

\* For every modulus, cache size and reordering the state keeps its types: no
\* sequence number leaves its range.
THEOREM SimulcastTypes == Spec => []TypeOK
<1>1. Spec => []SInv
  BY SInvInit, SInvStep, PTL DEF Spec
<1>2. SInv => TypeOK
  BY DEF SInv
<1> QED
  BY <1>1, <1>2, PTL

\* A packet goes out only from Forward, to a subscriber on its layer whose
\* rewriter either sees a keyframe or waits for none.
LEMMA ForwardedDecodable ==
  ASSUME SInv, [Next]_simVars
  PROVE  last' # last =>
           last'.key \/ (last # None /\ last'.layer = last.layer /\ ~skipped)
<1> SUFFICES ASSUME last' # last
             PROVE  last'.key \/ (last # None /\ last'.layer = last.layer /\ ~skipped)
  OBVIOUS
<1>1. ASSUME NEW l \in Layers, NEW q \in Seqs, NEW key \in BOOLEAN, NEW late \in BOOLEAN,
             Fanout(l, q, key, late)
      PROVE  last'.key \/ (last # None /\ last'.layer = last.layer /\ ~skipped)
  <2> DEFINE e == IF entry = None THEN NewEntry("h") ELSE entry
  <2>0. "h" \in Rids
    BY DEF Rids, Layers
  <2>1. entry = None => ~e.initialized
    BY <2>0, NewEntryType
  <2>2. entry # None => e = entry
    OBVIOUS
  <2>3. ~(e.rid # l \/ Drops(e, key)) /\ Forward(e, l, q, key, late)
    BY <1>1 DEF Fanout, Skip
  <2> HIDE DEF e
  <2>4. last'.key = key /\ last'.layer = l
    BY <2>3 DEF Forward
  <2>5. CASE key
    BY <2>4, <2>5
  <2>6. CASE ~key
    <3>1. e.initialized /\ ~e.pending_keyframe /\ e.rid = l
      BY <2>3, <2>6 DEF Drops
    <3>2. entry # None /\ e = entry
      BY <2>1, <2>2, <3>1
    <3> QED
      BY <2>4, <3>1, <3>2 DEF SInv, InStep
  <2> QED
    BY <2>5, <2>6
<1>2. ASSUME NEW l \in Layers, NEW key \in BOOLEAN, Arrives(l, key)
      PROVE  last'.key \/ (last # None /\ last'.layer = last.layer /\ ~skipped)
  <2>1. next[l] \in Seqs /\ Fanout(l, next[l], key, FALSE)
    BY <1>2 DEF Arrives, SInv, TypeOK
  <2> QED
    BY <1>1, <2>1
<1>3. ASSUME NEW l \in Layers, NEW q \in Seqs, NEW key \in BOOLEAN, ArrivesLate(l, q, key)
      PROVE  last'.key \/ (last # None /\ last'.layer = last.layer /\ ~skipped)
  <2>1. Fanout(l, q, key, TRUE)
    BY <1>3 DEF ArrivesLate
  <2> QED
    BY <1>1, <2>1
<1>4. ~(\E rid \in Rids : handle_subscribe_layer(rid)) /\ ~(\E l \in Layers : Delayed(l))
      /\ ~UNCHANGED simVars
  BY DEF handle_subscribe_layer, Delayed, simVars
<1> QED
  BY <1>2, <1>3, <1>4 DEF Next

\* Whatever layers the subscriber asks for and when, and however packets are
\* lost and reordered: each forwarded packet is a keyframe, or of the layer of
\* the one before it with nothing of that layer left out by the server.
THEOREM AlwaysDecodable == Spec => DecodableOrKeyframe
<1>1. Spec => []SInv
  BY SInvInit, SInvStep, PTL DEF Spec
<1>2. SInv /\ [Next]_simVars =>
        [last' # last =>
           last'.key \/ (last # None /\ last'.layer = last.layer /\ ~skipped)]_last
  BY ForwardedDecodable
<1> QED
  BY <1>1, <1>2, PTL DEF Spec, DecodableOrKeyframe
-----------------------------------------------------------------------------
(* The numbers the subscriber sees. *)

\* The entry still maps the packet that was sent last: its virtual number is
\* the number of its layer under the present offset, and the one the next
\* rebase goes on from. A rebase is due exactly when the subscriber has changed
\* layer since.
Numbered ==
  last # None =>
    /\ entry # None /\ entry.initialized
    /\ entry.last_out_seq = last.out
    /\ last.out = SeqAdd(last.seq, entry.seq_offset)
    /\ entry.rid \in Layers => (entry.pending_keyframe <=> asked)

NInv == SInv /\ Numbered

\* What wrapping_add and wrapping_sub do to two numbers: they wrap at most once.
LEMMA WrapsOnce ==
  ASSUME NEW a \in Seqs, NEW b \in Seqs \cup {1}
  PROVE  /\ SeqAdd(a, b) = IF a + b < SeqMod THEN a + b ELSE a + b - SeqMod
         /\ b \in Seqs => SeqSub(a, b) = IF a >= b THEN a - b ELSE a - b + SeqMod
<1>1. SeqMod \in Nat \ {0} /\ a \in 0..SeqMod - 1 /\ b \in 0..SeqMod
  BY SimulcastAssumption DEF Seqs
<1>2. \A x \in Int : 0 <= x /\ x < SeqMod => x % SeqMod = x
  BY <1>1
<1>3. \A x \in Int : SeqMod <= x /\ x < SeqMod + SeqMod => x % SeqMod = x - SeqMod
  BY <1>1
<1>4. \A x \in Int : -SeqMod <= x /\ x < 0 => x % SeqMod = x + SeqMod
  BY <1>1
<1>5. SeqAdd(a, b) = IF a + b < SeqMod THEN a + b ELSE a + b - SeqMod
  BY <1>1, <1>2, <1>3 DEF SeqAdd
<1>6. SeqSub(a, b) = IF a >= b THEN a - b ELSE a - b + SeqMod
  BY <1>1, <1>2, <1>4 DEF SeqSub
<1> QED
  BY <1>5, <1>6

\* reverse_seq undoes the rewrite of a number.
LEMMA SubUndoesAdd ==
  ASSUME NEW a \in Seqs, NEW b \in Seqs
  PROVE  SeqSub(SeqAdd(a, b), b) = a
<1>1. SeqMod \in Nat \ {0} /\ a \in 0..SeqMod - 1 /\ b \in 0..SeqMod - 1
  BY SimulcastAssumption DEF Seqs
<1>2. SeqAdd(a, b) = IF a + b < SeqMod THEN a + b ELSE a + b - SeqMod
  BY WrapsOnce
<1>3. SeqAdd(a, b) \in Seqs
  BY <1>1, <1>2 DEF Seqs
<1>4. SeqSub(SeqAdd(a, b), b) = IF SeqAdd(a, b) >= b THEN SeqAdd(a, b) - b ELSE SeqAdd(a, b) - b + SeqMod
  BY <1>3, WrapsOnce
<1> QED
  BY <1>1, <1>2, <1>4

\* The offset that takes packet q to the virtual number v does so.
LEMMA AddUndoesSub ==
  ASSUME NEW q \in Seqs, NEW v \in Seqs
  PROVE  SeqAdd(q, SeqSub(v, q)) = v
<1>1. SeqMod \in Nat \ {0} /\ q \in 0..SeqMod - 1 /\ v \in 0..SeqMod - 1
  BY SimulcastAssumption DEF Seqs
<1>2. SeqSub(v, q) = IF v >= q THEN v - q ELSE v - q + SeqMod
  BY WrapsOnce
<1>3. SeqSub(v, q) \in Seqs
  BY <1>1, <1>2 DEF Seqs
<1>4. SeqAdd(q, SeqSub(v, q)) = IF q + SeqSub(v, q) < SeqMod THEN q + SeqSub(v, q)
                                ELSE q + SeqSub(v, q) - SeqMod
  BY <1>3, WrapsOnce
<1> QED
  BY <1>1, <1>2, <1>4

\* Two numbers under one offset are as far apart as they were without it.
LEMMA OffsetKeepsDistance ==
  ASSUME NEW p \in Seqs, NEW q \in Seqs, NEW b \in Seqs
  PROVE  SeqSub(SeqAdd(q, b), SeqAdd(p, b)) = SeqSub(q, p)
<1> DEFINE x == SeqAdd(q, b)
           y == SeqAdd(p, b)
<1>1. /\ SeqMod \in Nat \ {0} /\ p \in 0..SeqMod - 1 /\ q \in 0..SeqMod - 1
      /\ b \in 0..SeqMod - 1
  BY SimulcastAssumption DEF Seqs
<1>2. /\ x = IF q + b < SeqMod THEN q + b ELSE q + b - SeqMod
      /\ y = IF p + b < SeqMod THEN p + b ELSE p + b - SeqMod
      /\ SeqSub(q, p) = IF q >= p THEN q - p ELSE q - p + SeqMod
  BY WrapsOnce
<1> HIDE DEF x, y
<1>3. x \in Seqs /\ y \in Seqs
  BY <1>1, <1>2 DEF Seqs
<1>4. SeqSub(x, y) = IF x >= y THEN x - y ELSE x - y + SeqMod
  BY <1>3, WrapsOnce
<1>5. SeqSub(x, y) = SeqSub(q, p)
  BY <1>1, <1>2, <1>4
<1> QED
  BY <1>5 DEF x, y

\* The number after v is one further.
LEMMA NextIsOneOn ==
  ASSUME NEW v \in Seqs
  PROVE  SeqSub(SeqAdd(v, 1), v) = 1 % SeqMod
<1>1. SeqMod \in Nat \ {0} /\ v \in 0..SeqMod - 1
  BY SimulcastAssumption DEF Seqs
<1>2. SeqAdd(v, 1) = IF v + 1 < SeqMod THEN v + 1 ELSE v + 1 - SeqMod
  BY WrapsOnce
<1>3. SeqAdd(v, 1) \in Seqs
  BY <1>1, <1>2 DEF Seqs
<1>4. SeqSub(SeqAdd(v, 1), v) = IF SeqAdd(v, 1) >= v THEN SeqAdd(v, 1) - v
                                ELSE SeqAdd(v, 1) - v + SeqMod
  BY <1>3, WrapsOnce
<1>5. 1 % SeqMod = IF SeqMod = 1 THEN 0 ELSE 1
  BY <1>1
<1> QED
  BY <1>1, <1>2, <1>4, <1>5

\* The entry and the history after a packet has been forwarded.
LEMMA ForwardFields ==
  ASSUME NEW e \in LayerEntry, NEW l \in Layers, NEW q \in Seqs,
         NEW key \in BOOLEAN, NEW late \in BOOLEAN, Forward(e, l, q, key, late),
         ~Drops(e, key)
  PROVE  LET r == Rebased(e, q)
         IN  /\ r \in LayerEntry /\ r.initialized /\ ~r.pending_keyframe
             /\ entry' \in LayerEntry
             /\ entry'.initialized /\ ~entry'.pending_keyframe
             /\ entry'.seq_offset = r.seq_offset
             /\ entry'.last_out_seq = SeqAdd(q, r.seq_offset)
             /\ last' \in SentPacket
             /\ last'.seq = q /\ last'.out = SeqAdd(q, r.seq_offset)
             /\ ~asked'
<1> DEFINE r == Rebased(e, q)
           v == SeqAdd(q, r.seq_offset)
<1>1. r \in LayerEntry
  BY RebasedType
<1>2. r.initialized /\ ~r.pending_keyframe
  <2>1. CASE ~e.initialized
    BY <2>1 DEF Rebased, LayerEntry
  <2>2. CASE e.initialized /\ e.pending_keyframe
    BY <2>2 DEF Rebased, LayerEntry
  <2>3. CASE e.initialized /\ ~e.pending_keyframe
    BY <2>3 DEF Rebased
  <2> QED
    BY <2>1, <2>2, <2>3
<1>3. v \in Seqs
  BY <1>1, SeqsAreInts, SeqRange DEF LayerEntry
<1>4. /\ entry' = [r EXCEPT !.last_out_seq = v]
      /\ last' = [layer |-> l, seq |-> q, out |-> v, key |-> key, late |-> late]
      /\ asked' = FALSE
  BY DEF Forward
<1> HIDE DEF r, v
<1>5. /\ entry' \in LayerEntry
      /\ entry'.initialized = r.initialized
      /\ entry'.pending_keyframe = r.pending_keyframe
      /\ entry'.seq_offset = r.seq_offset
      /\ entry'.last_out_seq = v
  BY <1>1, <1>3, <1>4 DEF LayerEntry
<1>6. last' \in SentPacket /\ last'.seq = q /\ last'.out = v
  BY <1>3, <1>4 DEF SentPacket
<1>7. v = SeqAdd(q, r.seq_offset)
  BY DEF v
<1> QED
  BY <1>1, <1>2, <1>4, <1>5, <1>6, <1>7 DEF r

\* What a packet does to the entry: nothing that changes its numbers, or Forward.
LEMMA FanoutCases ==
  ASSUME SInv, NEW l \in Layers, NEW q \in Seqs, NEW key \in BOOLEAN, NEW late \in BOOLEAN,
         Fanout(l, q, key, late)
  PROVE  \/ /\ last' = last /\ asked' = asked
            /\ entry # None => entry' = entry
         \/ \E e \in LayerEntry :
              /\ entry # None => e = entry
              /\ e.rid = l /\ ~Drops(e, key) /\ Forward(e, l, q, key, late)
<1> DEFINE e == IF entry = None THEN NewEntry("h") ELSE entry
<1>1. e \in LayerEntry
  <2>1. "h" \in Rids
    BY DEF Rids, Layers
  <2> QED
    BY <2>1, NewEntryType DEF SInv, TypeOK
<1>2. entry # None => e = entry
  OBVIOUS
<1>3. IF e.rid # l \/ Drops(e, key) THEN Skip(e, l) ELSE Forward(e, l, q, key, late)
  BY DEF Fanout
<1> HIDE DEF e
<1>4. CASE e.rid # l \/ Drops(e, key)
  BY <1>2, <1>3, <1>4 DEF Skip
<1>5. CASE ~(e.rid # l \/ Drops(e, key))
  BY <1>1, <1>2, <1>3, <1>5
<1> QED
  BY <1>4, <1>5

\* A packet keeps the mapping of the last packet, or starts that of its own.
LEMMA FanoutNumbered ==
  ASSUME NInv, NEW l \in Layers, NEW q \in Seqs, NEW key \in BOOLEAN, NEW late \in BOOLEAN,
         Fanout(l, q, key, late)
  PROVE  Numbered'
<1>1. SInv /\ Numbered
  BY DEF NInv
<1>2. CASE last' = last /\ asked' = asked /\ (entry # None => entry' = entry)
  BY <1>1, <1>2 DEF Numbered
<1>3. ASSUME NEW e \in LayerEntry, ~Drops(e, key), Forward(e, l, q, key, late)
      PROVE  Numbered'
  <2> DEFINE r == Rebased(e, q)
  <2>1. /\ entry' \in LayerEntry /\ entry'.initialized /\ ~entry'.pending_keyframe
        /\ entry'.seq_offset = r.seq_offset
        /\ entry'.last_out_seq = SeqAdd(q, r.seq_offset)
        /\ last'.seq = q /\ last'.out = SeqAdd(q, r.seq_offset) /\ ~asked'
    BY <1>3, ForwardFields
  <2>2. entry' # None
    BY <2>1, NoneAssumption
  <2> HIDE DEF r
  <2> QED
    BY <2>1, <2>2 DEF Numbered
<1> QED
  BY <1>1, <1>2, <1>3, FanoutCases

\* Each step keeps the invariant.
LEMMA NInvStep == NInv /\ [Next]_simVars => NInv'
<1> SUFFICES ASSUME NInv, [Next]_simVars PROVE Numbered'
  BY SInvStep DEF NInv
<1>1. SInv /\ Numbered /\ TypeOK
  BY DEF NInv, SInv
<1>2. ASSUME NEW rid \in Rids, handle_subscribe_layer(rid) PROVE Numbered'
  <2>1. CASE last = None
    BY <1>2, <2>1 DEF handle_subscribe_layer, Numbered
  <2>2. CASE last # None
    <3>1. /\ entry # None /\ entry \in LayerEntry /\ entry.initialized
          /\ entry.last_out_seq = last.out
          /\ last.out = SeqAdd(last.seq, entry.seq_offset)
          /\ entry.rid \in Layers => (entry.pending_keyframe <=> asked)
      BY <1>1, <2>2 DEF Numbered, TypeOK
    <3>2. last' = last /\ asked' = (asked \/ entry.rid # rid)
      BY <1>2, <3>1 DEF handle_subscribe_layer
    <3>3. CASE entry.rid = rid
      <4>1. entry' = entry
        BY <1>2, <3>1, <3>3 DEF handle_subscribe_layer
      <4> QED
        BY <1>1, <3>2, <3>3, <4>1 DEF Numbered
    <3>4. CASE entry.rid # rid /\ rid = "pause"
      <4>1. entry' = [entry EXCEPT !.rid = rid]
        BY <1>2, <3>1, <3>4 DEF handle_subscribe_layer
      <4>2. /\ entry' \in LayerEntry /\ entry'.rid = "pause" /\ entry'.initialized
            /\ entry'.last_out_seq = entry.last_out_seq /\ entry'.seq_offset = entry.seq_offset
        BY <3>1, <3>4, <4>1 DEF LayerEntry
      <4>3. entry' # None /\ entry'.rid \notin Layers
        BY <4>2, NoneAssumption DEF Layers
      <4> QED
        BY <3>1, <3>2, <4>2, <4>3 DEF Numbered
    <3>5. CASE entry.rid # rid /\ rid # "pause"
      <4>1. entry' = [[entry EXCEPT !.rid = rid] EXCEPT !.pending_keyframe = TRUE]
        BY <1>2, <3>1, <3>5 DEF handle_subscribe_layer, SwitchLayer
      <4>2. /\ entry' \in LayerEntry /\ entry'.pending_keyframe /\ entry'.initialized
            /\ entry'.last_out_seq = entry.last_out_seq /\ entry'.seq_offset = entry.seq_offset
        BY <3>1, <4>1 DEF LayerEntry
      <4>3. entry' # None /\ asked'
        BY <3>2, <3>5, <4>2, NoneAssumption
      <4> QED
        BY <3>1, <3>2, <4>2, <4>3 DEF Numbered
    <3> QED
      BY <3>3, <3>4, <3>5
  <2> QED
    BY <2>1, <2>2
<1>3. ASSUME NEW l \in Layers, NEW key \in BOOLEAN, Arrives(l, key) PROVE Numbered'
  <2>1. next[l] \in Seqs /\ Fanout(l, next[l], key, FALSE)
    BY <1>1, <1>3 DEF Arrives, TypeOK
  <2> QED
    BY <2>1, FanoutNumbered
<1>4. ASSUME NEW l \in Layers, NEW q \in Seqs, NEW key \in BOOLEAN, ArrivesLate(l, q, key)
      PROVE  Numbered'
  BY <1>4, FanoutNumbered DEF ArrivesLate
<1>5. ASSUME NEW l \in Layers, Delayed(l) PROVE Numbered'
  BY <1>1, <1>5 DEF Delayed, Numbered
<1>6. CASE UNCHANGED simVars
  BY <1>1, <1>6 DEF Numbered, simVars
<1> QED
  BY <1>2, <1>3, <1>4, <1>5, <1>6 DEF Next

\* It holds before the first packet.
LEMMA NInvInit == Init => NInv
BY SInvInit DEF Init, NInv, Numbered

\* What the cache returns for a number has that number.
LEMMA RtxOfLast == NInv => RtxHasTheNumber
<1> SUFFICES ASSUME NInv, last # None
             PROVE  Rtx(last.out) = None \/ Rtx(last.out)[2] = last.seq
  BY DEF RtxHasTheNumber
<1>1. /\ entry \in LayerEntry /\ last \in SentPacket
      /\ last.out = SeqAdd(last.seq, entry.seq_offset)
  BY DEF NInv, SInv, TypeOK, Numbered
<1>2. reverse_seq(last.out) = last.seq
  <2>1. last.seq \in Seqs /\ entry.seq_offset \in Seqs
    BY <1>1 DEF SentPacket, LayerEntry
  <2> QED
    BY <1>1, <2>1, SubUndoesAdd DEF reverse_seq
<1>3. Rtx(last.out) = None \/ Rtx(last.out) = CacheGet(last.seq)
  BY <1>2 DEF Rtx
<1>4. CacheGet(last.seq) = None \/ CacheGet(last.seq)[2] = last.seq
  BY DEF CacheGet
<1> QED
  BY <1>3, <1>4

\* For every modulus and cache size: a NACK for the packet sent last is answered
\* with a packet of its number or not at all, whatever the subscriber has asked
\* for since (reverse_seq uses the offset the packet was sent with).
THEOREM RetransmissionsMatch == Spec => []RtxHasTheNumber
<1>1. Spec => []NInv
  BY NInvInit, NInvStep, PTL DEF Spec
<1> QED
  BY <1>1, RtxOfLast, PTL

\* The distance of two packets forwarded one after the other.
LEMMA ForwardDistance ==
  ASSUME NInv, NEW l \in Layers, NEW q \in Seqs, NEW key \in BOOLEAN, NEW late \in BOOLEAN,
         Fanout(l, q, key, late), last' # last, last # None
  PROVE  SeqSub(last'.out, last.out) = IF asked THEN 1 % SeqMod
                                       ELSE SeqSub(last'.seq, last.seq)
<1>1. /\ SInv /\ entry # None /\ entry \in LayerEntry /\ last \in SentPacket
      /\ entry.initialized /\ entry.last_out_seq = last.out
      /\ last.out = SeqAdd(last.seq, entry.seq_offset)
      /\ entry.rid \in Layers => (entry.pending_keyframe <=> asked)
  BY DEF NInv, SInv, TypeOK, Numbered
<1>2. entry.rid = l /\ ~Drops(entry, key) /\ Forward(entry, l, q, key, late)
  BY <1>1, FanoutCases
<1> DEFINE r == Rebased(entry, q)
<1>3. r \in LayerEntry /\ last'.seq = q /\ last'.out = SeqAdd(q, r.seq_offset)
  BY <1>1, <1>2, ForwardFields
<1>4. last.seq \in Seqs /\ last.out \in Seqs /\ entry.seq_offset \in Seqs
  BY <1>1 DEF SentPacket, LayerEntry
<1>5. CASE asked
  <2>1. r.seq_offset = SeqSub(SeqAdd(last.out, 1), q)
    BY <1>1, <1>2, <1>5 DEF Rebased, LayerEntry
  <2>2. SeqAdd(last.out, 1) \in Seqs
    <3>1. last.out \in Int /\ 1 \in Int
      BY <1>4, SimulcastAssumption DEF Seqs
    <3> QED
      BY <3>1, SeqRange
  <2>3. last'.out = SeqAdd(last.out, 1)
    BY <1>3, <2>1, <2>2, AddUndoesSub
  <2> QED
    BY <1>4, <1>5, <2>3, NextIsOneOn
<1>6. CASE ~asked
  <2>1. r = entry
    BY <1>1, <1>2, <1>6 DEF Rebased
  <2>2. last'.out = SeqAdd(q, entry.seq_offset)
    BY <1>3, <2>1
  <2> QED
    BY <1>1, <1>3, <1>4, <1>6, <2>2, OffsetKeepsDistance
<1> QED
  BY <1>5, <1>6

\* For every modulus, loss and reordering: the subscriber sees a gap in the
\* virtual numbers exactly where the layer it stays on has one, and none where
\* it changed layer, paused or came back.
THEOREM NoGapsOfOurOwn == Spec => GapsAreLosses
<1> DEFINE Step == last' # last /\ last # None /\ ~last.late /\ ~last'.late =>
                     SeqSub(last'.out, last.out) = IF asked THEN 1 % SeqMod
                                                   ELSE SeqSub(last'.seq, last.seq)
<1>1. Spec => []NInv
  BY NInvInit, NInvStep, PTL DEF Spec
<1>2. ASSUME NInv, [Next]_simVars, last' # last, last # None PROVE Step
  <2>1. ASSUME NEW l \in Layers, NEW key \in BOOLEAN, Arrives(l, key)
        PROVE  Step
    <3>1. next[l] \in Seqs /\ Fanout(l, next[l], key, FALSE)
      BY <1>2, <2>1 DEF Arrives, NInv, SInv, TypeOK
    <3> QED
      BY <1>2, <3>1, ForwardDistance
  <2>2. ASSUME NEW l \in Layers, NEW q \in Seqs, NEW key \in BOOLEAN, ArrivesLate(l, q, key)
        PROVE  Step
    <3>1. Fanout(l, q, key, TRUE)
      BY <2>2 DEF ArrivesLate
    <3> QED
      BY <1>2, <3>1, ForwardDistance
  <2>3. /\ ~(\E rid \in Rids : handle_subscribe_layer(rid))
        /\ ~(\E l \in Layers : Delayed(l)) /\ ~UNCHANGED simVars
    BY <1>2 DEF handle_subscribe_layer, Delayed, simVars
  <2> HIDE DEF Step
  <2> QED
    BY <1>2, <2>1, <2>2, <2>3 DEF Next
<1>3. NInv /\ [Next]_simVars => [Step]_last
  BY <1>2
<1> QED
  BY <1>1, <1>3, PTL DEF Spec, GapsAreLosses
=============================================================================
