------------------------- MODULE PttRewriterProofs --------------------------
(***************************************************************************)
(* Proofs about PttRewriter, for every modulus of sequence numbers and of  *)
(* timestamps, every number of users, silence frames and packets, and      *)
(* whatever the network loses and reorders.                                *)
(***************************************************************************)
EXTENDS PttRewriter, SequenceTheorems, TLAPS

-----------------------------------------------------------------------------
(* Numbers that wrap: u16 and u32 wrapping_add and wrapping_sub, for every modulus *)

\* A multiple of the modulus that is smaller than it is zero.
LEMMA SmallMultiple ==
  ASSUME NEW m \in Nat \ {0}, NEW k \in Int, -m < m * k, m * k < m
  PROVE  k = 0
<1>1. k >= 1 => m * k >= m
  OBVIOUS
<1>2. k <= -1 => m * k <= -m
  OBVIOUS
<1> QED
  BY <1>1, <1>2

\* Division with remainder.
LEMMA DivMod ==
  ASSUME NEW m \in Nat \ {0}, NEW x \in Int
  PROVE  /\ x % m \in 0..m - 1
         /\ \E d \in Int : x = m * d + (x % m)
<1>1. x % m \in 0..m - 1
  OBVIOUS
<1>2. m \in Nat /\ m > 0
  OBVIOUS
<1>3. \E d \in Int : x = m * d + (x % m)
  BY <1>2
<1> QED
  BY <1>1, <1>3

\* The remainder is the only number in range that differs by a multiple.
LEMMA RemainderUnique ==
  ASSUME NEW m \in Nat \ {0}, NEW x \in Int, NEW k \in Int, NEW r \in 0..m - 1,
         x = m * k + r
  PROVE  x % m = r
<1> DEFINE z == x % m
<1>0. z \in 0..m - 1 /\ \E d \in Int : x = m * d + z
  BY DivMod
<1> HIDE DEF z
<1>1. PICK d \in Int : z \in 0..m - 1 /\ x = m * d + z
  BY <1>0
<1>2. m * (k - d) = z - r
  <2>1. m * (k - d) = m * k - m * d
    BY <1>1
  <2>2. m * k \in Int /\ m * d \in Int
    BY <1>1
  <2> QED
    BY <1>1, <2>1, <2>2
<1>3. k - d \in Int /\ -m < z - r /\ z - r < m
  BY <1>1
<1>4. k - d = 0
  BY <1>2, <1>3, SmallMultiple
<1>5. m * k = m * d
  BY <1>1, <1>4
<1>6. z = r
  <2>1. m * d \in Int
    BY <1>1
  <2> QED
    BY <1>1, <1>5, <2>1
<1> QED
  BY <1>6 DEF z

\* Adding a multiple of the modulus changes nothing.
LEMMA RemainderShift ==
  ASSUME NEW m \in Nat \ {0}, NEW x \in Int, NEW k \in Int
  PROVE  (x + m * k) % m = x % m
<1> DEFINE z == x % m
<1>0. z \in 0..m - 1 /\ \E d \in Int : x = m * d + z
  BY DivMod
<1> HIDE DEF z
<1>1. PICK d \in Int : z \in 0..m - 1 /\ x = m * d + z
  BY <1>0
<1>2. m * k \in Int /\ m * d \in Int /\ m * (d + k) = m * d + m * k
  BY <1>1
<1>3. x + m * k = m * (d + k) + z
  BY <1>1, <1>2
<1>4. x + m * k \in Int /\ d + k \in Int
  BY <1>1, <1>2
<1>5. (x + m * k) % m = z
  BY <1>1, <1>3, <1>4, RemainderUnique
<1> QED
  BY <1>5 DEF z

\* A number in range is its own remainder.
LEMMA RemainderSmall ==
  ASSUME NEW m \in Nat \ {0}, NEW x \in 0..m - 1
  PROVE  x % m = x
<1>1. x = m * 0 + x
  OBVIOUS
<1> QED
  BY <1>1, RemainderUnique

\* Remainders may be taken early: in a sum and in a difference.
LEMMA RemainderInside ==
  ASSUME NEW m \in Nat \ {0}, NEW x \in Int, NEW y \in Int
  PROVE  /\ ((x % m) + y) % m = (x + y) % m
         /\ (y - (x % m)) % m = (y - x) % m
<1> DEFINE z == x % m
<1>0. z \in 0..m - 1 /\ \E d \in Int : x = m * d + z
  BY DivMod
<1> HIDE DEF z
<1>1. PICK d \in Int : z \in 0..m - 1 /\ x = m * d + z
  BY <1>0
<1>2. m * d \in Int /\ m * (-d) \in Int /\ m * (-d) = -(m * d)
  BY <1>1
<1>3. z \in Int /\ z + y \in Int /\ y - x \in Int
  BY <1>1
<1>4. x + y = (z + y) + m * d /\ y - z = (y - x) + m * d
  BY <1>1, <1>2
<1>5. (x + y) % m = (z + y) % m
  <2>1. ((z + y) + m * d) % m = (z + y) % m
    BY <1>3, RemainderShift
  <2> QED
    BY <1>4, <2>1
<1>6. (y - z) % m = (y - x) % m
  <2>1. ((y - x) + m * d) % m = (y - x) % m
    BY <1>3, RemainderShift
  <2> QED
    BY <1>4, <2>1
<1> QED
  BY <1>5, <1>6 DEF z

\* The distance of two remainders is the distance of the numbers.
LEMMA RemainderDistance ==
  ASSUME NEW m \in Nat \ {0}, NEW x \in Int, NEW y \in Int
  PROVE  ((x % m) - (y % m)) % m = (x - y) % m
<1>1. x % m \in Int /\ -y \in Int
  OBVIOUS
<1>2. ((x % m) - (y % m)) % m = ((x % m) - y) % m
  BY <1>1, RemainderInside
<1>3. ((x % m) + (-y)) % m = (x + (-y)) % m
  BY <1>1, RemainderInside
<1>4. (x % m) + (-y) = (x % m) - y /\ x + (-y) = x - y
  BY <1>1
<1> QED
  BY <1>2, <1>3, <1>4

\* Rebasing: a number o is taken relative to one base and put on another one.
Rebase(m, o, a, b) == (((o - a) % m) + b) % m

\* How far x is ahead of y.
Ahead(m, x, y) == (x - y) % m

\* Rebasing the other way gives o again.
LEMMA RebaseBack ==
  ASSUME NEW m, NEW o, NEW a, NEW b,
         m \in Nat \ {0}, o \in 0..m - 1, a \in Int, b \in Int
  PROVE  Rebase(m, Rebase(m, o, a, b), b, a) = o
<1> DEFINE x == o - a
<1>1. o \in Int /\ x \in Int /\ x + a = o
  OBVIOUS
<1> HIDE DEF x
<1>2. ((x % m) + b) % m = (x + b) % m
  BY <1>1, RemainderInside
<1>3. (((x + b) % m) - b) % m = x % m
  <2>1. -b \in Int /\ x + b \in Int /\ (x + b) % m \in Int /\ (x + b) + (-b) = x
    BY <1>1
  <2>2. (((x + b) % m) + (-b)) % m = ((x + b) + (-b)) % m
    BY <2>1, RemainderInside
  <2>3. ((x + b) % m) + (-b) = ((x + b) % m) - b
    BY <2>1
  <2> QED
    BY <2>1, <2>2, <2>3
<1>4. ((x % m) + a) % m = (x + a) % m
  BY <1>1, RemainderInside
<1>5. o % m = o
  BY RemainderSmall
<1>6. ((((((x % m) + b) % m) - b) % m) + a) % m = o
  BY <1>1, <1>2, <1>3, <1>4, <1>5
<1> QED
  BY <1>6 DEF x, Rebase

\* Two numbers that are rebased in the same way stay as far apart as they were.
LEMMA RebaseDistance ==
  ASSUME NEW m, NEW o, NEW p, NEW a, NEW b,
         m \in Nat \ {0}, o \in Int, p \in Int, a \in Int, b \in Int
  PROVE  Ahead(m, Rebase(m, o, a, b), Rebase(m, p, a, b)) = Ahead(m, o, p)
<1> DEFINE x == o - a
           y == p - a
<1>1. x \in Int /\ y \in Int /\ (x + b) - (y + b) = o - p
  OBVIOUS
<1> HIDE DEF x, y
<1>2. ((x % m) + b) % m = (x + b) % m
  BY <1>1, RemainderInside
<1>3. ((y % m) + b) % m = (y + b) % m
  BY <1>1, RemainderInside
<1>4. (((x + b) % m) - ((y + b) % m)) % m = ((x + b) - (y + b)) % m
  <2>1. x + b \in Int /\ y + b \in Int
    BY <1>1
  <2> QED
    BY <2>1, RemainderDistance
<1>5. ((((x % m) + b) % m) - (((y % m) + b) % m)) % m = (o - p) % m
  BY <1>1, <1>2, <1>3, <1>4
<1> QED
  BY <1>5 DEF x, y, Rebase, Ahead

\* The base itself goes to the new base.
LEMMA RebaseOrigin ==
  ASSUME NEW m \in Nat \ {0}, NEW o \in Int, NEW b \in 0..m - 1
  PROVE  Rebase(m, o, o, b) = b
<1>1. o - o = 0 /\ 0 \in 0..m - 1 /\ 0 + b = b
  OBVIOUS
<1>2. 0 % m = 0 /\ b % m = b
  BY <1>1, RemainderSmall
<1> QED
  BY <1>1, <1>2 DEF Rebase

-----------------------------------------------------------------------------
(* The operators *)

\* The constants one by one.
LEMMA Consts ==
  /\ SeqMod \in Nat \ {0} /\ TsMod \in Nat \ {0}
  /\ TsPerTick \in Nat /\ GuardGap \in Nat /\ SilenceCount \in Nat /\ HotTicks \in Nat
  /\ OrigStart \in Nat /\ MaxIdle \in Nat /\ MaxSent \in Nat /\ MaxOut \in Nat
  /\ MaxSwitch \in Nat
BY RewriterAssumption

\* Of two naturals, Min and Max give one of the two.
LEMMA MinMaxOfTwo ==
  ASSUME NEW a \in Nat, NEW b \in Nat
  PROVE  /\ Min({a, b}) = IF a <= b THEN a ELSE b
         /\ Max({a, b}) = IF a >= b THEN a ELSE b
<1>1. Min({a, b}) = IF a <= b THEN a ELSE b
  <2> DEFINE v == IF a <= b THEN a ELSE b
  <2>1. v \in {a, b} /\ \A y \in {a, b} : v <= y
    OBVIOUS
  <2>2. \A x \in {a, b} : (\A y \in {a, b} : x <= y) => x = v
    OBVIOUS
  <2> HIDE DEF v
  <2>3. Min({a, b}) = v
    BY <2>1, <2>2 DEF Min
  <2> QED
    BY <2>3 DEF v
<1>2. Max({a, b}) = IF a >= b THEN a ELSE b
  <2> DEFINE v == IF a >= b THEN a ELSE b
  <2>1. v \in {a, b} /\ \A y \in {a, b} : v >= y
    OBVIOUS
  <2>2. \A x \in {a, b} : (\A y \in {a, b} : x >= y) => x = v
    OBVIOUS
  <2> HIDE DEF v
  <2>3. Max({a, b}) = v
    BY <2>1, <2>2 DEF Max
  <2> QED
    BY <2>3 DEF v
<1> QED
  BY <1>1, <1>2

\* The wrapping operations stay in width.
LEMMA Widths ==
  ASSUME NEW a \in Int, NEW b \in Int
  PROVE  /\ SeqAdd(a, b) \in 0..SeqMod - 1 /\ SeqSub(a, b) \in 0..SeqMod - 1
         /\ TsAdd(a, b) \in 0..TsMod - 1 /\ TsSub(a, b) \in 0..TsMod - 1
         /\ SeqSub(a, b) \in Int /\ TsSub(a, b) \in Int
BY Consts DEF SeqAdd, SeqSub, TsAdd, TsSub

\* A packet's own header is in width.
LEMMA OrigWidths ==
  ASSUME NEW n \in Nat
  PROVE  OrigSeq(n) \in 0..SeqMod - 1 /\ OrigTs(n) \in 0..TsMod - 1
<1>1. OrigStart \in Int /\ n \in Int /\ n * GuardGap \in Int /\ 0 \in Int
  BY Consts
<1> QED
  BY <1>1, Widths DEF OrigSeq, OrigTs

\* Times as timestamp units are naturals.
LEMMA TicksType == ASSUME NEW t \in Nat PROVE TicksToTs(t) \in Nat
<1>1. t * TsPerTick \in Nat /\ TsMod - 1 \in Nat
  BY Consts
<1> QED
  BY <1>1, MinMaxOfTwo DEF TicksToTs

\* The fields of the rewriter's state.
LEMMA StateFields ==
  ASSUME NEW st \in RewriteState
  PROVE  /\ st.speaker \in Users \cup {NoOne}
         /\ st.origin_base_seq \in Int /\ st.origin_base_seq \in 0..SeqMod - 1
         /\ st.virtual_base_seq \in Int /\ st.virtual_base_seq \in 0..SeqMod - 1
         /\ st.last_virtual_seq \in Int /\ st.last_virtual_seq \in 0..SeqMod - 1
         /\ st.origin_base_ts \in Int /\ st.origin_base_ts \in 0..TsMod - 1
         /\ st.virtual_base_ts \in Int /\ st.virtual_base_ts \in 0..TsMod - 1
         /\ st.last_virtual_ts \in Int /\ st.last_virtual_ts \in 0..TsMod - 1
         /\ st.awaiting_first_packet \in BOOLEAN /\ st.pending_keyframe \in BOOLEAN
         /\ st.cleared_at \in {Never} \cup 0..MaxIdle
         /\ st.switched_at \in {Never} \cup 0..MaxIdle
BY Consts DEF RewriteState

\* The timestamp gap of a switch is a natural number.
LEMMA SwitchGapType == ASSUME NEW st \in RewriteState PROVE SwitchTsGap(st) \in Nat
<1>1. DynamicTsGap(st) \in Nat
  <2>1. CASE st.cleared_at = Never
    BY <2>1, Consts DEF DynamicTsGap
  <2>2. CASE st.cleared_at # Never
    <3>1. st.cleared_at \in Nat
      BY <2>2, Consts DEF RewriteState
    <3>2. TicksToTs(st.cleared_at) \in Nat
      BY <3>1, TicksType
    <3> QED
      BY <2>2, <3>2, Consts, MinMaxOfTwo DEF DynamicTsGap
  <2> QED
    BY <2>1, <2>2
<1>2. SilenceCount * GuardGap \in Nat
  BY Consts
<1> QED
  BY <1>1, <1>2 DEF SwitchTsGap, SatSub

\* So is the wait for the first packet.
LEMMA PendingType == ASSUME NEW st \in RewriteState PROVE PendingTs(st) \in Nat
<1>1. CASE st.switched_at # Never
  <2>1. st.switched_at \in Nat
    BY <1>1, Consts DEF RewriteState
  <2> QED
    BY <2>1, TicksType DEF PendingTs
<1>2. CASE st.switched_at = Never
  BY <1>2 DEF PendingTs
<1> QED
  BY <1>1, <1>2

\* Ages stay bounded.
LEMMA OlderType ==
  ASSUME NEW age \in {Never} \cup 0..MaxIdle
  PROVE  Older(age) \in {Never} \cup 0..MaxIdle
<1>1. CASE age = Never
  BY <1>1 DEF Older
<1>2. CASE age # Never
  <2>1. age \in Nat /\ age + 1 \in Nat
    BY <1>2, Consts
  <2>2. Min({age + 1, MaxIdle}) \in 0..MaxIdle
    BY <2>1, Consts, MinMaxOfTwo
  <2> QED
    BY <1>2, <2>2 DEF Older
<1> QED
  BY <1>1, <1>2

-----------------------------------------------------------------------------
(* The operations on the rewriter's state *)

\* switch_speaker
LEMMA SwitchState ==
  ASSUME TypeOK, NEW u \in Users, switch_speaker(u)
  PROVE  /\ s' \in RewriteState
         /\ s'.speaker = u /\ s'.awaiting_first_packet = TRUE
         /\ s'.pending_keyframe = require_keyframe
         /\ s'.virtual_base_seq = SeqAdd(s.last_virtual_seq, 1)
         /\ s'.last_virtual_seq = s.last_virtual_seq
         /\ s'.last_virtual_ts = s.last_virtual_ts
         /\ s'.virtual_base_ts = TsAdd(s.last_virtual_ts, SwitchTsGap(s))
         /\ s'.cleared_at = Never
<1>1. s \in RewriteState /\ require_keyframe \in BOOLEAN
  BY DEF TypeOK
<1> DEFINE vs == SeqAdd(s.last_virtual_seq, 1)
           vt == TsAdd(s.last_virtual_ts, SwitchTsGap(s))
<1>2. vs \in 0..SeqMod - 1 /\ vt \in 0..TsMod - 1
  <2>1. SwitchTsGap(s) \in Int
    BY <1>1, SwitchGapType
  <2>2. s.last_virtual_seq \in Int /\ s.last_virtual_ts \in Int /\ 1 \in Int
    BY <1>1, StateFields
  <2> QED
    BY <2>1, <2>2, Widths
<1>3. 0 \in {Never} \cup 0..MaxIdle /\ Never \in {Never} \cup 0..MaxIdle
  BY Consts
<1>4. s' = [s EXCEPT !.virtual_base_ts = vt, !.virtual_base_seq = vs, !.cleared_at = Never,
                     !.speaker = u, !.awaiting_first_packet = TRUE,
                     !.pending_keyframe = require_keyframe, !.switched_at = 0]
  BY DEF switch_speaker
<1>5. vs = SeqAdd(s.last_virtual_seq, 1) /\ vt = TsAdd(s.last_virtual_ts, SwitchTsGap(s))
  OBVIOUS
<1> HIDE DEF vs, vt
<1> QED
  BY <1>1, <1>2, <1>3, <1>4, <1>5 DEF RewriteState

\* Rebasing on packet n
LEMMA RebasedState ==
  ASSUME NEW st \in RewriteState, require_keyframe \in BOOLEAN, NEW n \in Nat
  PROVE  LET r == Rebased(st, n)
         IN  /\ r \in RewriteState /\ r.speaker = st.speaker
             /\ r.awaiting_first_packet = FALSE
             /\ r.virtual_base_seq = st.virtual_base_seq
             /\ r.cleared_at = st.cleared_at
             /\ st.awaiting_first_packet => r.origin_base_seq = OrigSeq(n)
             /\ ~st.awaiting_first_packet => r = st
<1>1. CASE ~st.awaiting_first_packet
  BY <1>1, StateFields DEF Rebased
<1>2. CASE st.awaiting_first_packet
  <2> DEFINE vt == TsAdd(st.virtual_base_ts, PendingTs(st))
             sw == IF require_keyframe THEN Never ELSE st.switched_at
             os == OrigSeq(n)
             ot == OrigTs(n)
  <2>1. vt \in 0..TsMod - 1
    <3>1. PendingTs(st) \in Int /\ st.virtual_base_ts \in Int
      BY PendingType, StateFields
    <3> QED
      BY <3>1, Widths
  <2>2. sw \in {Never} \cup 0..MaxIdle
    BY StateFields
  <2>3. os \in 0..SeqMod - 1 /\ ot \in 0..TsMod - 1
    BY OrigWidths
  <2>4. Rebased(st, n) = [st EXCEPT !.origin_base_seq = os, !.origin_base_ts = ot,
                                    !.virtual_base_ts = vt, !.switched_at = sw,
                                    !.awaiting_first_packet = FALSE]
    BY <1>2 DEF Rebased
  <2>5. os = OrigSeq(n)
    OBVIOUS
  <2> HIDE DEF vt, sw, os, ot
  <2>6. Rebased(st, n) \in RewriteState
    <3> DEFINE q == [st EXCEPT !.origin_base_seq = os, !.origin_base_ts = ot]
    <3>1. q \in RewriteState
      BY <2>3 DEF RewriteState
    <3>2. Rebased(st, n) = [q EXCEPT !.virtual_base_ts = vt, !.switched_at = sw,
                                     !.awaiting_first_packet = FALSE]
      BY <2>4 DEF RewriteState
    <3> HIDE DEF q
    <3> QED
      BY <2>1, <2>2, <3>1, <3>2 DEF RewriteState
  <2> DEFINE r == Rebased(st, n)
  <2>7. /\ r.speaker = st.speaker /\ r.awaiting_first_packet = FALSE
        /\ r.virtual_base_seq = st.virtual_base_seq /\ r.cleared_at = st.cleared_at
        /\ r.origin_base_seq = os
    BY <2>4 DEF RewriteState
  <2> HIDE DEF r
  <2>8. r = Rebased(st, n)
    BY DEF r
  <2> QED
    BY <1>2, <2>5, <2>6, <2>7, <2>8
<1> QED
  BY <1>1, <1>2, StateFields

\* The first packet of a burst is its origin, in timestamps behind the wait for it.
LEMMA RebasedOrigin ==
  ASSUME NEW st \in RewriteState, NEW n \in Nat, st.awaiting_first_packet
  PROVE  LET r == Rebased(st, n)
         IN  /\ r.origin_base_seq = OrigSeq(n) /\ r.origin_base_ts = OrigTs(n)
             /\ r.virtual_base_ts = TsAdd(st.virtual_base_ts, PendingTs(st))
BY DEF Rebased, RewriteState

\* rewrite
LEMMA RewrittenState ==
  ASSUME TypeOK, NEW u \in Users, NEW n \in 0..MaxSent - 1, NEW key \in BOOLEAN,
         rewrite(u, n, key)
  PROVE  LET r == Rebased(s, n)
         IN  /\ s' \in RewriteState
             /\ s'.speaker = u /\ s'.awaiting_first_packet = FALSE
             /\ s'.origin_base_seq = r.origin_base_seq /\ s'.origin_base_ts = r.origin_base_ts
             /\ s'.virtual_base_seq = r.virtual_base_seq /\ s'.virtual_base_ts = r.virtual_base_ts
             /\ s'.last_virtual_seq = VirtualSeq(r, n) /\ s'.last_virtual_ts = VirtualTs(r, n)
             /\ s'.cleared_at = r.cleared_at
             /\ VirtualSeq(r, n) \in 0..SeqMod - 1 /\ VirtualTs(r, n) \in 0..TsMod - 1
<1>1. s \in RewriteState /\ require_keyframe \in BOOLEAN /\ n \in Nat /\ s.speaker = u
  BY Consts DEF TypeOK, rewrite
<1> DEFINE r == Rebased(s, n)
           vs == VirtualSeq(r, n)
           vt == VirtualTs(r, n)
<1>2. r \in RewriteState /\ r.speaker = u /\ r.awaiting_first_packet = FALSE
  BY <1>1, RebasedState
<1>3. s' = [r EXCEPT !.pending_keyframe = FALSE, !.last_virtual_seq = vs,
                     !.last_virtual_ts = vt]
  BY DEF rewrite
<1> HIDE DEF r
<1>4. vs \in 0..SeqMod - 1
  <2>1. OrigSeq(n) \in Int /\ r.origin_base_seq \in Int /\ r.virtual_base_seq \in Int
    BY <1>1, <1>2, OrigWidths, StateFields, Consts
  <2>2. SeqSub(OrigSeq(n), r.origin_base_seq) \in Int
    BY <2>1, Widths
  <2> QED
    BY <2>1, <2>2, Widths DEF VirtualSeq
<1>5. vt \in 0..TsMod - 1
  <2>1. OrigTs(n) \in Int /\ r.origin_base_ts \in Int /\ r.virtual_base_ts \in Int
    BY <1>1, <1>2, OrigWidths, StateFields, Consts
  <2>2. TsSub(OrigTs(n), r.origin_base_ts) \in Int
    BY <2>1, Widths
  <2> QED
    BY <2>1, <2>2, Widths DEF VirtualTs
<1>6. vs = VirtualSeq(r, n) /\ vt = VirtualTs(r, n)
  OBVIOUS
<1> HIDE DEF vs, vt
<1>7. /\ s' \in RewriteState /\ s'.speaker = u /\ s'.awaiting_first_packet = FALSE
      /\ s'.origin_base_seq = r.origin_base_seq /\ s'.origin_base_ts = r.origin_base_ts
      /\ s'.virtual_base_seq = r.virtual_base_seq /\ s'.virtual_base_ts = r.virtual_base_ts
      /\ s'.last_virtual_seq = vs /\ s'.last_virtual_ts = vt /\ s'.cleared_at = r.cleared_at
  BY <1>2, <1>3, <1>4, <1>5 DEF RewriteState
<1> QED
  BY <1>4, <1>5, <1>6, <1>7 DEF r

\* clear_speaker
LEMMA ClearedState ==
  ASSUME TypeOK, clear_speaker
  PROVE  /\ s' \in RewriteState
         /\ s'.speaker = NoOne /\ s'.awaiting_first_packet = FALSE
         /\ s'.origin_base_seq = s.origin_base_seq /\ s'.origin_base_ts = s.origin_base_ts
         /\ s'.virtual_base_seq = s.virtual_base_seq /\ s'.virtual_base_ts = s.virtual_base_ts
         /\ s'.last_virtual_seq = IF FlushesSilence THEN SeqAdd(s.last_virtual_seq, SilenceCount)
                                  ELSE s.last_virtual_seq
         /\ s'.last_virtual_ts = IF FlushesSilence
                                 THEN TsAdd(s.last_virtual_ts, SilenceCount * GuardGap)
                                 ELSE s.last_virtual_ts
<1> DEFINE c == [s EXCEPT !.speaker = NoOne, !.awaiting_first_packet = FALSE,
                          !.pending_keyframe = FALSE, !.cleared_at = 0, !.switched_at = Never]
<1>1. s \in RewriteState
  BY DEF TypeOK
<1>2. /\ c \in RewriteState /\ c.speaker = NoOne /\ c.awaiting_first_packet = FALSE
      /\ c.origin_base_seq = s.origin_base_seq /\ c.origin_base_ts = s.origin_base_ts
      /\ c.virtual_base_seq = s.virtual_base_seq /\ c.virtual_base_ts = s.virtual_base_ts
      /\ c.last_virtual_seq = s.last_virtual_seq /\ c.last_virtual_ts = s.last_virtual_ts
  <2>1. 0 \in {Never} \cup 0..MaxIdle /\ Never \in {Never} \cup 0..MaxIdle
    BY Consts
  <2> QED
    BY <1>1, <2>1 DEF RewriteState
<1>3. s' = IF FlushesSilence THEN SilenceAdvance(c) ELSE c
  BY DEF clear_speaker
<1> HIDE DEF c
<1>4. CASE ~FlushesSilence
  BY <1>2, <1>3, <1>4
<1>5. CASE FlushesSilence
  <2> DEFINE vs == SeqAdd(c.last_virtual_seq, SilenceCount)
             vt == TsAdd(c.last_virtual_ts, SilenceCount * GuardGap)
  <2>1. vs \in 0..SeqMod - 1 /\ vt \in 0..TsMod - 1
    <3>1. /\ SilenceCount \in Int /\ SilenceCount * GuardGap \in Int
          /\ c.last_virtual_seq \in Int /\ c.last_virtual_ts \in Int
      BY <1>2, Consts, StateFields
    <3> QED
      BY <3>1, Widths
  <2>2. s' = [c EXCEPT !.last_virtual_seq = vs, !.last_virtual_ts = vt]
    BY <1>3, <1>5 DEF SilenceAdvance
  <2>3. /\ vs = SeqAdd(s.last_virtual_seq, SilenceCount)
        /\ vt = TsAdd(s.last_virtual_ts, SilenceCount * GuardGap)
    BY <1>2
  <2> HIDE DEF vs, vt
  <2> QED
    BY <1>2, <1>5, <2>1, <2>2, <2>3 DEF RewriteState
<1> QED
  BY <1>4, <1>5

\* Tick
LEMMA TickedState ==
  ASSUME TypeOK, Tick
  PROVE  /\ s' \in RewriteState
         /\ s'.speaker = s.speaker /\ s'.awaiting_first_packet = s.awaiting_first_packet
         /\ s'.pending_keyframe = s.pending_keyframe
         /\ s'.origin_base_seq = s.origin_base_seq /\ s'.origin_base_ts = s.origin_base_ts
         /\ s'.virtual_base_seq = s.virtual_base_seq /\ s'.virtual_base_ts = s.virtual_base_ts
         /\ s'.last_virtual_seq = s.last_virtual_seq /\ s'.last_virtual_ts = s.last_virtual_ts
         /\ s'.cleared_at # Never => s.cleared_at # Never
<1> DEFINE c == Older(s.cleared_at)
           w == Older(s.switched_at)
<1>1. s \in RewriteState
  BY DEF TypeOK
<1>2. c \in {Never} \cup 0..MaxIdle /\ w \in {Never} \cup 0..MaxIdle
  BY <1>1, StateFields, OlderType
<1>3. s' = [s EXCEPT !.cleared_at = c, !.switched_at = w]
  BY DEF Tick
<1>4. s.cleared_at = Never => c = Never
  BY DEF Older
<1> HIDE DEF c, w
<1> QED
  BY <1>1, <1>2, <1>3, <1>4 DEF RewriteState

-----------------------------------------------------------------------------
(* The operations on the virtual stream *)

\* rewrite puts one packet on it.
LEMMA RewrittenOut ==
  ASSUME TypeOK, NEW u \in Users, NEW n \in 0..MaxSent - 1, NEW key \in BOOLEAN,
         rewrite(u, n, key)
  PROVE  LET r == Rebased(s, n)
             k == Len(out) + 1
         IN  /\ out' \in Seq(OutPacket) /\ Len(out') = k /\ Len(out') <= MaxOut
             /\ \A i \in 1..Len(out) : out'[i] = out[i]
             /\ out'[k].seq = VirtualSeq(r, n) /\ out'[k].ts = VirtualTs(r, n)
             /\ out'[k].user = u /\ out'[k].num = n /\ out'[k].burst = burst
             /\ out'[k].first = s.awaiting_first_packet
             /\ out'[k].key = (s.awaiting_first_packet /\ key)
             /\ out'[k].due = IF s.awaiting_first_packet THEN due + PendingTs(s) ELSE 0
<1> DEFINE r == Rebased(s, n)
           d == IF s.awaiting_first_packet THEN due + PendingTs(s) ELSE 0
           vs == VirtualSeq(r, n)
           vt == VirtualTs(r, n)
           f == s.awaiting_first_packet
           p == [seq |-> vs, ts |-> vt, user |-> u, num |-> n, burst |-> burst, first |-> f,
                 key |-> f /\ key, due |-> d]
<1>1. s \in RewriteState /\ out \in Seq(OutPacket) /\ burst \in 0..MaxSwitch /\ due \in Nat
  BY DEF TypeOK
<1>2. d \in Nat
  BY <1>1, PendingType
<1>3. vs \in 0..SeqMod - 1 /\ vt \in 0..TsMod - 1
  BY RewrittenState
<1>4. f \in BOOLEAN /\ n \in 0..MaxSent
  BY <1>1, StateFields, Consts
<1>5. out' = Append(out, p) /\ Len(out) < MaxOut
  BY DEF rewrite
<1> HIDE DEF d, r, vs, vt, f
<1>6. /\ p \in OutPacket /\ p.seq = vs /\ p.ts = vt /\ p.user = u /\ p.num = n
      /\ p.burst = burst /\ p.first = f /\ p.key = (f /\ key) /\ p.due = d
  BY <1>1, <1>2, <1>3, <1>4 DEF OutPacket
<1> HIDE DEF p
<1>7. /\ out' \in Seq(OutPacket) /\ Len(out') = Len(out) + 1 /\ out'[Len(out) + 1] = p
      /\ \A i \in 1..Len(out) : out'[i] = out[i]
  BY <1>1, <1>5, <1>6
<1>8. Len(out') <= MaxOut
  BY <1>1, <1>5, <1>7, Consts
<1> QED
  BY <1>6, <1>7, <1>8 DEF d, r, vs, vt, f

\* clear_speaker puts the silence frames on it, or nothing.
LEMMA ClearedOut ==
  ASSUME TypeOK, clear_speaker
  PROVE  IF FlushesSilence
         THEN /\ out' \in Seq(OutPacket) /\ Len(out') = Len(out) + SilenceCount
              /\ Len(out') <= MaxOut
              /\ \A i \in 1..Len(out) : out'[i] = out[i]
              /\ \A i \in 1..SilenceCount :
                   /\ out'[Len(out) + i].seq = SeqAdd(s.last_virtual_seq, i)
                   /\ out'[Len(out) + i].user = NoOne
                   /\ out'[Len(out) + i].burst = burst
                   /\ out'[Len(out) + i].first = FALSE
         ELSE out' = out
<1>1. CASE ~FlushesSilence
  BY <1>1 DEF clear_speaker
<1>2. CASE FlushesSilence
  <2> DEFINE fs == [i \in 1..SilenceCount |-> SilenceFrame(i)]
  <2>1. out' = out \o fs /\ Len(out) + SilenceCount <= MaxOut
    BY <1>2 DEF clear_speaker
  <2>2. s \in RewriteState /\ out \in Seq(OutPacket) /\ burst \in 0..MaxSwitch
    BY DEF TypeOK
  <2>3. ASSUME NEW i \in 1..SilenceCount
        PROVE  /\ SilenceFrame(i) \in OutPacket
               /\ SilenceFrame(i).seq = SeqAdd(s.last_virtual_seq, i)
               /\ SilenceFrame(i).user = NoOne /\ SilenceFrame(i).burst = burst
               /\ SilenceFrame(i).first = FALSE
    <3> DEFINE vs == SeqAdd(s.last_virtual_seq, i)
               vt == TsAdd(s.last_virtual_ts, i * GuardGap)
    <3>1. vs \in 0..SeqMod - 1 /\ vt \in 0..TsMod - 1
      <4>1. /\ i \in Int /\ i * GuardGap \in Int
            /\ s.last_virtual_seq \in Int /\ s.last_virtual_ts \in Int
        BY <2>2, Consts, StateFields
      <4> QED
        BY <4>1, Widths
    <3>2. SilenceFrame(i) = [seq |-> vs, ts |-> vt, user |-> NoOne, num |-> 0, burst |-> burst,
                             first |-> FALSE, key |-> FALSE, due |-> 0]
      BY DEF SilenceFrame
    <3>3. vs = SeqAdd(s.last_virtual_seq, i)
      OBVIOUS
    <3> HIDE DEF vs, vt
    <3> QED
      BY <2>2, <3>1, <3>2, <3>3, Consts DEF OutPacket
  <2>4. fs \in Seq(OutPacket) /\ Len(fs) = SilenceCount /\ \A i \in 1..SilenceCount : fs[i] = SilenceFrame(i)
    <3>1. \A i \in 1..SilenceCount : SilenceFrame(i) \in OutPacket
      BY <2>3
    <3> QED
      BY <3>1, Consts
  <2> HIDE DEF fs
  <2>5. /\ out' \in Seq(OutPacket) /\ Len(out') = Len(out) + SilenceCount
        /\ \A i \in 1..Len(out) : out'[i] = out[i]
    <3>1. /\ out \o fs \in Seq(OutPacket)
          /\ Len(out \o fs) = Len(out) + Len(fs)
          /\ \A i \in 1..Len(out) + Len(fs) :
               (out \o fs)[i] = IF i <= Len(out) THEN out[i] ELSE fs[i - Len(out)]
      BY <2>2, <2>4, ConcatProperties
    <3>2. Len(out) \in Nat /\ Len(fs) = SilenceCount
      BY <2>2, <2>4
    <3>3. out' = out \o fs
      BY <2>1
    <3> QED
      BY <3>1, <3>2, <3>3, Consts
  <2>6. \A i \in 1..SilenceCount : out'[Len(out) + i] = SilenceFrame(i)
    BY <2>1, <2>2, <2>4, Consts
  <2>7. \A i \in 1..SilenceCount :
          /\ out'[Len(out) + i].seq = SeqAdd(s.last_virtual_seq, i)
          /\ out'[Len(out) + i].user = NoOne
          /\ out'[Len(out) + i].burst = burst
          /\ out'[Len(out) + i].first = FALSE
    BY <2>3, <2>6
  <2> QED
    BY <1>2, <2>1, <2>5, <2>7
<1> QED
  BY <1>1, <1>2

-----------------------------------------------------------------------------
(* Types *)

\* Each step keeps the types.
LEMMA TypeStep == TypeOK /\ [Next]_rewriterVars => TypeOK'
<1> SUFFICES ASSUME TypeOK, [Next]_rewriterVars PROVE TypeOK'
  OBVIOUS
<1>0. /\ require_keyframe \in BOOLEAN /\ s \in RewriteState
      /\ sent \in [Users -> 0..MaxSent] /\ lost \in [Users -> SUBSET (0..MaxSent - 1)]
      /\ out \in Seq(OutPacket) /\ Len(out) <= MaxOut /\ burst \in 0..MaxSwitch
      /\ due \in Nat /\ late \in BOOLEAN
  BY DEF TypeOK
<1>1. ASSUME NEW u \in Users, switch_speaker(u) PROVE TypeOK'
  <2>1. s' \in RewriteState
    BY <1>1, SwitchState
  <2>2. burst' \in 0..MaxSwitch
    <3>1. burst < MaxSwitch /\ burst' = burst + 1
      BY <1>1 DEF switch_speaker
    <3> QED
      BY <1>0, <3>1, Consts
  <2>3. due' \in Nat
    <3>1. CASE s.cleared_at = Never
      BY <1>1, <3>1 DEF switch_speaker
    <3>2. CASE s.cleared_at # Never
      <4>1. s.cleared_at \in Nat
        BY <1>0, <3>2, StateFields, Consts
      <4> QED
        BY <1>1, <3>2, <4>1, TicksType DEF switch_speaker
    <3> QED
      BY <3>1, <3>2
  <2> QED
    BY <1>0, <1>1, <2>1, <2>2, <2>3 DEF TypeOK, switch_speaker
<1>2. ASSUME clear_speaker PROVE TypeOK'
  <2>1. s' \in RewriteState
    BY <1>2, ClearedState
  <2>2. out' \in Seq(OutPacket) /\ Len(out') <= MaxOut
    BY <1>0, <1>2, ClearedOut
  <2> QED
    BY <1>0, <1>2, <2>1, <2>2 DEF TypeOK, clear_speaker
<1>3. ASSUME NEW u \in Users, NEW n \in 0..MaxSent - 1, NEW key \in BOOLEAN,
             rewrite(u, n, key)
      PROVE  TypeOK'
  <2>1. s' \in RewriteState
    BY <1>3, RewrittenState
  <2>2. out' \in Seq(OutPacket) /\ Len(out') <= MaxOut
    BY <1>3, RewrittenOut
  <2>3. /\ sent' \in [Users -> 0..MaxSent] /\ lost' \in [Users -> SUBSET (0..MaxSent - 1)]
        /\ late' \in BOOLEAN
    <3>1. n + 1 \in 0..MaxSent /\ sent[u]..(n - 1) \subseteq 0..MaxSent - 1
      BY <1>0, Consts
    <3>2. Arrives(u, n)
      BY <1>3 DEF rewrite
    <3>3. CASE /\ sent' = [sent EXCEPT ![u] = n + 1]
               /\ lost' = [lost EXCEPT ![u] = @ \cup (sent[u]..(n - 1))]
               /\ late' = late
      BY <1>0, <3>1, <3>3
    <3>4. CASE /\ lost' = [lost EXCEPT ![u] = @ \ {n}]
               /\ late' = TRUE
               /\ sent' = sent
      BY <1>0, <3>4
    <3> QED
      BY <3>2, <3>3, <3>4 DEF Arrives
  <2> QED
    BY <1>0, <1>3, <2>1, <2>2, <2>3 DEF TypeOK, rewrite
<1>4. ASSUME Tick PROVE TypeOK'
  <2>1. s' \in RewriteState
    BY <1>4, TickedState
  <2> QED
    BY <1>0, <1>4, <2>1 DEF TypeOK, Tick
<1>5. CASE UNCHANGED rewriterVars
  BY <1>0, <1>5 DEF TypeOK, rewriterVars
<1> QED
  BY <1>1, <1>2, <1>3, <1>4, <1>5 DEF Next

\* The types hold at first.
LEMMA TypeInit == Init => TypeOK
<1> SUFFICES ASSUME Init PROVE TypeOK
  OBVIOUS
<1>1. s \in RewriteState
  BY Consts DEF Init, RewriteState
<1>2. /\ sent \in [Users -> 0..MaxSent] /\ lost \in [Users -> SUBSET (0..MaxSent - 1)]
      /\ burst \in 0..MaxSwitch /\ due \in Nat
  BY Consts DEF Init
<1>3. out \in Seq(OutPacket) /\ Len(out) <= MaxOut
  BY Consts DEF Init
<1> QED
  BY <1>1, <1>2, <1>3 DEF Init, TypeOK

\* No sequence number, timestamp or age leaves its width, for every modulus.
THEOREM RewriterTypes == Spec => []TypeOK
BY TypeInit, TypeStep, PTL DEF Spec

-----------------------------------------------------------------------------
(* The inductive invariant *)

\* No packet is of a burst that has not begun.
BurstsBegun == \A i \in 1..Len(out) : out[i].burst <= burst

\* The stream goes on where it stopped: last_virtual_seq is the number of the
\* last packet, a switch that waits for its first packet starts behind it, and
\* a speaker whose first packet has come was the last one to be heard.
Continues ==
  /\ Len(out) > 0 => out[Len(out)].seq = s.last_virtual_seq
  /\ s.awaiting_first_packet => s.virtual_base_seq = SeqAdd(s.last_virtual_seq, 1)
  /\ s.speaker # NoOne /\ ~s.awaiting_first_packet =>
       Len(out) > 0 /\ Voice(Len(out)) /\ out[Len(out)].burst = burst

\* The bases map every packet of the running burst.
Mapped ==
  \A i \in 1..Len(out) : Voice(i) /\ out[i].burst = burst =>
    /\ ~s.awaiting_first_packet
    /\ out[i].seq = VirtualSeq(s, out[i].num)
    /\ out[i].ts = VirtualTs(s, out[i].num)

\* A video burst without a packet still waits for its keyframe.
AwaitsKeyframe ==
  require_keyframe /\ s.speaker # NoOne /\ (\A i \in 1..Len(out) : out[i].burst # burst)
    => s.awaiting_first_packet /\ s.pending_keyframe

\* GapsAreLosses without its restriction to packets in order.
GapSteps ==
  \A i \in 1..Len(out) - 1 :
    SeqSub(out[i + 1].seq, out[i].seq) =
      IF Voice(i + 1) /\ ~out[i + 1].first
      THEN SeqSub(OrigSeq(out[i + 1].num), OrigSeq(out[i].num))
      ELSE 1 % SeqMod

RInv ==
  /\ TypeOK /\ BurstsBegun /\ Continues /\ Mapped /\ AwaitsKeyframe
  /\ OrderKept /\ GapSteps /\ KeyframeFirst

\* The fields of a packet on the stream.
LEMMA OutFields ==
  ASSUME TypeOK
  PROVE  /\ Len(out) \in Nat /\ burst \in Int
         /\ \A i \in 1..Len(out) :
              /\ out[i].seq \in Int /\ out[i].seq \in 0..SeqMod - 1
              /\ out[i].num \in Nat /\ out[i].burst \in Int
              /\ out[i].user \in Users \cup {NoOne}
              /\ out[i].ts \in Int /\ out[i].ts \in 0..TsMod - 1 /\ out[i].due \in Nat
<1>1. out \in Seq(OutPacket) /\ burst \in 0..MaxSwitch
  BY DEF TypeOK
<1>2. \A i \in 1..Len(out) : out[i] \in OutPacket
  BY <1>1
<1>3. \A p \in OutPacket : /\ p.seq \in Int /\ p.seq \in 0..SeqMod - 1
                           /\ p.num \in Nat /\ p.burst \in Int
                           /\ p.user \in Users \cup {NoOne}
                           /\ p.ts \in Int /\ p.ts \in 0..TsMod - 1 /\ p.due \in Nat
  BY Consts DEF OutPacket
<1> QED
  BY <1>1, <1>2, <1>3, Consts

\* The virtual number and timestamp of packet n are its own ones, rebased.
LEMMA VirtualIsRebase ==
  ASSUME NEW st, NEW n
  PROVE  /\ VirtualSeq(st, n) = Rebase(SeqMod, OrigSeq(n), st.origin_base_seq, st.virtual_base_seq)
         /\ VirtualTs(st, n) = Rebase(TsMod, OrigTs(n), st.origin_base_ts, st.virtual_base_ts)
BY DEF VirtualSeq, VirtualTs, SeqAdd, SeqSub, TsAdd, TsSub, Rebase

\* Packets with the same bases keep their distance.
LEMMA VirtualDistance ==
  ASSUME NEW st \in RewriteState, NEW n \in Nat, NEW k \in Nat
  PROVE  SeqSub(VirtualSeq(st, n), VirtualSeq(st, k)) = SeqSub(OrigSeq(n), OrigSeq(k))
<1>1. /\ OrigSeq(n) \in Int /\ OrigSeq(k) \in Int
      /\ st.origin_base_seq \in Int /\ st.virtual_base_seq \in Int
  BY OrigWidths, StateFields, Consts
<1>2. Ahead(SeqMod, Rebase(SeqMod, OrigSeq(n), st.origin_base_seq, st.virtual_base_seq),
                    Rebase(SeqMod, OrigSeq(k), st.origin_base_seq, st.virtual_base_seq))
        = Ahead(SeqMod, OrigSeq(n), OrigSeq(k))
  BY <1>1, Consts, RebaseDistance
<1> QED
  BY <1>2, VirtualIsRebase DEF SeqSub, Ahead

\* The packet that opens a burst gets the base number and the base timestamp.
LEMMA VirtualOfOrigin ==
  ASSUME NEW st \in RewriteState, NEW n \in Nat, st.origin_base_seq = OrigSeq(n)
  PROVE  /\ VirtualSeq(st, n) = st.virtual_base_seq
         /\ st.origin_base_ts = OrigTs(n) => VirtualTs(st, n) = st.virtual_base_ts
<1>1. OrigSeq(n) \in Int /\ st.virtual_base_seq \in 0..SeqMod - 1
  BY OrigWidths, StateFields, Consts
<1>2. Rebase(SeqMod, OrigSeq(n), OrigSeq(n), st.virtual_base_seq) = st.virtual_base_seq
  BY <1>1, Consts, RebaseOrigin
<1>3. Rebase(TsMod, OrigTs(n), OrigTs(n), st.virtual_base_ts) = st.virtual_base_ts
  <2>1. OrigTs(n) \in Int /\ st.virtual_base_ts \in 0..TsMod - 1
    BY OrigWidths, StateFields, Consts
  <2> QED
    BY <2>1, Consts, RebaseOrigin
<1> QED
  BY <1>2, <1>3, VirtualIsRebase

\* Numbers counted on from l are one apart, and counting by 0 stays at l.
LEMMA CountingOn ==
  ASSUME NEW l \in 0..SeqMod - 1, NEW i \in Nat
  PROVE  /\ SeqSub(SeqAdd(l, i + 1), SeqAdd(l, i)) = 1 % SeqMod
         /\ SeqAdd(l, 0) = l
<1>1. l \in Int /\ l + (i + 1) \in Int /\ l + i \in Int /\ (l + (i + 1)) - (l + i) = 1 /\ l + 0 = l
  BY Consts
<1>2. (((l + (i + 1)) % SeqMod) - ((l + i) % SeqMod)) % SeqMod = ((l + (i + 1)) - (l + i)) % SeqMod
  BY <1>1, Consts, RemainderDistance
<1>3. l % SeqMod = l
  BY Consts, RemainderSmall
<1> QED
  BY <1>1, <1>2, <1>3 DEF SeqSub, SeqAdd

-----------------------------------------------------------------------------
(* Every step keeps the parts of the invariant. *)

\* The parts, for a step that puts nothing on the stream, changes neither the
\* burst nor the numbers and the mapping, and at most ends a speaker's turn.
LEMMA SameStream ==
  ASSUME RInv, out' = out, burst' = burst, require_keyframe' = require_keyframe,
         s'.origin_base_seq = s.origin_base_seq, s'.origin_base_ts = s.origin_base_ts,
         s'.virtual_base_seq = s.virtual_base_seq, s'.virtual_base_ts = s.virtual_base_ts,
         s'.last_virtual_seq = s.last_virtual_seq,
         \/ /\ s'.speaker = s.speaker /\ s'.pending_keyframe = s.pending_keyframe
            /\ s'.awaiting_first_packet = s.awaiting_first_packet
         \/ s'.speaker = NoOne /\ s'.awaiting_first_packet = FALSE
  PROVE  /\ BurstsBegun' /\ Continues' /\ Mapped' /\ AwaitsKeyframe'
         /\ OrderKept' /\ GapSteps' /\ KeyframeFirst'
<1>0. /\ BurstsBegun /\ Continues /\ Mapped /\ AwaitsKeyframe
      /\ OrderKept /\ GapSteps /\ KeyframeFirst
  BY DEF RInv
<1>1. BurstsBegun' /\ OrderKept' /\ GapSteps' /\ KeyframeFirst'
  BY <1>0 DEF BurstsBegun, OrderKept, GapSteps, KeyframeFirst, Voice
<1>2. Continues'
  BY <1>0 DEF Continues, Voice
<1>3. \A n : VirtualSeq(s', n) = VirtualSeq(s, n) /\ VirtualTs(s', n) = VirtualTs(s, n)
  BY DEF VirtualSeq, VirtualTs
<1>4. Mapped'
  BY <1>0, <1>3 DEF Mapped, Voice
<1>5. AwaitsKeyframe'
  BY <1>0 DEF AwaitsKeyframe
<1> QED
  BY <1>1, <1>2, <1>4, <1>5

\* A new burst has no packets yet.
LEMMA SwitchKeeps ==
  ASSUME RInv, NEW u \in Users, switch_speaker(u)
  PROVE  /\ BurstsBegun' /\ Continues' /\ Mapped' /\ AwaitsKeyframe'
         /\ OrderKept' /\ GapSteps' /\ KeyframeFirst'
<1>0. /\ TypeOK /\ BurstsBegun /\ Continues /\ OrderKept /\ GapSteps /\ KeyframeFirst
  BY DEF RInv
<1>1. out' = out /\ burst' = burst + 1 /\ require_keyframe' = require_keyframe
  BY DEF switch_speaker
<1>2. /\ s'.speaker = u /\ s'.awaiting_first_packet = TRUE
      /\ s'.pending_keyframe = require_keyframe
      /\ s'.virtual_base_seq = SeqAdd(s'.last_virtual_seq, 1)
      /\ s'.last_virtual_seq = s.last_virtual_seq
  BY <1>0, SwitchState
<1>3. \A i \in 1..Len(out) : out[i].burst < burst'
  BY <1>0, <1>1, OutFields DEF BurstsBegun
<1>4. BurstsBegun' /\ Mapped'
  BY <1>0, <1>1, <1>3, OutFields DEF BurstsBegun, Mapped
<1>5. OrderKept' /\ GapSteps' /\ KeyframeFirst'
  BY <1>0, <1>1 DEF OrderKept, GapSteps, KeyframeFirst, Voice
<1>6. Continues'
  BY <1>0, <1>1, <1>2 DEF Continues
<1>7. AwaitsKeyframe'
  BY <1>1, <1>2 DEF AwaitsKeyframe
<1> QED
  BY <1>4, <1>5, <1>6, <1>7

\* A packet of the speaker is mapped as the others of its burst are.
LEMMA RewriteKeeps ==
  ASSUME RInv, NEW u \in Users, NEW n \in 0..MaxSent - 1, NEW key \in BOOLEAN,
         rewrite(u, n, key)
  PROVE  /\ BurstsBegun' /\ Continues' /\ Mapped' /\ AwaitsKeyframe'
         /\ OrderKept' /\ GapSteps' /\ KeyframeFirst'
<1> DEFINE r == Rebased(s, n)
           L == Len(out)
<1>0. /\ TypeOK /\ BurstsBegun /\ Continues /\ Mapped /\ AwaitsKeyframe
      /\ OrderKept /\ GapSteps /\ KeyframeFirst
  BY DEF RInv
<1>1. /\ out' \in Seq(OutPacket) /\ Len(out') = L + 1 /\ L \in Nat
      /\ \A i \in 1..L : out'[i] = out[i]
      /\ out'[L + 1].seq = VirtualSeq(r, n) /\ out'[L + 1].ts = VirtualTs(r, n)
      /\ out'[L + 1].user = u /\ out'[L + 1].num = n /\ out'[L + 1].burst = burst
      /\ out'[L + 1].first = s.awaiting_first_packet
      /\ out'[L + 1].key = (s.awaiting_first_packet /\ key)
  BY <1>0, RewrittenOut, OutFields
<1>2. /\ s' \in RewriteState /\ s'.speaker = u /\ s'.awaiting_first_packet = FALSE
      /\ s'.origin_base_seq = r.origin_base_seq /\ s'.origin_base_ts = r.origin_base_ts
      /\ s'.virtual_base_seq = r.virtual_base_seq /\ s'.virtual_base_ts = r.virtual_base_ts
      /\ s'.last_virtual_seq = VirtualSeq(r, n)
  BY <1>0, RewrittenState
<1>3. /\ burst' = burst /\ require_keyframe' = require_keyframe
      /\ s.speaker = u /\ s \in RewriteState /\ u # NoOne /\ n \in Nat
      /\ s.pending_keyframe => key
  <2>1. /\ burst' = burst /\ require_keyframe' = require_keyframe
        /\ s.speaker = u /\ (s.pending_keyframe => key)
    BY DEF rewrite, PendingDrop
  <2>2. s \in RewriteState
    BY <1>0 DEF TypeOK
  <2>3. u # NoOne /\ n \in Nat
    BY Consts, RewriterAssumption
  <2> QED
    BY <2>1, <2>2, <2>3
<1>4. /\ r \in RewriteState /\ r.virtual_base_seq = s.virtual_base_seq
      /\ s.awaiting_first_packet => r.origin_base_seq = OrigSeq(n)
      /\ ~s.awaiting_first_packet => r = s
  <2>1. require_keyframe \in BOOLEAN
    BY <1>0 DEF TypeOK
  <2> QED
    BY <1>3, <2>1, RebasedState
<1>5. \A k : VirtualSeq(s', k) = VirtualSeq(r, k) /\ VirtualTs(s', k) = VirtualTs(r, k)
  BY <1>2 DEF VirtualSeq, VirtualTs
<1> HIDE DEF r, L
<1>6. BurstsBegun'
  <2>1. ASSUME NEW i \in 1..L + 1 PROVE out'[i].burst <= burst
    <3>1. CASE i \in 1..L
      BY <1>0, <1>1, <3>1 DEF BurstsBegun, L
    <3>2. CASE i = L + 1
      BY <1>0, <1>1, <3>2, OutFields
    <3> QED
      BY <1>1, <3>1, <3>2
  <2> QED
    BY <1>1, <1>3, <2>1 DEF BurstsBegun
<1>7. Mapped'
  <2>1. ASSUME NEW i \in 1..L + 1, out'[i].user # NoOne, out'[i].burst = burst
        PROVE  /\ out'[i].seq = VirtualSeq(s', out'[i].num)
               /\ out'[i].ts = VirtualTs(s', out'[i].num)
    <3>1. CASE i \in 1..L
      <4>1. out'[i] = out[i]
        BY <1>1, <3>1
      <4>2. /\ ~s.awaiting_first_packet
            /\ out[i].seq = VirtualSeq(s, out[i].num) /\ out[i].ts = VirtualTs(s, out[i].num)
        BY <1>0, <2>1, <3>1, <4>1 DEF Mapped, Voice, L
      <4> QED
        BY <1>4, <1>5, <4>1, <4>2
    <3>2. CASE i = L + 1
      BY <1>1, <1>5, <3>2
    <3> QED
      BY <1>1, <3>1, <3>2
  <2> QED
    BY <1>1, <1>2, <1>3, <2>1 DEF Mapped, Voice
<1>8. AwaitsKeyframe'
  <2>1. L + 1 \in 1..Len(out') /\ out'[L + 1].burst = burst'
    BY <1>1, <1>3
  <2> QED
    BY <2>1 DEF AwaitsKeyframe
<1>9. Continues'
  BY <1>1, <1>2, <1>3 DEF Continues, Voice
<1>10. \A i \in 1..L + 1 : out'[i].num \in Nat
  <2>1. \A i \in 1..L : out[i].num \in Nat
    BY <1>0, OutFields DEF L
  <2> QED
    BY <1>1, <1>3, <2>1
<1>11. OrderKept'
  <2>1. ASSUME NEW i \in 1..L + 1, NEW j \in 1..L + 1,
               out'[i].user # NoOne, out'[j].user # NoOne, out'[i].burst = out'[j].burst
        PROVE  SeqSub(out'[j].seq, out'[i].seq)
                 = SeqSub(OrigSeq(out'[j].num), OrigSeq(out'[i].num))
    <3>1. CASE i \in 1..L /\ j \in 1..L
      BY <1>0, <1>1, <2>1, <3>1 DEF OrderKept, Voice, L
    <3>2. CASE i = L + 1 \/ j = L + 1
      <4>1. out'[i].burst = burst /\ out'[j].burst = burst
        BY <1>1, <2>1, <3>2
      <4>2. out'[i].seq = VirtualSeq(s', out'[i].num) /\ out'[j].seq = VirtualSeq(s', out'[j].num)
        BY <1>1, <1>3, <1>7, <2>1, <4>1 DEF Mapped, Voice
      <4> QED
        BY <1>2, <1>10, <2>1, <4>2, VirtualDistance
    <3> QED
      BY <1>1, <3>1, <3>2
  <2> QED
    BY <1>1, <2>1 DEF OrderKept, Voice
<1>12. GapSteps'
  <2>1. ASSUME NEW i \in 1..L
        PROVE  SeqSub(out'[i + 1].seq, out'[i].seq) =
                 IF out'[i + 1].user # NoOne /\ ~out'[i + 1].first
                 THEN SeqSub(OrigSeq(out'[i + 1].num), OrigSeq(out'[i].num))
                 ELSE 1 % SeqMod
    <3>1. CASE i # L
      <4>1. i \in 1..L - 1 /\ i + 1 \in 1..L
        BY <1>1, <3>1
      <4>2. out'[i] = out[i] /\ out'[i + 1] = out[i + 1]
        BY <1>1, <4>1
      <4> QED
        BY <1>0, <4>1, <4>2 DEF GapSteps, Voice, L
    <3>2. CASE i = L /\ s.awaiting_first_packet
      <4>1. out'[L] = out[L] /\ L > 0
        BY <1>1, <3>2
      <4>2. out[L].seq = s.last_virtual_seq /\ s.last_virtual_seq \in 0..SeqMod - 1
        BY <1>0, <1>3, <4>1, StateFields DEF Continues, L
      <4>3. out'[L + 1].seq = SeqAdd(s.last_virtual_seq, 1)
        BY <1>0, <1>1, <1>3, <1>4, <3>2, VirtualOfOrigin DEF Continues
      <4>4. SeqSub(SeqAdd(s.last_virtual_seq, 1), s.last_virtual_seq) = 1 % SeqMod
        <5>1. 0 \in Nat /\ 0 + 1 = 1
          OBVIOUS
        <5> QED
          BY <4>2, <5>1, CountingOn
      <4> QED
        BY <1>1, <3>2, <4>1, <4>2, <4>3, <4>4
    <3>3. CASE i = L /\ ~s.awaiting_first_packet
      <4>1. out'[L] = out[L] /\ L \in 1..L + 1 /\ L + 1 \in 1..L + 1
        BY <1>1, <3>3
      <4>2. out[L].user # NoOne /\ out[L].burst = burst
        BY <1>0, <1>3, <3>3 DEF Continues, Voice, L
      <4>3. SeqSub(out'[L + 1].seq, out'[L].seq)
              = SeqSub(OrigSeq(out'[L + 1].num), OrigSeq(out'[L].num))
        BY <1>1, <1>3, <1>11, <4>1, <4>2 DEF OrderKept, Voice
      <4> QED
        BY <1>1, <1>3, <3>3, <4>3
    <3> QED
      BY <3>1, <3>2, <3>3
  <2>2. Len(out') - 1 = L
    BY <1>1
  <2> QED
    BY <2>1, <2>2 DEF GapSteps, Voice
<1>13. KeyframeFirst'
  <2>1. ASSUME require_keyframe, NEW i \in 1..L + 1,
               \A k \in 1..i - 1 : out'[k].burst # out'[i].burst
        PROVE  out'[i].key
    <3>1. CASE i \in 1..L
      <4>1. out'[i] = out[i] /\ \A k \in 1..i - 1 : out'[k] = out[k]
        BY <1>1, <3>1
      <4> QED
        BY <1>0, <2>1, <3>1, <4>1 DEF KeyframeFirst, L
    <3>2. CASE i = L + 1
      <4>1. \A k \in 1..L : out[k].burst # burst
        BY <1>1, <2>1, <3>2
      <4>2. s.awaiting_first_packet /\ s.pending_keyframe
        BY <1>0, <1>3, <2>1, <4>1 DEF AwaitsKeyframe, L
      <4> QED
        BY <1>1, <1>3, <3>2, <4>2
    <3> QED
      BY <1>1, <3>1, <3>2
  <2> QED
    BY <1>1, <1>3, <2>1 DEF KeyframeFirst
<1> QED
  BY <1>6, <1>7, <1>8, <1>9, <1>11, <1>12, <1>13

\* The silence frames count on from the last packet; they are no packets of a
\* speaker, and only the audio rewriter sends them.
LEMMA ClearKeeps ==
  ASSUME RInv, clear_speaker
  PROVE  /\ BurstsBegun' /\ Continues' /\ Mapped' /\ AwaitsKeyframe'
         /\ OrderKept' /\ GapSteps' /\ KeyframeFirst'
<1> DEFINE L == Len(out)
           l == s.last_virtual_seq
<1>0. /\ TypeOK /\ BurstsBegun /\ Continues /\ Mapped /\ AwaitsKeyframe
      /\ OrderKept /\ GapSteps /\ KeyframeFirst
  BY DEF RInv
<1>1. /\ s'.speaker = NoOne /\ s'.awaiting_first_packet = FALSE
      /\ s'.origin_base_seq = s.origin_base_seq /\ s'.origin_base_ts = s.origin_base_ts
      /\ s'.virtual_base_seq = s.virtual_base_seq /\ s'.virtual_base_ts = s.virtual_base_ts
      /\ s'.last_virtual_seq = IF FlushesSilence THEN SeqAdd(l, SilenceCount) ELSE l
  BY <1>0, ClearedState
<1>2. burst' = burst /\ require_keyframe' = require_keyframe
  BY DEF clear_speaker
<1>3. CASE ~FlushesSilence
  <2>1. out' = out
    BY <1>0, <1>3, ClearedOut
  <2> QED
    BY <1>1, <1>2, <1>3, <2>1, SameStream
<1>4. CASE FlushesSilence
  <2>1. /\ Len(out') = L + SilenceCount /\ L \in Nat /\ SilenceCount \in Nat
        /\ \A i \in 1..L : out'[i] = out[i]
        /\ \A i \in 1..SilenceCount :
             /\ out'[L + i].seq = SeqAdd(l, i)
             /\ out'[L + i].user = NoOne /\ out'[L + i].burst = burst
    BY <1>0, <1>4, ClearedOut, OutFields, Consts
  <2>2. ~require_keyframe /\ l \in 0..SeqMod - 1
    BY <1>0, <1>4, StateFields DEF FlushesSilence, TypeOK
  <2>3. s'.last_virtual_seq = SeqAdd(l, SilenceCount)
    BY <1>1, <1>4
  <2> HIDE DEF L
  <2>4. \A i \in 1..L + SilenceCount : i \notin 1..L =>
          \E k \in 1..SilenceCount : i = L + k
    <3>1. ASSUME NEW i \in 1..L + SilenceCount, i \notin 1..L
          PROVE  i - L \in 1..SilenceCount /\ i = L + (i - L)
      BY <2>1, <3>1
    <3> QED
      BY <3>1
  <2>5. \A i \in 1..L + SilenceCount : out'[i].user # NoOne => i \in 1..L /\ out'[i] = out[i]
    BY <2>1, <2>4
  <2>6. BurstsBegun'
    <3>1. ASSUME NEW i \in 1..L + SilenceCount PROVE out'[i].burst <= burst
      <4>1. CASE i \in 1..L
        BY <1>0, <2>1, <4>1 DEF BurstsBegun, L
      <4>2. CASE i \notin 1..L
        <5>1. PICK k \in 1..SilenceCount : i = L + k
          BY <2>4, <4>2
        <5>2. out'[i].burst = burst /\ burst \in Int
          BY <1>0, <2>1, <5>1, OutFields
        <5> QED
          BY <5>2
      <4> QED
        BY <4>1, <4>2
    <3> QED
      BY <1>2, <2>1, <3>1 DEF BurstsBegun
  <2>7. Mapped'
    <3>1. \A n : VirtualSeq(s', n) = VirtualSeq(s, n) /\ VirtualTs(s', n) = VirtualTs(s, n)
      BY <1>1 DEF VirtualSeq, VirtualTs
    <3>2. ASSUME NEW i \in 1..L + SilenceCount, out'[i].user # NoOne, out'[i].burst = burst
          PROVE  /\ out'[i].seq = VirtualSeq(s', out'[i].num)
                 /\ out'[i].ts = VirtualTs(s', out'[i].num)
      <4>1. i \in 1..L /\ out'[i] = out[i]
        BY <2>5, <3>2
      <4> QED
        BY <1>0, <3>1, <3>2, <4>1 DEF Mapped, Voice, L
    <3> QED
      BY <1>1, <1>2, <2>1, <3>2 DEF Mapped, Voice
  <2>8. OrderKept'
    BY <1>0, <2>1, <2>5 DEF OrderKept, Voice, L
  <2>9. AwaitsKeyframe' /\ KeyframeFirst'
    BY <1>2, <2>2 DEF AwaitsKeyframe, KeyframeFirst
  <2>10. Continues'
    <3>1. CASE SilenceCount = 0
      <4>1. SeqAdd(l, 0) = l
        BY <2>2, CountingOn
      <4> QED
        BY <1>0, <1>1, <2>1, <2>3, <3>1, <4>1 DEF Continues, L
    <3>2. CASE SilenceCount # 0
      <4>1. SilenceCount \in 1..SilenceCount
        BY <2>1, <3>2
      <4> QED
        BY <1>1, <2>1, <2>3, <4>1 DEF Continues
    <3> QED
      BY <3>1, <3>2
  <2>11. GapSteps'
    <3>1. ASSUME NEW i \in 1..(L + SilenceCount) - 1
          PROVE  SeqSub(out'[i + 1].seq, out'[i].seq) =
                   IF out'[i + 1].user # NoOne /\ ~out'[i + 1].first
                   THEN SeqSub(OrigSeq(out'[i + 1].num), OrigSeq(out'[i].num))
                   ELSE 1 % SeqMod
      <4>1. CASE i + 1 <= L
        <5>1. i \in 1..L - 1 /\ i \in 1..L /\ i + 1 \in 1..L
          BY <2>1, <4>1
        <5>2. out'[i] = out[i] /\ out'[i + 1] = out[i + 1]
          BY <2>1, <5>1
        <5> QED
          BY <1>0, <5>1, <5>2 DEF GapSteps, Voice, L
      <4>2. CASE i = L
        <5>1. L \in 1..L /\ L > 0 /\ 1 \in 1..SilenceCount
          BY <2>1, <4>2
        <5>2. out'[L].seq = l
          BY <1>0, <2>1, <5>1 DEF Continues, L
        <5>3. out'[L + 1].seq = SeqAdd(l, 1) /\ out'[L + 1].user = NoOne
          BY <2>1, <5>1
        <5>4. SeqSub(SeqAdd(l, 1), l) = 1 % SeqMod
          <6>1. 0 \in Nat /\ 0 + 1 = 1
            OBVIOUS
          <6> QED
            BY <2>2, <6>1, CountingOn
        <5> QED
          BY <4>2, <5>2, <5>3, <5>4
      <4>3. CASE i > L
        <5> DEFINE k == i - L
        <5>1. k \in 1..SilenceCount /\ k + 1 \in 1..SilenceCount /\ k \in Nat
              /\ i = L + k /\ i + 1 = L + (k + 1)
          BY <2>1, <4>3
        <5> HIDE DEF k
        <5>2. /\ out'[i].seq = SeqAdd(l, k) /\ out'[i + 1].seq = SeqAdd(l, k + 1)
              /\ out'[i + 1].user = NoOne
          BY <2>1, <5>1
        <5>3. SeqSub(SeqAdd(l, k + 1), SeqAdd(l, k)) = 1 % SeqMod
          BY <2>2, <5>1, CountingOn
        <5> QED
          BY <5>2, <5>3
      <4> QED
        BY <2>1, <4>1, <4>2, <4>3
    <3> QED
      BY <2>1, <3>1 DEF GapSteps, Voice
  <2> QED
    BY <2>6, <2>7, <2>8, <2>9, <2>10, <2>11
<1> QED
  BY <1>3, <1>4

\* Each step keeps the invariant.
LEMMA RInvStep == RInv /\ [Next]_rewriterVars => RInv'
<1> SUFFICES ASSUME RInv, [Next]_rewriterVars PROVE RInv'
  OBVIOUS
<1>0. TypeOK /\ TypeOK'
  BY TypeStep DEF RInv
<1>1. ASSUME NEW u \in Users, switch_speaker(u) PROVE RInv'
  BY <1>0, <1>1, SwitchKeeps DEF RInv
<1>2. ASSUME clear_speaker PROVE RInv'
  BY <1>0, <1>2, ClearKeeps DEF RInv
<1>3. ASSUME NEW u \in Users, NEW n \in 0..MaxSent - 1, NEW key \in BOOLEAN,
             rewrite(u, n, key)
      PROVE  RInv'
  BY <1>0, <1>3, RewriteKeeps DEF RInv
<1>4. ASSUME Tick PROVE RInv'
  <2>1. out' = out /\ burst' = burst /\ require_keyframe' = require_keyframe
    BY <1>4 DEF Tick
  <2> QED
    BY <1>0, <1>4, <2>1, TickedState, SameStream DEF RInv
<1>5. CASE UNCHANGED rewriterVars
  <2>1. /\ out' = out /\ burst' = burst /\ require_keyframe' = require_keyframe /\ s' = s
    BY <1>5 DEF rewriterVars
  <2> QED
    BY <1>0, <2>1, SameStream DEF RInv
<1> QED
  BY <1>1, <1>2, <1>3, <1>4, <1>5 DEF Next

\* The invariant holds at first.
LEMMA RInvInit == Init => RInv
<1> SUFFICES ASSUME Init PROVE RInv
  OBVIOUS
<1>1. Len(out) = 0 /\ s.speaker = NoOne /\ s.awaiting_first_packet = FALSE
  BY DEF Init
<1>2. BurstsBegun /\ Continues /\ Mapped /\ AwaitsKeyframe
  BY <1>1 DEF BurstsBegun, Continues, Mapped, AwaitsKeyframe
<1>3. OrderKept /\ GapSteps /\ KeyframeFirst
  BY <1>1 DEF OrderKept, GapSteps, KeyframeFirst
<1> QED
  BY <1>2, <1>3, TypeInit DEF RInv

\* The invariant of every behaviour.
LEMMA RewriterInvariant == Spec => []RInv
BY RInvInit, RInvStep, PTL DEF Spec

\* For every modulus and number of silence frames: the receiver sees a gap in the
\* virtual numbers exactly where the publisher's stream has one, never at a
\* speaker switch, around silence frames or at a wrap.
THEOREM GapsOnlyFromLosses == Spec => []GapsAreLosses
<1>1. RInv => GapsAreLosses
  BY DEF RInv, GapSteps, GapsAreLosses
<1> QED
  BY <1>1, RewriterInvariant, PTL

\* For every loss and reordering: the packets of a burst keep the distances,
\* and so the order, that their publisher gave them.
THEOREM BurstOrderKept == Spec => []OrderKept
<1>1. RInv => OrderKept
  BY DEF RInv
<1> QED
  BY <1>1, RewriterInvariant, PTL

\* However speakers follow each other, a video burst starts with a keyframe.
THEOREM BurstsStartWithKeyframe == Spec => []KeyframeFirst
<1>1. RInv => KeyframeFirst
  BY DEF RInv
<1> QED
  BY <1>1, RewriterInvariant, PTL

\* reverse_seq and translate_rtp_ts give the exact counterparts for every packet
\* of the running burst, for every modulus: what a NACK asks for is looked up
\* under the number the publisher sent it with.
THEOREM MappingIsExact == Spec => []MappingExact
<1>1. ASSUME RInv PROVE MappingExact
  <2>1. /\ TypeOK /\ Mapped /\ s \in RewriteState
    BY <1>1 DEF RInv, TypeOK
  <2>2. ASSUME NEW i \in 1..Len(out), out[i].user # NoOne, out[i].burst = burst
        PROVE  /\ reverse_seq(out[i].seq) = OrigSeq(out[i].num)
               /\ s.speaker # NoOne => translate_rtp_ts(OrigTs(out[i].num)) = out[i].ts
    <3> DEFINE n == out[i].num
    <3>1. n \in Nat
      BY <2>1, OutFields
    <3>2. /\ ~s.awaiting_first_packet
          /\ out[i].seq = VirtualSeq(s, n) /\ out[i].ts = VirtualTs(s, n)
      BY <2>1, <2>2 DEF Mapped, Voice
    <3> HIDE DEF n
    <3>3. OrigSeq(n) \in 0..SeqMod - 1 /\ s.origin_base_seq \in Int /\ s.virtual_base_seq \in Int
      BY <2>1, <3>1, OrigWidths, StateFields
    <3>4. Rebase(SeqMod, Rebase(SeqMod, OrigSeq(n), s.origin_base_seq, s.virtual_base_seq),
                 s.virtual_base_seq, s.origin_base_seq) = OrigSeq(n)
      BY <3>3, Consts, RebaseBack
    <3>5. reverse_seq(out[i].seq) =
            Rebase(SeqMod, out[i].seq, s.virtual_base_seq, s.origin_base_seq)
      BY DEF reverse_seq, SeqAdd, SeqSub, Rebase
    <3>6. reverse_seq(out[i].seq) = OrigSeq(n)
      BY <3>2, <3>4, <3>5, VirtualIsRebase
    <3>7. s.speaker # NoOne => translate_rtp_ts(OrigTs(n)) = VirtualTs(s, n)
      BY <3>2 DEF translate_rtp_ts, VirtualTs
    <3> QED
      BY <3>2, <3>6, <3>7 DEF n
  <2> QED
    BY <2>2 DEF MappingExact, Voice
<1> QED
  BY <1>1, RewriterInvariant, PTL

-----------------------------------------------------------------------------
(* The idle time in the timestamps *)

\* Packet i is the last one of a speaker on the stream.
LastVoice(i) == Voice(i) /\ \A k \in i + 1..Len(out) : ~Voice(k)

\* Packet j opens a burst, and i is the last one of a speaker before it.
Pause(i, j) ==
  /\ i < j /\ Voice(i) /\ out[j].first
  /\ \A k \in i + 1..j - 1 : ~Voice(k)

\* What clear_speaker takes for a stream on which nothing was sent yet.
LooksUnused(i) == ~require_keyframe /\ out[i].seq = 0 /\ out[i].ts = 0

\* The pause is shorter than the timestamps' range, with the guard gaps it has, and does
\* not begin on number 0 and timestamp 0.
Fits(i, j) == ~LooksUnused(i) /\ (j - i) * GuardGap + out[j].due < TsMod

PausesFit == \A i, j \in 1..Len(out) : Pause(i, j) => Fits(i, j)

\* Only a rewriter without a speaker has been cleared.
ClearedIsIdle == s.cleared_at # Never => s.speaker = NoOne

\* After the last packet of a speaker come silence frames only, a guard gap apart: none
\* or whole flushes, and at least one flush if the floor was released since.
SilenceAfter ==
  \A i \in 1..Len(out) : LastVoice(i) =>
    /\ s.last_virtual_ts = TsAdd(out[i].ts, (Len(out) - i) * GuardGap)
    /\ i # Len(out) => Len(out) - i >= SilenceCount
    /\ ~require_keyframe /\ s.cleared_at # Never /\ ~LooksUnused(i)
         => Len(out) - i >= SilenceCount

\* The pending switch goes on gap behind the last timestamp, and with the silence frames
\* that covers what it owes.
Owes(gap) ==
  /\ s.virtual_base_ts = TsAdd(s.last_virtual_ts, gap)
  /\ gap <= due + GuardGap
  /\ \A i \in 1..Len(out) : LastVoice(i) /\ ~LooksUnused(i) =>
       (Len(out) - i) * GuardGap + gap >= due

GapOwed == s.awaiting_first_packet => \E gap \in Nat : Owes(gap)

\* IdleTimeInTs without its restriction to packets in order, of the pauses that fit.
PausesShow ==
  \A i, j \in 1..Len(out) : Pause(i, j) /\ Fits(i, j)
    => TsSub(out[j].ts, out[i].ts) >= out[j].due

IdleInv == ClearedIsIdle /\ SilenceAfter /\ GapOwed /\ PausesShow

\* Timestamps may be advanced in two steps, and a distance below the range shows.
LEMMA TsChain ==
  ASSUME NEW b \in 0..TsMod - 1, NEW x \in Nat, NEW y \in Nat
  PROVE  /\ TsAdd(b, x) \in Int
         /\ TsAdd(TsAdd(b, x), y) = TsAdd(b, x + y)
         /\ TsAdd(b, 0) = b
         /\ x < TsMod => TsSub(TsAdd(b, x), b) = x
<1> DEFINE z == b + x
<1>1. /\ b \in Int /\ z \in Int /\ -b \in Int /\ y \in Int
      /\ z + y = b + (x + y) /\ z + (-b) = x /\ b + 0 = b
  BY Consts
<1> HIDE DEF z
<1>2. ((z % TsMod) + y) % TsMod = (z + y) % TsMod
  BY <1>1, Consts, RemainderInside
<1>3. ((z % TsMod) + (-b)) % TsMod = (z + (-b)) % TsMod
  BY <1>1, Consts, RemainderInside
<1>4. b % TsMod = b
  BY Consts, RemainderSmall
<1>5. x < TsMod => x % TsMod = x
  <2>1. x < TsMod => x \in 0..TsMod - 1
    BY Consts
  <2> QED
    BY <2>1, Consts, RemainderSmall
<1>6. z % TsMod \in Int
  BY <1>1, Consts
<1>7. (z % TsMod) + (-b) = (z % TsMod) - b
  BY <1>1, <1>6
<1> QED
  BY <1>1, <1>2, <1>3, <1>4, <1>5, <1>6, <1>7 DEF z, TsAdd, TsSub

\* More frames take more time.
LEMMA FramesTime ==
  ASSUME NEW a \in Nat, NEW b \in Nat
  PROVE  /\ a * GuardGap \in Nat
         /\ a >= b => a * GuardGap >= b * GuardGap
         /\ a * GuardGap + b * GuardGap = (a + b) * GuardGap
         /\ (a + 1) * GuardGap = a * GuardGap + GuardGap
<1> DEFINE g == GuardGap
<1>1. g \in Nat
  BY Consts
<1> HIDE DEF g
<1>2. a * g \in Nat /\ b * g \in Nat
  BY <1>1
<1>3. a * g + b * g = (a + b) * g
  BY <1>1
<1>4. (a + 1) * g = a * g + g
  BY <1>1
<1>5. ASSUME a >= b PROVE a * g >= b * g
  <2>1. PICK c \in Nat : a = b + c
    <3>1. a - b \in Nat /\ a = b + (a - b)
      BY <1>5
    <3> QED
      BY <3>1
  <2>2. (b + c) * g = b * g + c * g /\ c * g \in Nat
    BY <1>1, <2>1
  <2> QED
    BY <1>2, <2>1, <2>2
<1> QED
  BY <1>2, <1>3, <1>4, <1>5 DEF g

\* The idle time a switch owes.
IdleTs == IF s.cleared_at = Never THEN 0 ELSE TicksToTs(s.cleared_at)

\* The gap of a switch covers it, for audio together with one flush of silence frames,
\* and is longer by at most a guard gap.
LEMMA GapCovers ==
  ASSUME TypeOK
  PROVE  /\ SwitchTsGap(s) \in Nat /\ IdleTs \in Nat
         /\ SwitchTsGap(s) <= IdleTs + GuardGap
         /\ require_keyframe => SwitchTsGap(s) >= IdleTs
         /\ SilenceCount * GuardGap + SwitchTsGap(s) >= IdleTs
<1> DEFINE d == IdleTs
           dyn == DynamicTsGap(s)
           gap == SwitchTsGap(s)
           f == SilenceCount * GuardGap
<1>1. s \in RewriteState
  BY DEF TypeOK
<1>2. gap \in Nat /\ f \in Nat /\ GuardGap \in Nat
  BY <1>1, SwitchGapType, Consts, FramesTime
<1>3. d \in Nat /\ dyn \in Nat /\ dyn >= d /\ dyn <= d + GuardGap
  <2>1. CASE s.cleared_at = Never
    BY <1>2, <2>1 DEF IdleTs, DynamicTsGap
  <2>2. CASE s.cleared_at # Never
    <3>1. s.cleared_at \in Nat
      BY <1>1, <2>2, StateFields, Consts
    <3>2. TicksToTs(s.cleared_at) \in Nat
      BY <3>1, TicksType
    <3> DEFINE t == TicksToTs(s.cleared_at)
    <3>3. dyn = Max({t, GuardGap}) /\ d = t
      BY <2>2 DEF IdleTs, DynamicTsGap
    <3>4. t \in Nat
      BY <3>2
    <3> HIDE DEF t, dyn, d
    <3>5. dyn = IF t >= GuardGap THEN t ELSE GuardGap
      BY <1>2, <3>3, <3>4, MinMaxOfTwo
    <3> QED
      BY <1>2, <3>3, <3>4, <3>5
  <2> QED
    BY <2>1, <2>2
<1>4. gap = IF require_keyframe THEN dyn ELSE IF dyn > f THEN dyn - f ELSE 0
  BY DEF SwitchTsGap, SatSub
<1> HIDE DEF d, dyn, gap, f
<1>5. gap <= d + GuardGap /\ f + gap >= d /\ (require_keyframe => gap >= d)
  BY <1>2, <1>3, <1>4
<1> QED
  BY <1>2, <1>3, <1>5 DEF d, gap, f

\* A step that leaves the stream and the times as they are keeps the invariant.
LEMMA IdleSame ==
  ASSUME IdleInv, out' = out, due' = due, require_keyframe' = require_keyframe,
         s'.virtual_base_ts = s.virtual_base_ts, s'.last_virtual_ts = s.last_virtual_ts,
         s'.awaiting_first_packet = s.awaiting_first_packet, s'.speaker = s.speaker,
         s'.cleared_at # Never => s.cleared_at # Never
  PROVE  IdleInv'
<1>1. ClearedIsIdle'
  BY DEF IdleInv, ClearedIsIdle
<1>2. SilenceAfter'
  BY DEF IdleInv, SilenceAfter, LastVoice, LooksUnused, Voice
<1>3. \A gap \in Nat : Owes(gap) => Owes(gap)'
  BY DEF Owes, LastVoice, LooksUnused, Voice
<1>4. GapOwed'
  BY <1>3 DEF IdleInv, GapOwed
<1>5. PausesShow'
  BY DEF IdleInv, PausesShow, Pause, Fits, LooksUnused, Voice
<1> QED
  BY <1>1, <1>2, <1>4, <1>5 DEF IdleInv

\* switch_speaker: the gap is what GapCovers says.
LEMMA SwitchIdle ==
  ASSUME RInv, IdleInv, NEW u \in Users, switch_speaker(u)
  PROVE  IdleInv'
<1>0. TypeOK /\ SilenceAfter /\ PausesShow
  BY DEF RInv, IdleInv
<1>1. out' = out /\ require_keyframe' = require_keyframe /\ due' = IdleTs
  BY DEF switch_speaker, IdleTs
<1>2. /\ s'.virtual_base_ts = TsAdd(s.last_virtual_ts, SwitchTsGap(s))
      /\ s'.cleared_at = Never /\ s'.last_virtual_ts = s.last_virtual_ts
  BY <1>0, SwitchState
<1>3. ClearedIsIdle'
  BY <1>2 DEF ClearedIsIdle
<1>4. SilenceAfter'
  BY <1>0, <1>1, <1>2 DEF SilenceAfter, LastVoice, LooksUnused, Voice
<1>5. PausesShow'
  BY <1>0, <1>1 DEF PausesShow, Pause, Fits, LooksUnused, Voice
<1>6. PICK g \in Nat : g = SwitchTsGap(s)
  BY <1>0, GapCovers
<1>7. PICK d \in Nat : d = IdleTs
  BY <1>0, GapCovers
<1>8. /\ g <= d + GuardGap /\ (require_keyframe => g >= d)
      /\ SilenceCount * GuardGap + g >= d
  BY <1>0, <1>6, <1>7, GapCovers
<1>9. ASSUME NEW i \in 1..Len(out), LastVoice(i), ~LooksUnused(i)
      PROVE  (Len(out) - i) * GuardGap + g >= d
  <2> DEFINE k == Len(out) - i
             t == k * GuardGap
             f == SilenceCount * GuardGap
  <2>1. k \in Nat
    BY <1>0, OutFields
  <2>2. t \in Nat /\ f \in Nat /\ (k >= SilenceCount => t >= f)
    BY <2>1, Consts, FramesTime
  <2>3. d = 0 \/ require_keyframe \/ k >= SilenceCount
    <3>1. s.cleared_at = Never => d = 0
      BY <1>7 DEF IdleTs
    <3> QED
      BY <1>0, <1>9, <3>1 DEF SilenceAfter
  <2> HIDE DEF t, f, k
  <2>4. f + g >= d
    BY <1>8 DEF f
  <2>5. t + g >= d
    BY <1>8, <2>2, <2>3, <2>4
  <2> QED
    BY <2>5 DEF t, k
<1>10. Owes(g)'
  <2>1. ASSUME NEW i \in 1..Len(out'), LastVoice(i)', ~LooksUnused(i)'
        PROVE  (Len(out') - i) * GuardGap + g >= due'
    <3>1. LastVoice(i) /\ ~LooksUnused(i) /\ i \in 1..Len(out)
      BY <1>1, <2>1 DEF LastVoice, LooksUnused, Voice
    <3> QED
      BY <1>1, <1>7, <1>9, <3>1
  <2>2. s'.virtual_base_ts = TsAdd(s'.last_virtual_ts, g) /\ g <= due' + GuardGap
    BY <1>1, <1>2, <1>6, <1>7, <1>8
  <2> QED
    BY <2>1, <2>2 DEF Owes
<1>11. GapOwed'
  BY <1>10 DEF GapOwed
<1> QED
  BY <1>3, <1>4, <1>5, <1>11 DEF IdleInv

\* clear_speaker: the flush is time that has passed on the stream.
LEMMA ClearIdle ==
  ASSUME RInv, IdleInv, clear_speaker
  PROVE  IdleInv'
<1> DEFINE L == Len(out)
           f == SilenceCount * GuardGap
<1>0. TypeOK /\ Continues /\ SilenceAfter /\ PausesShow
  BY DEF RInv, IdleInv
<1>1. /\ s'.speaker = NoOne /\ s'.awaiting_first_packet = FALSE
      /\ s'.last_virtual_ts = IF FlushesSilence THEN TsAdd(s.last_virtual_ts, f)
                              ELSE s.last_virtual_ts
  BY <1>0, ClearedState
<1>2. require_keyframe' = require_keyframe /\ L \in Nat /\ SilenceCount \in Nat
  BY <1>0, OutFields, Consts DEF clear_speaker
<1>3. ClearedIsIdle' /\ GapOwed'
  BY <1>1 DEF ClearedIsIdle, GapOwed
<1>4. CASE ~FlushesSilence
  <2>1. out' = out /\ s'.last_virtual_ts = s.last_virtual_ts
    BY <1>0, <1>1, <1>4, ClearedOut
  <2>2. PausesShow'
    BY <1>0, <1>2, <2>1 DEF PausesShow, Pause, Fits, LooksUnused, Voice
  <2>3. ASSUME NEW i \in 1..L, LastVoice(i), ~require_keyframe, ~LooksUnused(i)
        PROVE  L - i >= SilenceCount
    <3>1. CASE i # L
      BY <1>0, <2>3, <3>1 DEF SilenceAfter
    <3>2. CASE i = L
      <4>1. s.last_virtual_ts = TsAdd(out[i].ts, (L - i) * GuardGap)
        BY <1>0, <2>3 DEF SilenceAfter
      <4>2. (L - i) * GuardGap = 0
        <5>1. L - i = 0 /\ GuardGap \in Nat
          BY <1>2, <3>2, Consts
        <5> QED
          BY <5>1
      <4>3. out[i].ts \in 0..TsMod - 1
        BY <1>0, OutFields
      <4>4. s.last_virtual_ts = out[i].ts
        BY <4>1, <4>2, <4>3, TsChain
      <4>5. s.last_virtual_seq = out[i].seq
        BY <1>0, <1>2, <2>3, <3>2 DEF Continues
      <4> QED
        BY <1>4, <2>3, <4>4, <4>5 DEF FlushesSilence, LooksUnused
    <3> QED
      BY <3>1, <3>2
  <2>4. SilenceAfter'
    <3>1. ASSUME NEW i \in 1..L, LastVoice(i)'
          PROVE  /\ LastVoice(i) /\ (LooksUnused(i)' <=> LooksUnused(i))
      BY <1>2, <2>1, <3>1 DEF LastVoice, LooksUnused, Voice
    <3> QED
      BY <1>0, <1>2, <2>1, <2>3, <3>1 DEF SilenceAfter
  <2> QED
    BY <1>3, <2>2, <2>4 DEF IdleInv
<1>5. CASE FlushesSilence
  <2>1. /\ Len(out') = L + SilenceCount
        /\ \A i \in 1..L : out'[i] = out[i]
        /\ \A i \in 1..SilenceCount : /\ out'[L + i].user = NoOne
                                      /\ out'[L + i].first = FALSE
    BY <1>0, <1>5, ClearedOut
  <2>2. s'.last_virtual_ts = TsAdd(s.last_virtual_ts, f)
    BY <1>1, <1>5
  <2> HIDE DEF L
  <2>3. \A i \in 1..L + SilenceCount :
          out'[i].user # NoOne \/ out'[i].first => i \in 1..L
    <3>1. ASSUME NEW i \in 1..L + SilenceCount, i \notin 1..L
          PROVE  out'[i].user = NoOne /\ out'[i].first = FALSE
      <4>1. i - L \in 1..SilenceCount /\ i = L + (i - L)
        BY <1>2, <3>1
      <4> QED
        BY <2>1, <4>1
    <3> QED
      BY <3>1
  <2>4. PausesShow'
    <3>1. ASSUME NEW i \in 1..L + SilenceCount, NEW j \in 1..L + SilenceCount,
                 Pause(i, j)', Fits(i, j)'
          PROVE  TsSub(out'[j].ts, out'[i].ts) >= out'[j].due
      <4>1. i \in 1..L /\ j \in 1..L
        BY <2>3, <3>1 DEF Pause, Voice
      <4>2. out'[i] = out[i] /\ out'[j] = out[j] /\ \A k \in i + 1..j - 1 : out'[k] = out[k]
        BY <1>2, <2>1, <4>1
      <4>3. Pause(i, j) /\ Fits(i, j)
        BY <1>2, <3>1, <4>2 DEF Pause, Fits, LooksUnused, Voice
      <4> QED
        BY <1>0, <4>1, <4>2, <4>3 DEF PausesShow, L
    <3> QED
      BY <2>1, <3>1 DEF PausesShow
  <2>5. SilenceAfter'
    <3>1. ASSUME NEW i \in 1..L + SilenceCount, LastVoice(i)'
          PROVE  /\ s'.last_virtual_ts = TsAdd(out'[i].ts, ((L + SilenceCount) - i) * GuardGap)
                 /\ (L + SilenceCount) - i >= SilenceCount
      <4>1. i \in 1..L
        BY <2>3, <3>1 DEF LastVoice, Voice
      <4>2. out'[i] = out[i] /\ \A k \in i + 1..L : out'[k] = out[k]
        BY <1>2, <2>1, <4>1
      <4>3. LastVoice(i)
        BY <1>2, <2>1, <3>1, <4>1, <4>2 DEF LastVoice, Voice, L
      <4> DEFINE k == L - i
      <4>4. k \in Nat /\ k + SilenceCount = (L + SilenceCount) - i
        BY <1>2, <4>1
      <4>5. s.last_virtual_ts = TsAdd(out[i].ts, k * GuardGap)
        BY <1>0, <4>1, <4>3 DEF SilenceAfter, L
      <4> HIDE DEF k
      <4>6. k * GuardGap \in Nat /\ f \in Nat /\ k * GuardGap + f = (k + SilenceCount) * GuardGap
        BY <1>2, <4>4, FramesTime
      <4>7. out[i].ts \in 0..TsMod - 1
        BY <1>0, <4>1, OutFields DEF L
      <4>8. s'.last_virtual_ts = TsAdd(out[i].ts, (k + SilenceCount) * GuardGap)
        <5> HIDE DEF f
        <5> QED
          BY <2>2, <4>5, <4>6, <4>7, TsChain
      <4>9. (L + SilenceCount) - i >= SilenceCount
        BY <1>2, <4>1
      <4> QED
        BY <4>2, <4>4, <4>8, <4>9
    <3> QED
      BY <2>1, <3>1 DEF SilenceAfter
  <2> QED
    BY <1>3, <2>4, <2>5 DEF IdleInv
<1> QED
  BY <1>4, <1>5

\* The packet that opens a burst is as far behind the last one as the pause was long.
LEMMA FirstShows ==
  ASSUME TypeOK, SilenceAfter, GapOwed, s.awaiting_first_packet,
         NEW n \in Nat, NEW i \in 1..Len(out), LastVoice(i), ~LooksUnused(i),
         ((Len(out) + 1) - i) * GuardGap + (due + PendingTs(s)) < TsMod
  PROVE  TsSub(VirtualTs(Rebased(s, n), n), out[i].ts) >= due + PendingTs(s)
<1> DEFINE r == Rebased(s, n)
           p == PendingTs(s)
           b == out[i].ts
           k == Len(out) - i
           t == k * GuardGap
<1>1. s \in RewriteState /\ require_keyframe \in BOOLEAN /\ due \in Nat
  BY DEF TypeOK
<1>2. p \in Nat /\ b \in 0..TsMod - 1 /\ k \in Nat /\ (Len(out) + 1) - i = k + 1
  BY <1>1, PendingType, OutFields
<1>3. t \in Nat /\ (k + 1) * GuardGap = t + GuardGap /\ GuardGap \in Nat
  BY <1>2, Consts, FramesTime
<1>4. PICK gap \in Nat : Owes(gap)
  BY DEF GapOwed
<1>5. gap <= due + GuardGap /\ t + gap >= due
  BY <1>4 DEF Owes
<1>6. VirtualTs(r, n) = TsAdd(TsAdd(TsAdd(b, t), gap), p)
  <2>1. /\ r \in RewriteState /\ r.origin_base_seq = OrigSeq(n) /\ r.origin_base_ts = OrigTs(n)
        /\ r.virtual_base_ts = TsAdd(s.virtual_base_ts, p)
    <3>1. r \in RewriteState
      BY <1>1, RebasedState
    <3> QED
      BY <1>1, <3>1, RebasedOrigin
  <2> HIDE DEF r
  <2>2. VirtualTs(r, n) = r.virtual_base_ts
    BY <2>1, VirtualOfOrigin
  <2>3. s.virtual_base_ts = TsAdd(s.last_virtual_ts, gap)
    BY <1>4 DEF Owes
  <2>4. s.last_virtual_ts = TsAdd(b, t)
    BY DEF SilenceAfter
  <2> QED
    BY <2>1, <2>2, <2>3, <2>4
<1>7. (t + GuardGap) + (due + p) < TsMod
  BY <1>2, <1>3
<1> HIDE DEF r, p, b, k, t
<1>8. (t + gap) + p < TsMod /\ (t + gap) + p >= due + p /\ t + gap \in Nat /\ (t + gap) + p \in Nat
  BY <1>1, <1>2, <1>3, <1>5, <1>7, Consts
<1>9. TsAdd(TsAdd(b, t), gap) = TsAdd(b, t + gap)
  BY <1>2, <1>3, TsChain
<1>10. TsAdd(TsAdd(b, t + gap), p) = TsAdd(b, (t + gap) + p)
  BY <1>2, <1>8, TsChain
<1>11. TsSub(TsAdd(b, (t + gap) + p), b) = (t + gap) + p
  BY <1>2, <1>8, TsChain
<1>12. TsSub(VirtualTs(r, n), b) >= due + p
  BY <1>6, <1>8, <1>9, <1>10, <1>11
<1> QED
  BY <1>12 DEF r, b, p

\* rewrite: only the packet that opens a burst ends a pause.
LEMMA RewriteIdle ==
  ASSUME RInv, IdleInv, NEW u \in Users, NEW n \in 0..MaxSent - 1, NEW key \in BOOLEAN,
         rewrite(u, n, key)
  PROVE  IdleInv'
<1> DEFINE L == Len(out)
           r == Rebased(s, n)
<1>0. TypeOK /\ ClearedIsIdle /\ SilenceAfter /\ GapOwed /\ PausesShow
  BY DEF RInv, IdleInv
<1>1. /\ Len(out') = L + 1 /\ \A i \in 1..L : out'[i] = out[i]
      /\ out'[L + 1].ts = VirtualTs(r, n) /\ out'[L + 1].user = u
      /\ out'[L + 1].first = s.awaiting_first_packet
      /\ out'[L + 1].due = IF s.awaiting_first_packet THEN due + PendingTs(s) ELSE 0
  BY <1>0, RewrittenOut
<1>2. /\ s'.awaiting_first_packet = FALSE /\ s'.last_virtual_ts = VirtualTs(r, n)
      /\ s'.cleared_at = r.cleared_at /\ VirtualTs(r, n) \in 0..TsMod - 1
  BY <1>0, RewrittenState
<1>3. /\ require_keyframe' = require_keyframe /\ s.speaker = u /\ u # NoOne
      /\ n \in Nat /\ L \in Nat
  BY <1>0, OutFields, Consts, RewriterAssumption DEF rewrite
<1>4. r.cleared_at = Never
  <2>1. s \in RewriteState /\ require_keyframe \in BOOLEAN
    BY <1>0 DEF TypeOK
  <2>2. r.cleared_at = s.cleared_at
    BY <1>3, <2>1, RebasedState
  <2> QED
    BY <1>0, <1>3, <2>2 DEF ClearedIsIdle
<1>5. ClearedIsIdle' /\ GapOwed'
  BY <1>2, <1>4 DEF ClearedIsIdle, GapOwed
<1> HIDE DEF L, r
<1>6. SilenceAfter'
  <2>1. ASSUME NEW i \in 1..L + 1, LastVoice(i)' PROVE i = L + 1
    <3>1. CASE i \in 1..L
      <4>1. L + 1 \in i + 1..Len(out')
        BY <1>1, <1>3, <3>1
      <4> QED
        BY <1>1, <1>3, <2>1, <4>1 DEF LastVoice, Voice
    <3> QED
      BY <1>3, <3>1
  <2>2. VirtualTs(r, n) = TsAdd(out'[L + 1].ts, ((L + 1) - (L + 1)) * GuardGap)
    <3>1. (L + 1) - (L + 1) = 0 /\ GuardGap \in Nat
      BY <1>3, Consts
    <3>2. 0 * GuardGap = 0
      BY <3>1
    <3> QED
      BY <1>1, <1>2, <3>1, <3>2, TsChain
  <2> QED
    BY <1>1, <1>2, <1>4, <2>1, <2>2 DEF SilenceAfter
<1>7. PausesShow'
  <2>1. ASSUME NEW i \in 1..L + 1, NEW j \in 1..L + 1, Pause(i, j)', Fits(i, j)'
        PROVE  TsSub(out'[j].ts, out'[i].ts) >= out'[j].due
    <3>1. i < j /\ i \in 1..L /\ out'[i] = out[i]
      BY <1>1, <1>3, <2>1 DEF Pause
    <3>2. CASE j \in 1..L
      <4>1. out'[j] = out[j] /\ \A k \in i + 1..j - 1 : out'[k] = out[k]
        BY <1>1, <1>3, <3>1, <3>2
      <4>2. Pause(i, j) /\ Fits(i, j)
        BY <1>3, <2>1, <3>1, <4>1 DEF Pause, Fits, LooksUnused, Voice
      <4> QED
        BY <1>0, <3>1, <3>2, <4>1, <4>2 DEF PausesShow, L
    <3>3. CASE j = L + 1
      <4>1. s.awaiting_first_packet /\ out'[j].due = due + PendingTs(s)
        BY <1>1, <2>1, <3>3 DEF Pause
      <4>2. \A k \in i + 1..L : k \in i + 1..j - 1 /\ out'[k] = out[k]
        BY <1>1, <1>3, <3>1, <3>3
      <4>3. LastVoice(i)
        BY <2>1, <3>1, <4>2 DEF Pause, LastVoice, Voice, L
      <4>4. ~LooksUnused(i)
        BY <1>3, <2>1, <3>1 DEF Fits, LooksUnused
      <4>5. ((L + 1) - i) * GuardGap + (due + PendingTs(s)) < TsMod
        BY <2>1, <3>3, <4>1 DEF Fits
      <4>6. TsSub(VirtualTs(r, n), out[i].ts) >= due + PendingTs(s)
        BY <1>0, <1>3, <3>1, <4>1, <4>3, <4>4, <4>5, FirstShows DEF L, r
      <4> QED
        BY <1>1, <3>1, <3>3, <4>1, <4>6
    <3> QED
      BY <1>3, <3>2, <3>3
  <2> QED
    BY <1>1, <2>1 DEF PausesShow
<1> QED
  BY <1>5, <1>6, <1>7 DEF IdleInv

\* Each step keeps the invariant.
LEMMA IdleStep == RInv /\ IdleInv /\ [Next]_rewriterVars => IdleInv'
<1> SUFFICES ASSUME RInv, IdleInv, [Next]_rewriterVars PROVE IdleInv'
  OBVIOUS
<1>1. ASSUME NEW u \in Users, switch_speaker(u) PROVE IdleInv'
  BY <1>1, SwitchIdle
<1>2. ASSUME clear_speaker PROVE IdleInv'
  BY <1>2, ClearIdle
<1>3. ASSUME NEW u \in Users, NEW n \in 0..MaxSent - 1, NEW key \in BOOLEAN,
             rewrite(u, n, key)
      PROVE  IdleInv'
  BY <1>3, RewriteIdle
<1>4. ASSUME Tick PROVE IdleInv'
  <2>1. out' = out /\ due' = due /\ require_keyframe' = require_keyframe /\ TypeOK
    BY <1>4 DEF Tick, RInv
  <2> QED
    BY <1>4, <2>1, TickedState, IdleSame
<1>5. CASE UNCHANGED rewriterVars
  <2>1. out' = out /\ due' = due /\ require_keyframe' = require_keyframe /\ s' = s
    BY <1>5 DEF rewriterVars
  <2> QED
    BY <2>1, IdleSame
<1> QED
  BY <1>1, <1>2, <1>3, <1>4, <1>5 DEF Next

\* The invariant holds at first.
LEMMA IdleInit == Init => IdleInv
<1> SUFFICES ASSUME Init PROVE IdleInv
  OBVIOUS
<1>1. Len(out) = 0 /\ s.cleared_at = Never /\ s.awaiting_first_packet = FALSE
  BY DEF Init
<1> QED
  BY <1>1 DEF IdleInv, ClearedIsIdle, SilenceAfter, GapOwed, PausesShow

\* For every modulus, guard gap, number of silence frames and length of the pauses: as long
\* as a pause is shorter than the timestamps' range and clear_speaker does not take the stream
\* for an unused one, the virtual timestamps leave room for the idle time before a switch and
\* for the wait for the first packet after it.
THEOREM IdleTimeShows == Spec => [](PausesFit => IdleTimeInTs)
<1>1. ASSUME IdleInv, PausesFit PROVE IdleTimeInTs
  <2>1. ASSUME NEW i \in 1..Len(out), NEW j \in 1..Len(out), i < j, Voice(i), out[j].first,
               \A k \in i + 1..j - 1 : ~Voice(k)
        PROVE  TsSub(out[j].ts, out[i].ts) >= out[j].due
    <3>1. Pause(i, j)
      BY <2>1 DEF Pause
    <3> QED
      BY <1>1, <3>1 DEF IdleInv, PausesShow, PausesFit
  <2> QED
    BY <2>1 DEF IdleTimeInTs
<1>2. IdleInv => (PausesFit => IdleTimeInTs)
  BY <1>1
<1> QED
  BY <1>2, RewriterInvariant, IdleInit, IdleStep, PTL DEF Spec
=============================================================================
