-------------------------------- MODULE Twcc --------------------------------
(***************************************************************************)
(* The transport-wide feedback of src/transport/udp/twcc.rs: TwccRecorder, *)
(* a ring of arrival times, and build_twcc_feedback, which every 100 ms    *)
(* tells the publisher which of its packets arrived, and when.             *)
(*                                                                         *)
(* The publisher's packets are numbered 0, 1, 2, ...; packet n has the     *)
(* u16 transport-wide number NumOf(n). Time is in units of the recv deltas *)
(* (250 us) and passes from one arrival to the next. The truth a feedback  *)
(* is compared with is in `due', which the code does not have.             *)
(***************************************************************************)
EXTENDS Integers, Sequences, FiniteSets

CONSTANTS
  NumMod,        \* 2^16
  Capacity,      \* TWCC_RECORDER_CAPACITY
  StepBack,      \* the 100 of the overflow guard
  PerChunk,      \* symbols of a status chunk: 7
  RefUnit,       \* units of the reference time: 256
  SmallMax,      \* the largest small delta: 255
  LargeMax,      \* the largest large delta: 8191
  FirstNum,      \* the number of packet 0
  Pauses,        \* how much time passes between arrivals
  MaxPackets,    \* bound: packets
  MaxMissing,    \* bound: packets lost
  MaxPending,    \* the packets sent since the last feedback
  MaxBehind      \* how far a packet is overtaken

ASSUME TwccAssumption ==
  /\ NumMod \in Nat \ {0} /\ Capacity \in 1 .. NumMod - 1 /\ NumMod % Capacity = 0
  /\ StepBack \in 0 .. Capacity - 1
  /\ PerChunk \in Nat \ {0} /\ RefUnit \in Nat \ {0}
  /\ SmallMax = RefUnit - 1 /\ LargeMax \in Nat /\ SmallMax < LargeMax
  /\ FirstNum \in 0 .. NumMod - 1 /\ Pauses \subseteq Nat
  /\ MaxPackets \in Nat /\ MaxMissing \in Nat

\* The timer keeps up: what a client sends in the meantime is less than half of the
\* numbers. And no packet is late by as many as the ring holds.
ASSUME TwccNetwork ==
  MaxPending \in 1 .. (NumMod \div 2) - 1 /\ MaxBehind \in 0 .. Capacity - 1

VARIABLES
  rec,       \* the TwccRecorder: started, pending_base_seq, max_seq, the ring
  now,       \* time since the first arrival
  tsent,     \* packets sent
  tflight,   \* packets on their way
  tlost,     \* the packets lost
  due        \* the packet of pending_base_seq, the newest packet that arrived, and the
             \* arrival times of the packets from the former on

twccVars == <<rec, now, tsent, tflight, tlost, due>>

NumOf(n) == (FirstNum + n) % NumMod

-----------------------------------------------------------------------------
(* TwccRecorder *)

NoEntry == [num |-> -1, at |-> 0]

NewRecorder ==
  [started |-> FALSE, base |-> 0, max |-> 0, ring |-> [i \in 0 .. Capacity - 1 |-> NoEntry]]

\* diff > 0 && diff < 0x8000
Newer(a, b) == LET diff == (a - b) % NumMod IN 0 < diff /\ diff < NumMod \div 2

record(r, num, t) ==
  LET stored == [r EXCEPT !.ring[num % Capacity] = [num |-> num, at |-> t]]
  IN  IF ~r.started THEN [stored EXCEPT !.started = TRUE, !.base = num, !.max = num]
      ELSE [stored EXCEPT !.max = IF Newer(num, @) THEN num ELSE @]

Holds_mut_unchecked(r, num) == r.ring[num % Capacity] # NoEntry

\* get: the slot has an entry, and it is of this number.
Holds(r, num) == r.ring[num % Capacity].num = num

pending_count(r) == IF r.started THEN (r.max - r.base + 1) % NumMod ELSE 0

-----------------------------------------------------------------------------
(* build_twcc_feedback *)

\* The pending numbers that arrived, as offsets to the base.
Arrived(r) == {i \in 0 .. pending_count(r) - 1 : Holds(r, (r.base + i) % NumMod)}

ArrivalAt(r, i) == r.ring[((r.base + i) % NumMod) % Capacity].at

\* The last one before i that arrived, i itself if there is none.
Previous(r, i) ==
  LET before == {j \in Arrived(r) : j < i}
  IN  IF before = {} THEN i ELSE CHOOSE j \in before : \A k \in before : k <= j

\* The first delta is relative to the reference time.
Delta(r, i) ==
  IF Previous(r, i) = i THEN ArrivalAt(r, i) % RefUnit
  ELSE ArrivalAt(r, i) - ArrivalAt(r, Previous(r, i))

\* 0 not received, 1 small, 2 large or negative.
StatusOf(r, i) ==
  IF i \notin Arrived(r) THEN 0 ELSE IF Delta(r, i) \in 0 .. SmallMax THEN 1 ELSE 2

Clamp(d) == IF d < -LargeMax - 1 THEN -LargeMax - 1 ELSE IF d > LargeMax THEN LargeMax ELSE d

ChunkCount(count) == (count + PerChunk - 1) \div PerChunk

\* A status vector chunk is its symbols; the last one is filled up with 0.
encode_status_chunks(statuses) ==
  [c \in 1 .. ChunkCount(Len(statuses)) |->
     [k \in 1 .. PerChunk |->
        LET i == (c - 1) * PerChunk + k IN IF i <= Len(statuses) THEN statuses[i] ELSE 0]]

\* In the order of the numbers, one delta for each that arrived.
encode_recv_deltas(r) ==
  LET a     == Arrived(r)
      nth(k) == CHOOSE i \in a : Cardinality({j \in a : j < i}) = k - 1
  IN  [k \in 1 .. Cardinality(a) |-> Clamp(Delta(r, nth(k)))]

Feedback(r) ==
  [base   |-> r.base,
   count  |-> pending_count(r),
   ref    |-> ArrivalAt(r, CHOOSE i \in Arrived(r) : \A j \in Arrived(r) : i <= j) \div RefUnit,
   chunks |-> encode_status_chunks([i \in 1 .. pending_count(r) |-> StatusOf(r, i - 1)]),
   deltas |-> encode_recv_deltas(r)]

Overflows(r) == pending_count(r) > Capacity

\* A feedback is built (else the function returns None).
Builds(r) == r.started /\ pending_count(r) > 0 /\ ~Overflows(r) /\ Arrived(r) # {}

\* pending_base_seq after a feedback.
Advanced(r) == (r.base + pending_count(r)) % NumMod

\* pending_base_seq after the overflow guard.
SteppedBack(r) == (r.max - StepBack) % NumMod

-----------------------------------------------------------------------------
(* The stream *)

TwccInit ==
  /\ rec = NewRecorder /\ now = 0
  /\ tsent = 0 /\ tflight = {} /\ tlost = {}
  /\ due = [base |-> 0, top |-> -1, at |-> <<>>]

TwccSend ==
  /\ tsent < MaxPackets /\ Cardinality(tflight) <= MaxBehind
  /\ tsent - due.base < MaxPending
  /\ tflight' = tflight \cup {tsent} /\ tsent' = tsent + 1
  /\ UNCHANGED <<rec, now, tlost, due>>

\* How many numbers share a slot of the ring.
Laps == NumMod \div Capacity

\* All but one of the numbers that share a slot are lost, one lap after the other:
\* the entry before them may be taken for the packet a whole round later, which
\* has its number.
SlotMissed(missing) ==
  \E m \in missing : \A k \in 0 .. Laps - 2 : m + k * Capacity \in missing

TwccLose(n) ==
  /\ n \in tflight /\ Cardinality(tlost) < MaxMissing
  /\ ~SlotMissed(tlost \cup {n})
  /\ tflight' = tflight \ {n} /\ tlost' = tlost \cup {n}
  /\ UNCHANGED <<rec, now, tsent, due>>

\* due.at[k]: when packet due.base + k - 1 arrived, -1 if it did not.
DueAfter(n, t) ==
  LET base == IF rec.started THEN due.base ELSE n
      top  == IF n > due.top THEN n ELSE due.top
  IN  [base |-> base, top |-> top,
       at   |-> [k \in 1 .. top - base + 1 |->
                   IF base + k - 1 = n THEN t ELSE IF k <= Len(due.at) THEN due.at[k] ELSE -1]]

\* collect_rtp_stats
TwccPacket(n, pause) ==
  LET t == IF rec.started THEN now + pause ELSE 0
  IN  /\ n \in tflight
      /\ \A m \in tflight : n - m <= MaxBehind
      /\ tflight' = tflight \ {n}
      /\ now' = t
      /\ rec' = record(rec, NumOf(n), t)
      /\ due' = DueAfter(n, t)
      /\ UNCHANGED <<tsent, tlost>>

\* The truth from packet b on.
DueFrom(b) == [due EXCEPT !.base = b, !.at = SubSeq(@, b - due.base + 1, Len(@))]

\* send_twcc_to_publishers
TwccTimer ==
  /\ \/ /\ Builds(rec)
        /\ rec' = [rec EXCEPT !.base = Advanced(rec)]
        /\ due' = DueFrom(due.top + 1)
     \/ /\ rec.started /\ Overflows(rec)
        /\ rec' = [rec EXCEPT !.base = SteppedBack(rec)]
        /\ due' = DueFrom(due.top - StepBack)
  /\ UNCHANGED <<now, tsent, tflight, tlost>>

TwccNext ==
  \/ TwccSend \/ TwccTimer
  \/ \E n \in tflight : TwccLose(n) \/ \E p \in Pauses : TwccPacket(n, p)

TwccSpec == TwccInit /\ [][TwccNext]_twccVars

-----------------------------------------------------------------------------
(* Properties *)

\* The state has its types and widths.
TwccTypeOK ==
  /\ rec.started \in BOOLEAN
  /\ rec.base \in 0 .. NumMod - 1 /\ rec.max \in 0 .. NumMod - 1
  /\ \A i \in 0 .. Capacity - 1 : rec.ring[i] = NoEntry \/ rec.ring[i].num % Capacity = i
  /\ tsent \in 0 .. MaxPackets /\ tflight \subseteq 0 .. tsent - 1
  /\ tlost \subseteq 0 .. tsent - 1 /\ now \in Nat

\* What the publisher makes of symbol k of a feedback.
SymbolOf(fb, k) == fb.chunks[((k - 1) \div PerChunk) + 1][((k - 1) % PerChunk) + 1]

\* The symbols of packets that arrived.
Received(fb) == {k \in 1 .. fb.count : SymbolOf(fb, k) # 0}

\* The delta of such a symbol.
DeltaOf(fb, k) == fb.deltas[Cardinality({j \in Received(fb) : j <= k})]

\* What it is added to: the arrival of the packet before it, at first the reference time.
TimeBefore(fb, k) ==
  LET before == {j \in Received(fb) : j < k}
  IN  IF before = {} THEN fb.ref * RefUnit
      ELSE due.at[CHOOSE j \in before : \A i \in before : i <= j]

\* No pause is so long that a delta is clamped.
InRange == \A i \in Arrived(rec) : Clamp(Delta(rec, i)) = Delta(rec, i)

\* What is pending is known: it begins where the last feedback ended, ends with the
\* newest packet, and unless there is more of it than the ring holds, the ring knows
\* exactly which packets of it have arrived. And the feedback that can be built now is
\* true: the publisher reads from it, for every packet, whether it has arrived and, going
\* from one delta to the next, when. An entry of the ring that is left from an
\* earlier lap or round of the numbers does not get in, nor does the order of arrival
\* matter, nor the wrap of the numbers.
FeedbackTrue ==
  rec.started =>
    /\ rec.base = NumOf(due.base) /\ pending_count(rec) = Len(due.at)
    /\ ~Overflows(rec) => \A k \in 1 .. Len(due.at) : due.at[k] # -1 <=> k - 1 \in Arrived(rec)
    /\ Builds(rec) =>
         LET fb == Feedback(rec)
         IN  /\ Received(fb) = {k \in 1 .. fb.count : due.at[k] # -1}
             /\ Len(fb.deltas) = Cardinality(Received(fb))
             /\ InRange =>
                  \A k \in Received(fb) : due.at[k] = TimeBefore(fb, k) + DeltaOf(fb, k)
=============================================================================
