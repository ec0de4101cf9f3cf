--------------------------- MODULE PttRoomProofs ----------------------------
(***************************************************************************)
(* Proofs about PttRoom, for any users, priorities, limits and clock lags, *)
(* and any number of handlers that overlap. What the floor does is taken   *)
(* from FloorControlProofs.                                                *)
(***************************************************************************)
EXTENDS PttRoom, SequenceTheorems, TLAPS

-----------------------------------------------------------------------------
(* The floor *)

FP == INSTANCE FloorControlProofs

\* The constants are ones FloorControl is meant for.
LEMMA FloorConstants == FP!FloorAssumption
BY RoomAssumption DEF FP!FloorAssumption

\* The room's floor is the one the theorems of FloorControlProofs are about.
LEMMA SameTerms ==
  /\ Floor!IsTaken <=> FP!IsTaken
  /\ Floor!Lags = FP!Lags /\ Floor!Idle = FP!Idle
  /\ Floor!BurstCap = FP!BurstCap /\ Floor!PingCap = FP!PingCap /\ Floor!QueueCap = FP!QueueCap
  /\ \A n, c : Floor!Capped(n, c) = FP!Capped(n, c)
  /\ \A t, u : Floor!Result(t, u) = FP!Result(t, u)
  /\ \A u, p, lag : Floor!Taken(u, p, lag) = FP!Taken(u, p, lag)
  /\ \A q, u : Floor!IsQueued(q, u) <=> FP!IsQueued(q, u)
  /\ \A q : Floor!IsFull(q) <=> FP!IsFull(q)
  /\ \A p : Floor!MayPreempt(p) <=> FP!MayPreempt(p)
  /\ \A lag : Floor!BurstExpired(lag) <=> FP!BurstExpired(lag)
  /\ \A lag : Floor!PingExpired(lag) <=> FP!PingExpired(lag)
BY DEF Floor!IsTaken, FP!IsTaken, Floor!Lags, FP!Lags, Floor!Idle, FP!Idle,
  Floor!BurstCap, FP!BurstCap, Floor!PingCap, FP!PingCap, Floor!QueueCap, FP!QueueCap,
  Floor!Capped, FP!Capped, Floor!Result, FP!Result, Floor!Taken, FP!Taken,
  Floor!IsQueued, FP!IsQueued, Floor!IsFull, FP!IsFull, Floor!MayPreempt, FP!MayPreempt,
  Floor!BurstExpired, FP!BurstExpired, Floor!PingExpired, FP!PingExpired

\* So are the operations on its queue.
LEMMA SameQueues ==
  /\ \A q, u : Floor!Retain(q, u) = FP!Retain(q, u)
  /\ \A q, e : Floor!PushSorted(q, e) = FP!PushSorted(q, e)
<1>1. ASSUME NEW q, NEW u PROVE Floor!Retain(q, u) = FP!Retain(q, u)
  BY DEF Floor!Retain, FP!Retain, Floor!RemoveFirstMatch, FP!RemoveFirstMatch,
    Floor!SelectInSeq, FP!SelectInSeq, Floor!RemoveAt, FP!RemoveAt, Floor!Min, FP!Min
<1>2. ASSUME NEW q, NEW e PROVE Floor!PushSorted(q, e) = FP!PushSorted(q, e)
  BY DEF Floor!PushSorted, FP!PushSorted, Floor!InsertAt, FP!InsertAt,
    Floor!InsertPos, FP!InsertPos, Floor!Before, FP!Before
<1> QED
  BY <1>1, <1>2

\* Each operation of the room's floor is that operation of FloorControlProofs.
LEMMA SameOperations ==
  /\ Floor!Init => FP!Init
  /\ \A u, p, lag : Floor!request(u, p, lag) => FP!request(u, p, lag)
  /\ \A u : Floor!release(u) => FP!release(u)
  /\ \A u, lag : Floor!ping(u, lag) => FP!ping(u, lag)
  /\ \A lag : Floor!check_timers(lag) => FP!check_timers(lag)
  /\ \A u : Floor!on_participant_leave(u) => FP!on_participant_leave(u)
  /\ Floor!Tick => FP!Tick
<1>1. Floor!Init => FP!Init
  BY SameTerms DEF Floor!Init, FP!Init
<1>2. ASSUME NEW u, NEW p, NEW lag, Floor!request(u, p, lag) PROVE FP!request(u, p, lag)
  <2>1. Floor!RequestIdle(u, p, lag) => FP!RequestIdle(u, p, lag)
    BY SameTerms DEF Floor!RequestIdle, FP!RequestIdle
  <2>2. Floor!RequestAgain(u) => FP!RequestAgain(u)
    BY SameTerms DEF Floor!RequestAgain, FP!RequestAgain
  <2>3. Floor!RequestPreempt(u, p, lag) => FP!RequestPreempt(u, p, lag)
    BY SameTerms DEF Floor!RequestPreempt, FP!RequestPreempt
  <2>4. Floor!RequestWait(u, p, lag) => FP!RequestWait(u, p, lag)
    BY SameTerms, SameQueues DEF Floor!RequestWait, FP!RequestWait
  <2> QED
    BY <1>2, <2>1, <2>2, <2>3, <2>4 DEF Floor!request, FP!request
<1>3. ASSUME NEW u, NEW q, NEW r, Floor!Vacate(u, q, r) PROVE FP!Vacate(u, q, r)
  BY <1>3, SameTerms DEF Floor!Vacate, FP!Vacate
<1>4. ASSUME NEW u, Floor!release(u) PROVE FP!release(u)
  BY <1>3, <1>4, SameTerms, SameQueues DEF Floor!release, FP!release
<1>5. ASSUME NEW u, NEW lag, Floor!ping(u, lag) PROVE FP!ping(u, lag)
  BY <1>5, SameTerms DEF Floor!ping, FP!ping
<1>6. ASSUME NEW lag, Floor!check_timers(lag) PROVE FP!check_timers(lag)
  BY <1>3, <1>6, SameTerms DEF Floor!check_timers, FP!check_timers
<1>7. ASSUME NEW u, Floor!on_participant_leave(u) PROVE FP!on_participant_leave(u)
  BY <1>3, <1>7, SameTerms, SameQueues DEF Floor!on_participant_leave, FP!on_participant_leave
<1>8. Floor!Tick => FP!Tick
  BY SameTerms DEF Floor!Tick, FP!Tick
<1> QED
  BY <1>1, <1>2, <1>4, <1>5, <1>6, <1>7, <1>8

\* An action of the room's floor is a step of the controller.
LEMMA FloorSteps ==
  ASSUME FP!IInv,
         \/ \E u \in Users, p \in Priorities, lag \in Floor!Lags : Floor!request(u, p, lag)
         \/ \E u \in Users : Floor!release(u)
         \/ \E u \in Users, lag \in Floor!Lags : Floor!ping(u, lag)
         \/ \E lag \in Floor!Lags : Floor!check_timers(lag)
         \/ \E u \in Users : Floor!on_participant_leave(u)
         \/ Floor!Tick
         \/ UNCHANGED floorVars
  PROVE  FP!IInv'
<1>1. FP!Next \/ UNCHANGED FP!floorVars
  BY SameOperations, SameTerms DEF FP!Next, FP!floorVars, floorVars
<1> QED
  BY <1>1, FP!InvStep, FloorConstants

\* The controller's invariant holds the room's floor to its types.
LEMMA FloorTypes == FP!IInv => Floor!TypeOK
<1>1. FP!IInv => FP!TypeOK
  BY FP!IInvMeaning, FloorConstants
<1>2. FP!TypeOK => Floor!TypeOK
  BY SameTerms DEF FP!TypeOK, Floor!TypeOK, FP!FloorState, Floor!FloorState,
    FP!QueueEntry, Floor!QueueEntry, FP!FloorAction, Floor!FloorAction,
    FP!ActionTypes, Floor!ActionTypes
<1> QED
  BY <1>1, <1>2

-----------------------------------------------------------------------------
(* The sequences of effects *)

\* What the handlers queue: an operation and the user it is about.
EffectRec == [op: Effects, user: Users \cup {NoOne}]

\* Nothing flattens to nothing.
LEMMA FlattenNone == FlattenSeq(<<>>) = <<>>
BY DEF FlattenSeq

\* One sequence alone stays as it is.
LEMMA FlattenOne ==
  ASSUME NEW a
  PROVE  FlattenSeq(<<a>>) = a
<1> DEFINE s == <<a>>
           P(f) == f = [i \in 1..Len(s) |-> IF i = 1 THEN s[i] ELSE f[i-1] \o s[i]]
           g == [i \in 1..1 |-> a]
           h == CHOOSE f : P(f)
<1>1. Len(s) = 1 /\ s[1] = a
  OBVIOUS
<1>2. P(g)
  BY <1>1
<1>3. P(h)
  BY <1>2
<1>4. FlattenSeq(s) = h[Len(s)]
  <2>1. Len(s) # 0
    BY <1>1
  <2> QED
    BY <2>1 DEF FlattenSeq
<1> HIDE DEF h
<1>5. h[1] = a
  <2>1. h = [i \in 1..Len(s) |-> IF i = 1 THEN s[i] ELSE h[i-1] \o s[i]]
    BY <1>3
  <2> HIDE DEF s
  <2> QED
    BY <1>1, <2>1
<1> QED
  BY <1>1, <1>4, <1>5

\* Two sequences are joined.
LEMMA FlattenTwo ==
  ASSUME NEW a, NEW b
  PROVE  FlattenSeq(<<a, b>>) = a \o b
<1> DEFINE s == <<a, b>>
           P(f) == f = [i \in 1..Len(s) |-> IF i = 1 THEN s[i] ELSE f[i-1] \o s[i]]
           g == [i \in 1..2 |-> IF i = 1 THEN a ELSE a \o b]
           h == CHOOSE f : P(f)
<1>1. Len(s) = 2 /\ s[1] = a /\ s[2] = b
  OBVIOUS
<1>2. P(g)
  BY <1>1
<1>3. P(h)
  BY <1>2
<1>4. FlattenSeq(s) = h[Len(s)]
  <2>1. Len(s) # 0
    BY <1>1
  <2> QED
    BY <2>1 DEF FlattenSeq
<1> HIDE DEF h
<1>5. h[2] = a \o b
  <2>1. h = [i \in 1..Len(s) |-> IF i = 1 THEN s[i] ELSE h[i-1] \o s[i]]
    BY <1>3
  <2> HIDE DEF s
  <2>2. h[1] = a
    BY <1>1, <2>1
  <2>3. 2 - 1 = 1 /\ 2 \in 1..Len(s) /\ 2 # 1
    BY <1>1
  <2>4. h[2] = IF 2 = 1 THEN s[2] ELSE h[2-1] \o s[2]
    BY <2>1, <2>3, Zenon
  <2>5. h[2] = h[1] \o s[2]
    BY <2>3, <2>4, Zenon
  <2> QED
    BY <1>1, <2>2, <2>5, Zenon
<1> QED
  BY <1>1, <1>4, <1>5

\* What each kind of handler makes of the actions of one call.
LEMMA EffectsOfActions ==
  ASSUME NEW a, NEW b
  PROVE  /\ AllEffects(WsRequestEffects, <<a>>) = WsRequestEffects(a)
         /\ AllEffects(WsRequestEffects, <<a, b>>) = WsRequestEffects(a) \o WsRequestEffects(b)
         /\ AllEffects(MbcpEffects, <<>>) = <<>>
         /\ AllEffects(MbcpEffects, <<a>>) = MbcpEffects(a)
         /\ AllEffects(MbcpEffects, <<a, b>>) = MbcpEffects(a) \o MbcpEffects(b)
         /\ AllEffects(ApplyEffects, <<>>) = <<>>
         /\ AllEffects(ApplyEffects, <<a>>) = ApplyEffects(a)
         /\ AllEffects(ApplyEffects, <<a, b>>) = ApplyEffects(a) \o ApplyEffects(b)
         /\ AllEffects(TimerEffects, <<>>) = <<>>
         /\ AllEffects(TimerEffects, <<a>>) = TimerEffects(a)
         /\ AllEffects(TimerEffects, <<a, b>>) = TimerEffects(a) \o TimerEffects(b)
<1>1. /\ AllEffects(WsRequestEffects, <<a>>) = WsRequestEffects(a)
      /\ AllEffects(WsRequestEffects, <<a, b>>) = WsRequestEffects(a) \o WsRequestEffects(b)
  <2>1. [i \in 1..Len(<<a>>) |-> WsRequestEffects(<<a>>[i])] = <<WsRequestEffects(a)>>
    OBVIOUS
  <2>2. [i \in 1..Len(<<a, b>>) |-> WsRequestEffects(<<a, b>>[i])] = <<WsRequestEffects(a), WsRequestEffects(b)>>
    OBVIOUS
  <2>4. AllEffects(WsRequestEffects, <<a>>) = FlattenSeq(<<WsRequestEffects(a)>>)
    BY <2>1, Zenon DEF AllEffects
  <2>5. AllEffects(WsRequestEffects, <<a, b>>) = FlattenSeq(<<WsRequestEffects(a), WsRequestEffects(b)>>)
    BY <2>2, Zenon DEF AllEffects
  <2> QED
    BY <2>4, <2>5, FlattenOne, FlattenTwo
<1>2. /\ AllEffects(MbcpEffects, <<a>>) = MbcpEffects(a)
      /\ AllEffects(MbcpEffects, <<a, b>>) = MbcpEffects(a) \o MbcpEffects(b)
      /\ AllEffects(MbcpEffects, <<>>) = <<>>
  <2>1. [i \in 1..Len(<<a>>) |-> MbcpEffects(<<a>>[i])] = <<MbcpEffects(a)>>
    OBVIOUS
  <2>2. [i \in 1..Len(<<a, b>>) |-> MbcpEffects(<<a, b>>[i])] = <<MbcpEffects(a), MbcpEffects(b)>>
    OBVIOUS
  <2>3. [i \in 1..Len(<<>>) |-> MbcpEffects(<<>>[i])] = <<>>
    OBVIOUS
  <2>4. AllEffects(MbcpEffects, <<a>>) = FlattenSeq(<<MbcpEffects(a)>>)
    BY <2>1, Zenon DEF AllEffects
  <2>5. AllEffects(MbcpEffects, <<a, b>>) = FlattenSeq(<<MbcpEffects(a), MbcpEffects(b)>>)
    BY <2>2, Zenon DEF AllEffects
  <2>6. AllEffects(MbcpEffects, <<>>) = FlattenSeq(<<>>)
    BY <2>3, Zenon DEF AllEffects
  <2> QED
    BY <2>4, <2>5, <2>6, FlattenNone, FlattenOne, FlattenTwo
<1>3. /\ AllEffects(ApplyEffects, <<a>>) = ApplyEffects(a)
      /\ AllEffects(ApplyEffects, <<a, b>>) = ApplyEffects(a) \o ApplyEffects(b)
      /\ AllEffects(ApplyEffects, <<>>) = <<>>
  <2>1. [i \in 1..Len(<<a>>) |-> ApplyEffects(<<a>>[i])] = <<ApplyEffects(a)>>
    OBVIOUS
  <2>2. [i \in 1..Len(<<a, b>>) |-> ApplyEffects(<<a, b>>[i])] = <<ApplyEffects(a), ApplyEffects(b)>>
    OBVIOUS
  <2>3. [i \in 1..Len(<<>>) |-> ApplyEffects(<<>>[i])] = <<>>
    OBVIOUS
  <2>4. AllEffects(ApplyEffects, <<a>>) = FlattenSeq(<<ApplyEffects(a)>>)
    BY <2>1, Zenon DEF AllEffects
  <2>5. AllEffects(ApplyEffects, <<a, b>>) = FlattenSeq(<<ApplyEffects(a), ApplyEffects(b)>>)
    BY <2>2, Zenon DEF AllEffects
  <2>6. AllEffects(ApplyEffects, <<>>) = FlattenSeq(<<>>)
    BY <2>3, Zenon DEF AllEffects
  <2> QED
    BY <2>4, <2>5, <2>6, FlattenNone, FlattenOne, FlattenTwo
<1>4. /\ AllEffects(TimerEffects, <<a>>) = TimerEffects(a)
      /\ AllEffects(TimerEffects, <<a, b>>) = TimerEffects(a) \o TimerEffects(b)
      /\ AllEffects(TimerEffects, <<>>) = <<>>
  <2>1. [i \in 1..Len(<<a>>) |-> TimerEffects(<<a>>[i])] = <<TimerEffects(a)>>
    OBVIOUS
  <2>2. [i \in 1..Len(<<a, b>>) |-> TimerEffects(<<a, b>>[i])] = <<TimerEffects(a), TimerEffects(b)>>
    OBVIOUS
  <2>3. [i \in 1..Len(<<>>) |-> TimerEffects(<<>>[i])] = <<>>
    OBVIOUS
  <2>4. AllEffects(TimerEffects, <<a>>) = FlattenSeq(<<TimerEffects(a)>>)
    BY <2>1, Zenon DEF AllEffects
  <2>5. AllEffects(TimerEffects, <<a, b>>) = FlattenSeq(<<TimerEffects(a), TimerEffects(b)>>)
    BY <2>2, Zenon DEF AllEffects
  <2>6. AllEffects(TimerEffects, <<>>) = FlattenSeq(<<>>)
    BY <2>3, Zenon DEF AllEffects
  <2> QED
    BY <2>4, <2>5, <2>6, FlattenNone, FlattenOne, FlattenTwo
<1> QED
  BY <1>1, <1>2, <1>3, <1>4

-----------------------------------------------------------------------------
(* What a sequence of effects leaves behind *)

\* What an effect writes: {} is nothing. The rewriters' speakers, and what the
\* client of u is told while sp has the floor. An effect that takes u out of
\* the room counts as telling it the truth: no client is left to be wrong.
AudioOf == [e \in EffectRec |->
  IF e.op = "switch_audio" THEN {e.user}
  ELSE IF e.op = "clear_audio" THEN {NoOne} ELSE {}]

VideoOf == [e \in EffectRec |->
  IF e.op = "switch_video" THEN {e.user}
  ELSE IF e.op = "clear_video" THEN {NoOne} ELSE {}]

ToldOf(u, sp) == [e \in EffectRec |->
  CASE e.op = "FLOOR_IDLE" -> {NoOne}
    [] e.op = "FLOOR_TAKEN" -> {e.user}
    [] e.op = "taken_others" -> IF e.user = u THEN {} ELSE {e.user}
    [] e.op = "granted" -> IF e.user = u THEN {u} ELSE {}
    [] e.op = "FLOOR_REVOKE" -> IF e.user = u THEN {NoOne} ELSE {}
    [] e.op \in {"sync", "remove"} -> IF e.user = u THEN {sp} ELSE {}
    [] OTHER -> {}]

\* No effect of q writes W; the last one that does writes v; either way W, now
\* old, is v when q is through.
Keeps(q, W) == \A i \in 1..Len(q) : W[q[i]] = {}

Sets(q, W, v) ==
  \E i \in 1..Len(q) : W[q[i]] = {v} /\ \A j \in (i + 1)..Len(q) : W[q[j]] = {}

Leads(q, W, old, v) == Sets(q, W, v) \/ (Keeps(q, W) /\ old = v)

\* How two sequences act one after the other.
LEMMA ConcatKeeps ==
  ASSUME NEW p \in Seq(EffectRec), NEW q \in Seq(EffectRec), NEW W, Keeps(p, W), Keeps(q, W)
  PROVE  Keeps(p \o q, W)
<1>1. /\ Len(p \o q) = Len(p) + Len(q) /\ Len(p) \in Nat /\ Len(q) \in Nat
      /\ \A i \in 1..Len(p) + Len(q) :
           (p \o q)[i] = IF i <= Len(p) THEN p[i] ELSE q[i - Len(p)]
  BY ConcatProperties
<1> DEFINE r == p \o q
<1> HIDE DEF r
<1>2. ASSUME NEW i \in 1..Len(r) PROVE W[r[i]] = {}
  <2>1. CASE i <= Len(p)
    <3>1. i \in 1..Len(p) /\ r[i] = p[i]
      BY <1>1, <1>2, <2>1 DEF r
    <3> QED
      BY <3>1 DEF Keeps
  <2>2. CASE ~(i <= Len(p))
    <3>1. i - Len(p) \in 1..Len(q) /\ r[i] = q[i - Len(p)]
      BY <1>1, <1>2, <2>2 DEF r
    <3> QED
      BY <3>1 DEF Keeps
  <2> QED
    BY <2>1, <2>2
<1> QED
  BY <1>2 DEF Keeps, r

\* The later sequence has the last word.
LEMMA ConcatSetsRight ==
  ASSUME NEW p \in Seq(EffectRec), NEW q \in Seq(EffectRec), NEW W, NEW v, Sets(q, W, v)
  PROVE  Sets(p \o q, W, v)
<1>1. /\ Len(p \o q) = Len(p) + Len(q) /\ Len(p) \in Nat /\ Len(q) \in Nat
      /\ \A i \in 1..Len(p) + Len(q) :
           (p \o q)[i] = IF i <= Len(p) THEN p[i] ELSE q[i - Len(p)]
  BY ConcatProperties
<1> DEFINE r == p \o q
<1> HIDE DEF r
<1>2. PICK i \in 1..Len(q) : W[q[i]] = {v} /\ \A j \in (i + 1)..Len(q) : W[q[j]] = {}
  BY DEF Sets
<1>3. Len(p) + i \in 1..Len(r) /\ r[Len(p) + i] = q[i]
  <2>1. Len(p) + i \in 1..Len(p) + Len(q) /\ ~(Len(p) + i <= Len(p)) /\ Len(p) + i - Len(p) = i
    BY <1>1, <1>2
  <2> QED
    BY <1>1, <2>1 DEF r
<1>4. ASSUME NEW j \in (Len(p) + i + 1)..Len(r) PROVE W[r[j]] = {}
  <2>1. j \in 1..Len(p) + Len(q) /\ ~(j <= Len(p)) /\ j - Len(p) \in (i + 1)..Len(q)
    BY <1>1, <1>2, <1>4 DEF r
  <2>2. r[j] = q[j - Len(p)]
    BY <1>1, <2>1 DEF r
  <2> QED
    BY <1>2, <2>1, <2>2
<1> QED
  BY <1>2, <1>3, <1>4 DEF Sets, r

\* The earlier one has it when the later one writes nothing.
LEMMA ConcatSetsLeft ==
  ASSUME NEW p \in Seq(EffectRec), NEW q \in Seq(EffectRec), NEW W, NEW v,
         Sets(p, W, v), Keeps(q, W)
  PROVE  Sets(p \o q, W, v)
<1>1. /\ Len(p \o q) = Len(p) + Len(q) /\ Len(p) \in Nat /\ Len(q) \in Nat
      /\ \A i \in 1..Len(p) + Len(q) :
           (p \o q)[i] = IF i <= Len(p) THEN p[i] ELSE q[i - Len(p)]
  BY ConcatProperties
<1> DEFINE r == p \o q
<1> HIDE DEF r
<1>2. PICK i \in 1..Len(p) : W[p[i]] = {v} /\ \A j \in (i + 1)..Len(p) : W[p[j]] = {}
  BY DEF Sets
<1>3. i \in 1..Len(r) /\ r[i] = p[i]
  BY <1>1, <1>2 DEF r
<1>4. ASSUME NEW j \in (i + 1)..Len(r) PROVE W[r[j]] = {}
  <2>1. CASE j <= Len(p)
    BY <1>1, <1>2, <1>4, <2>1 DEF r
  <2>2. CASE ~(j <= Len(p))
    <3>1. j - Len(p) \in 1..Len(q) /\ r[j] = q[j - Len(p)]
      BY <1>1, <1>2, <1>4, <2>2 DEF r
    <3> QED
      BY <3>1 DEF Keeps
  <2> QED
    BY <2>1, <2>2
<1> QED
  BY <1>2, <1>3, <1>4 DEF Sets, r

\* The first effect of a sequence acts and the rest still leads to v.
LEMMA LeadsOn ==
  ASSUME NEW q \in Seq(EffectRec), q # <<>>, NEW W, NEW old, NEW new, NEW v,
         Leads(q, W, old, v),
         \/ W[Head(q)] = {} /\ new = old
         \/ W[Head(q)] = {new}
  PROVE  Leads(Tail(q), W, new, v)
<1>1. /\ Len(q) \in Nat /\ Len(q) # 0 /\ Len(Tail(q)) = Len(q) - 1 /\ Head(q) = q[1]
      /\ \A i \in 1..(Len(q) - 1) : Tail(q)[i] = q[i + 1]
  BY HeadTailProperties
<1> DEFINE r == Tail(q)
<1> HIDE DEF r
<1>2. CASE Keeps(q, W) /\ old = v
  <2>1. W[q[1]] = {}
    BY <1>1, <1>2 DEF Keeps
  <2>2. new = old
    BY <1>1, <2>1
  <2>3. Keeps(r, W)
    BY <1>1, <1>2 DEF Keeps, r
  <2> QED
    BY <1>2, <2>2, <2>3 DEF Leads, r
<1>3. CASE Sets(q, W, v)
  <2>1. PICK i \in 1..Len(q) : W[q[i]] = {v} /\ \A j \in (i + 1)..Len(q) : W[q[j]] = {}
    BY <1>3 DEF Sets
  <2>2. CASE i = 1
    <3>1. Keeps(r, W)
      <4>1. ASSUME NEW j \in 1..Len(r) PROVE W[r[j]] = {}
        <5>1. j + 1 \in (i + 1)..Len(q) /\ r[j] = q[j + 1]
          BY <1>1, <2>2, <4>1 DEF r
        <5> QED
          BY <2>1, <5>1
      <4> QED
        BY <4>1 DEF Keeps
    <3>2. W[Head(q)] = {v}
      BY <1>1, <2>1, <2>2
    <3>3. new = v
      BY <3>2
    <3> QED
      BY <3>1, <3>3 DEF Leads, r
  <2>3. CASE i # 1
    <3>1. i - 1 \in 1..Len(r) /\ r[i - 1] = q[i]
      <4>1. i - 1 \in 1..(Len(q) - 1) /\ i - 1 + 1 = i
        BY <1>1, <2>1, <2>3
      <4> QED
        BY <1>1, <4>1 DEF r
    <3>2. ASSUME NEW j \in (i - 1 + 1)..Len(r) PROVE W[r[j]] = {}
      <4>1. j + 1 \in (i + 1)..Len(q) /\ j \in 1..(Len(q) - 1)
        BY <1>1, <2>1, <3>2 DEF r
      <4>2. r[j] = q[j + 1]
        BY <1>1, <4>1 DEF r
      <4> QED
        BY <2>1, <4>1, <4>2
    <3> QED
      BY <2>1, <3>1, <3>2 DEF Leads, Sets, r
  <2> QED
    BY <2>2, <2>3
<1> QED
  BY <1>2, <1>3 DEF Leads

\* Nothing is left to do.
LEMMA LeadsNowhere ==
  ASSUME NEW W, NEW old, NEW v
  PROVE  Leads(<<>>, W, old, v) <=> old = v
BY DEF Leads, Sets, Keeps

-----------------------------------------------------------------------------
(* What the handlers' effects come to *)

MediaKept(q)   == Keeps(q, AudioOf) /\ Keeps(q, VideoOf)
MediaSet(q, v) == Sets(q, AudioOf, v) /\ Sets(q, VideoOf, v)
ToldKept(q)    == \A u \in Users, sp \in Users \cup {NoOne} : Keeps(q, ToldOf(u, sp))
ToldSet(q, v)  == \A u \in Users : Sets(q, ToldOf(u, v), v)

\* q announces that v has the floor: whatever was before, every client is told
\* so, and both rewriters end up with v or with nobody.
Announces(q, v) ==
  /\ q \in Seq(EffectRec)
  /\ ToldSet(q, v)
  /\ MediaSet(q, NoOne) \/ MediaSet(q, v)

\* Both together, for the rewriters and for the clients.
LEMMA Join ==
  ASSUME NEW p \in Seq(EffectRec), NEW q \in Seq(EffectRec), NEW v \in Users \cup {NoOne}
  PROVE  /\ p \o q \in Seq(EffectRec)
         /\ MediaSet(q, v) => MediaSet(p \o q, v)
         /\ MediaSet(p, v) /\ MediaKept(q) => MediaSet(p \o q, v)
         /\ ToldSet(q, v) => ToldSet(p \o q, v)
         /\ ToldSet(p, v) /\ ToldKept(q) => ToldSet(p \o q, v)
<1>1. p \o q \in Seq(EffectRec)
  BY ConcatProperties
<1>2. MediaSet(q, v) => MediaSet(p \o q, v)
  BY ConcatSetsRight DEF MediaSet
<1>3. MediaSet(p, v) /\ MediaKept(q) => MediaSet(p \o q, v)
  BY ConcatSetsLeft DEF MediaSet, MediaKept
<1>4. ToldSet(q, v) => ToldSet(p \o q, v)
  BY ConcatSetsRight DEF ToldSet
<1>5. ToldSet(p, v) /\ ToldKept(q) => ToldSet(p \o q, v)
  BY ConcatSetsLeft DEF ToldSet, ToldKept
<1> QED
  BY <1>1, <1>2, <1>3, <1>4, <1>5

\* An announcement stays one behind other effects, and before a flush of the
\* rewriters or the leaver's way out.
LEMMA AnnouncesBehind ==
  ASSUME NEW p \in Seq(EffectRec), NEW v \in Users \cup {NoOne}, NEW q, Announces(q, v)
  PROVE  Announces(p \o q, v)
<1>1. q \in Seq(EffectRec) /\ NoOne \in Users \cup {NoOne}
  BY DEF Announces
<1> QED
  BY <1>1, Join DEF Announces

\* One effect writes what its row of the tables says.
LEMMA OneEffect ==
  ASSUME NEW op \in Effects, NEW x \in Users \cup {NoOne}
  PROVE  /\ Do(op, x) \in EffectRec /\ <<Do(op, x)>> \in Seq(EffectRec)
         /\ Do(op, x).op = op /\ Do(op, x).user = x
BY DEF Do, EffectRec

\* The flush.
LEMMA ClearEffects ==
  /\ Clear \in Seq(EffectRec)
  /\ MediaSet(Clear, NoOne)
  /\ ToldKept(Clear)
<1> DEFINE a == Do("clear_audio", NoOne)
           b == Do("clear_video", NoOne)
<1>1. /\ a \in EffectRec /\ a.op = "clear_audio" /\ a.user = NoOne
      /\ b \in EffectRec /\ b.op = "clear_video" /\ b.user = NoOne
  BY OneEffect DEF Effects
<1> HIDE DEF a, b
<1>2. Clear = <<a, b>>
  BY DEF Clear, a, b
<1>3. AudioOf[a] = {NoOne} /\ AudioOf[b] = {} /\ VideoOf[a] = {} /\ VideoOf[b] = {NoOne}
  BY <1>1 DEF AudioOf, VideoOf
<1>4. \A u, sp : ToldOf(u, sp)[a] = {} /\ ToldOf(u, sp)[b] = {}
  BY <1>1 DEF ToldOf
<1>5. Sets(<<a, b>>, AudioOf, NoOne) /\ Sets(<<a, b>>, VideoOf, NoOne)
  BY <1>3 DEF Sets
<1> QED
  BY <1>1, <1>2, <1>4, <1>5 DEF MediaSet, ToldKept, Keeps

\* switch_speaker on both rewriters.
LEMMA SwitchEffects ==
  ASSUME NEW w \in Users
  PROVE  /\ Switch(w) \in Seq(EffectRec)
         /\ MediaSet(Switch(w), w)
<1> DEFINE a == Do("switch_audio", w)
           b == Do("switch_video", w)
<1>1. /\ a \in EffectRec /\ a.op = "switch_audio" /\ a.user = w
      /\ b \in EffectRec /\ b.op = "switch_video" /\ b.user = w
  BY OneEffect DEF Effects
<1> HIDE DEF a, b
<1>2. Switch(w) = <<a, b>>
  BY DEF Switch, a, b
<1>3. AudioOf[a] = {w} /\ AudioOf[b] = {} /\ VideoOf[a] = {} /\ VideoOf[b] = {w}
  BY <1>1 DEF AudioOf, VideoOf
<1>4. Sets(<<a, b>>, AudioOf, w) /\ Sets(<<a, b>>, VideoOf, w)
  BY <1>3 DEF Sets
<1> QED
  BY <1>1, <1>2, <1>4 DEF MediaSet

\* The announcement that the floor is free.
LEMMA IdleEffects ==
  /\ <<Do("FLOOR_IDLE", NoOne)>> \in Seq(EffectRec)
  /\ MediaKept(<<Do("FLOOR_IDLE", NoOne)>>)
  /\ ToldSet(<<Do("FLOOR_IDLE", NoOne)>>, NoOne)
<1> DEFINE a == Do("FLOOR_IDLE", NoOne)
<1>1. a \in EffectRec /\ a.op = "FLOOR_IDLE" /\ a.user = NoOne
  BY OneEffect DEF Effects
<1> HIDE DEF a
<1>2. AudioOf[a] = {} /\ VideoOf[a] = {}
  BY <1>1 DEF AudioOf, VideoOf
<1>3. \A u, sp : ToldOf(u, sp)[a] = {NoOne}
  BY <1>1 DEF ToldOf
<1> QED
  BY <1>1, <1>2, <1>3 DEF MediaKept, ToldSet, Keeps, Sets, a

\* The ways in which the handlers announce a grant.
GrantNews(w) ==
  {<<Do("taken_others", w), Do("granted", w)>>, <<Do("FLOOR_TAKEN", w), Do("granted", w)>>,
   <<Do("granted", w), Do("FLOOR_TAKEN", w)>>, <<Do("FLOOR_TAKEN", w)>>}

\* Each tells every client and leaves the rewriters alone.
LEMMA GrantNewsEffects ==
  ASSUME NEW w \in Users, NEW q \in GrantNews(w)
  PROVE  q \in Seq(EffectRec) /\ MediaKept(q) /\ ToldSet(q, w)
<1> DEFINE a == Do("taken_others", w)
           b == Do("granted", w)
           c == Do("FLOOR_TAKEN", w)
<1>1. /\ a \in EffectRec /\ a.op = "taken_others" /\ a.user = w
      /\ b \in EffectRec /\ b.op = "granted" /\ b.user = w
      /\ c \in EffectRec /\ c.op = "FLOOR_TAKEN" /\ c.user = w
  BY OneEffect DEF Effects
<1>2. q \in {<<a, b>>, <<c, b>>, <<b, c>>, <<c>>}
  BY DEF GrantNews
<1> HIDE DEF a, b, c
<1>3. /\ AudioOf[a] = {} /\ AudioOf[b] = {} /\ AudioOf[c] = {}
      /\ VideoOf[a] = {} /\ VideoOf[b] = {} /\ VideoOf[c] = {}
  BY <1>1 DEF AudioOf, VideoOf
<1>4. MediaKept(q)
  BY <1>2, <1>3 DEF MediaKept, Keeps
<1>5. ASSUME NEW u \in Users PROVE Sets(q, ToldOf(u, w), w)
  <2>1. /\ ToldOf(u, w)[a] = IF w = u THEN {} ELSE {w}
        /\ ToldOf(u, w)[b] = IF w = u THEN {w} ELSE {}
        /\ ToldOf(u, w)[c] = {w}
    BY <1>1 DEF ToldOf
  <2> DEFINE W == ToldOf(u, w)
  <2> HIDE DEF W
  <2>2. /\ W[a] = IF w = u THEN {} ELSE {w}
        /\ W[b] = IF w = u THEN {w} ELSE {}
        /\ W[c] = {w}
    BY <2>1 DEF W
  <2>3. Sets(<<c>>, W, w)
    BY <2>2 DEF Sets
  <2>4. Sets(<<b, c>>, W, w)
    BY <2>2 DEF Sets
  <2>5. Sets(<<a, b>>, W, w)
    BY <2>2 DEF Sets
  <2>6. Sets(<<c, b>>, W, w)
    BY <2>2 DEF Sets
  <2>7. Sets(q, W, w)
    BY <1>2, <2>3, <2>4, <2>5, <2>6
  <2> QED
    BY <2>7 DEF W
<1>6. q \in Seq(EffectRec)
  <2>1. /\ <<a, b>> \in Seq(EffectRec) /\ <<c, b>> \in Seq(EffectRec)
        /\ <<b, c>> \in Seq(EffectRec) /\ <<c>> \in Seq(EffectRec)
    BY <1>1
  <2> QED
    BY <1>2, <2>1
<1> QED
  BY <1>4, <1>5, <1>6 DEF ToldSet

\* FLOOR_REVOKE to its client, alone and before FLOOR_IDLE.
LEMMA RevokeEffects ==
  ASSUME NEW x \in Users
  PROVE  /\ <<Do("FLOOR_REVOKE", x)>> \in Seq(EffectRec)
         /\ <<Do("FLOOR_REVOKE", x), Do("FLOOR_IDLE", NoOne)>> \in Seq(EffectRec)
         /\ MediaKept(<<Do("FLOOR_REVOKE", x), Do("FLOOR_IDLE", NoOne)>>)
         /\ ToldSet(<<Do("FLOOR_REVOKE", x), Do("FLOOR_IDLE", NoOne)>>, NoOne)
<1> DEFINE a == Do("FLOOR_REVOKE", x)
           b == Do("FLOOR_IDLE", NoOne)
<1>1. /\ a \in EffectRec /\ a.op = "FLOOR_REVOKE" /\ a.user = x
      /\ b \in EffectRec /\ b.op = "FLOOR_IDLE" /\ b.user = NoOne
  BY OneEffect DEF Effects
<1> HIDE DEF a, b
<1>2. AudioOf[a] = {} /\ VideoOf[a] = {} /\ AudioOf[b] = {} /\ VideoOf[b] = {}
  BY <1>1 DEF AudioOf, VideoOf
<1>3. \A u, sp : ToldOf(u, sp)[b] = {NoOne}
  BY <1>1 DEF ToldOf
<1>4. MediaKept(<<a, b>>)
  BY <1>2 DEF MediaKept, Keeps
<1>5. ASSUME NEW u \in Users PROVE Sets(<<a, b>>, ToldOf(u, NoOne), NoOne)
  BY <1>3 DEF Sets
<1>6. <<a>> \in Seq(EffectRec) /\ <<a, b>> \in Seq(EffectRec)
  BY <1>1
<1> QED
  BY <1>4, <1>5, <1>6 DEF ToldSet, a, b

\* The end of a leave.
LEMMA AnnouncesThenRemove ==
  ASSUME NEW u \in Users, NEW v \in Users \cup {NoOne}, NEW q, Announces(q, v)
  PROVE  Announces(q \o <<Do("remove", u)>>, v)
<1> DEFINE a == Do("remove", u)
<1>1. a \in EffectRec /\ a.op = "remove" /\ a.user = u /\ <<a>> \in Seq(EffectRec)
  BY OneEffect DEF Effects
<1> HIDE DEF a
<1>2. AudioOf[a] = {} /\ VideoOf[a] = {}
  BY <1>1 DEF AudioOf, VideoOf
<1>3. q \in Seq(EffectRec)
  BY DEF Announces
<1>4. MediaKept(<<a>>)
  BY <1>2 DEF MediaKept, Keeps
<1>5. MediaSet(q \o <<a>>, NoOne) \/ MediaSet(q \o <<a>>, v)
  BY <1>1, <1>3, <1>4, Join DEF Announces
<1>6. ASSUME NEW x \in Users PROVE Sets(q \o <<a>>, ToldOf(x, v), v)
  <2>1. ToldOf(x, v)[a] = IF u = x THEN {v} ELSE {}
    BY <1>1 DEF ToldOf
  <2>2. CASE u = x
    <3>1. Sets(<<a>>, ToldOf(x, v), v)
      BY <2>1, <2>2 DEF Sets
    <3> QED
      BY <1>1, <1>3, <3>1, ConcatSetsRight
  <2>3. CASE u # x
    <3>1. Keeps(<<a>>, ToldOf(x, v))
      BY <2>1, <2>3 DEF Keeps
    <3>2. Sets(q, ToldOf(x, v), v)
      BY DEF Announces, ToldSet
    <3> QED
      BY <1>1, <1>3, <3>1, <3>2, ConcatSetsLeft
  <2> QED
    BY <2>2, <2>3
<1> QED
  BY <1>1, <1>3, <1>5, <1>6, Join DEF Announces, ToldSet, a

\* A flush after an announcement leaves the clients told.
LEMMA AnnouncesThenClear ==
  ASSUME NEW v \in Users \cup {NoOne}, NEW q, Announces(q, v)
  PROVE  Announces(q \o Clear, v)
<1>1. q \in Seq(EffectRec) /\ NoOne \in Users \cup {NoOne}
  BY DEF Announces
<1> QED
  BY <1>1, ClearEffects, Join DEF Announces

\* A grant, as any handler passes it on.
LEMMA GrantAnnounced ==
  ASSUME NEW w \in Users, NEW q \in GrantNews(w)
  PROVE  Announces(Switch(w) \o q, w)
BY SwitchEffects, GrantNewsEffects, Join DEF Announces

\* A flush and the announcement that the floor is free, in either order.
LEMMA IdleAnnounced ==
  /\ Announces(Clear \o <<Do("FLOOR_IDLE", NoOne)>>, NoOne)
  /\ ToldSet(<<Do("FLOOR_IDLE", NoOne)>> \o Clear, NoOne)
  /\ MediaSet(<<Do("FLOOR_IDLE", NoOne)>> \o Clear, NoOne)
<1>1. NoOne \in Users \cup {NoOne}
  OBVIOUS
<1> QED
  BY <1>1, ClearEffects, IdleEffects, Join DEF Announces

-----------------------------------------------------------------------------
(* What each handler makes of what the floor tells it *)

\* A request that is granted, with or without a preempted holder x, is
\* announced; one that has to wait changes nothing.
LEMMA RequestEffects ==
  ASSUME NEW u \in Users, NEW x \in Users
  PROVE  /\ Announces(AllEffects(WsRequestEffects, <<FP!Result("Granted", u)>>), u)
         /\ Announces(AllEffects(WsRequestEffects,
                        <<FP!Result("Revoked", x), FP!Result("Granted", u)>>), u)
         /\ AllEffects(WsRequestEffects, <<FP!Result("Queued", u)>>) = <<>>
         /\ AllEffects(WsRequestEffects, <<FP!Result("Denied", u)>>) = <<>>
         /\ Announces(AllEffects(MbcpEffects, <<FP!Result("Granted", u)>>), u)
         /\ Announces(AllEffects(MbcpEffects,
                        <<FP!Result("Revoked", x), FP!Result("Granted", u)>>), u)
         /\ AllEffects(MbcpEffects, <<FP!Result("Queued", u)>>) = <<>>
         /\ AllEffects(MbcpEffects, <<FP!Result("Denied", u)>>) = <<>>
<1> DEFINE g == FP!Result("Granted", u)
           v == FP!Result("Revoked", x)
           n == FP!Result("Queued", u)
           d == FP!Result("Denied", u)
<1>1. /\ g.type = "Granted" /\ g.user = u /\ v.type = "Revoked" /\ v.user = x
      /\ n.type = "Queued" /\ d.type = "Denied"
  BY DEF FP!Result
<1> HIDE DEF g, v, n, d
<1>2. /\ WsRequestEffects(g) = Switch(u) \o <<Do("taken_others", u), Do("granted", u)>>
      /\ WsRequestEffects(v) = <<Do("FLOOR_REVOKE", x)>>
      /\ WsRequestEffects(n) = <<>> /\ WsRequestEffects(d) = <<>>
  BY <1>1 DEF WsRequestEffects
<1>3. /\ MbcpEffects(g) = Switch(u) \o <<Do("FLOOR_TAKEN", u)>>
      /\ MbcpEffects(v) = <<Do("FLOOR_REVOKE", x)>> \o Clear \o <<Do("FLOOR_IDLE", NoOne)>>
      /\ MbcpEffects(n) = <<>> /\ MbcpEffects(d) = <<>>
  BY <1>1 DEF MbcpEffects
<1>4. Announces(WsRequestEffects(g), u) /\ Announces(MbcpEffects(g), u)
  BY <1>2, <1>3, GrantAnnounced DEF GrantNews
<1>5. WsRequestEffects(v) \in Seq(EffectRec)
  BY <1>2, RevokeEffects
<1>6. MbcpEffects(v) \in Seq(EffectRec)
  <2>1. <<Do("FLOOR_REVOKE", x)>> \o Clear \in Seq(EffectRec)
    BY RevokeEffects, ClearEffects, Join
  <2> QED
    BY <1>3, <2>1, IdleEffects, Join
<1>7. /\ Announces(WsRequestEffects(v) \o WsRequestEffects(g), u)
      /\ Announces(MbcpEffects(v) \o MbcpEffects(g), u)
  BY <1>4, <1>5, <1>6, AnnouncesBehind
<1> QED
  BY <1>2, <1>3, <1>4, <1>7, EffectsOfActions DEF g, v, n, d

\* The flush belongs to a call that returned Released.
LEMMA FlushOfRelease ==
  ASSUME NEW x, NEW w
  PROVE  /\ ReleaseFlush(<<>>) = <<>>
         /\ ReleaseFlush(<<FP!Result("Released", x)>>) = Clear
         /\ ReleaseFlush(<<FP!Result("Released", x), FP!Result("Granted", w)>>) = Clear
<1> DEFINE a == FP!Result("Released", x)
           b == FP!Result("Granted", w)
<1>1. a.type = "Released"
  BY DEF FP!Result
<1> HIDE DEF a, b
<1>2. \E i \in 1..Len(<<a>>) : <<a>>[i].type = "Released"
  BY <1>1
<1>3. \E i \in 1..Len(<<a, b>>) : <<a, b>>[i].type = "Released"
  <2>1. 1 \in 1..Len(<<a, b>>) /\ <<a, b>>[1] = a
    OBVIOUS
  <2> QED
    BY <1>1, <2>1
<1> QED
  BY <1>2, <1>3 DEF ReleaseFlush, a, b

\* A release: the new holder w is announced, or that nobody has the floor.
LEMMA ReleaseEffects ==
  ASSUME NEW x \in Users, NEW w \in Users, NEW as,
         as \in {<<FP!Result("Released", x)>>,
                 <<FP!Result("Released", x), FP!Result("Granted", w)>>},
         NEW v, v = IF as = <<FP!Result("Released", x)>> THEN NoOne ELSE w
  PROVE  /\ Announces(ReleaseFlush(as) \o AllEffects(ApplyEffects, as), v)
         /\ Announces(ReleaseFlush(as) \o AllEffects(MbcpEffects, as), v)
<1> DEFINE r == FP!Result("Released", x)
           g == FP!Result("Granted", w)
<1>1. r.type = "Released" /\ r.user = x /\ g.type = "Granted" /\ g.user = w
  BY DEF FP!Result
<1>2. ReleaseFlush(as) = Clear
  BY FlushOfRelease
<1>3. as = <<r>> \/ as = <<r, g>>
  OBVIOUS
<1>4. <<r>> # <<r, g>>
  OBVIOUS
<1>5. (as = <<r>> => v = NoOne) /\ (as = <<r, g>> => v = w)
  BY <1>4
<1> HIDE DEF r, g
<1>6. /\ ApplyEffects(r) = <<Do("FLOOR_IDLE", NoOne)>> /\ MbcpEffects(r) = <<Do("FLOOR_IDLE", NoOne)>>
      /\ ApplyEffects(g) = Switch(w) \o <<Do("FLOOR_TAKEN", w), Do("granted", w)>>
      /\ MbcpEffects(g) = Switch(w) \o <<Do("FLOOR_TAKEN", w)>>
  BY <1>1 DEF ApplyEffects, MbcpEffects
<1>7. CASE as = <<r>>
  BY <1>2, <1>5, <1>6, <1>7, IdleAnnounced, EffectsOfActions
<1>8. CASE as = <<r, g>>
  <2>1. Announces(ApplyEffects(g), w) /\ Announces(MbcpEffects(g), w)
    BY <1>6, GrantAnnounced DEF GrantNews
  <2>2. /\ Announces(ApplyEffects(r) \o ApplyEffects(g), w)
        /\ Announces(MbcpEffects(r) \o MbcpEffects(g), w)
    BY <1>6, <2>1, IdleEffects, AnnouncesBehind
  <2>3. /\ Announces(Clear \o (ApplyEffects(r) \o ApplyEffects(g)), w)
        /\ Announces(Clear \o (MbcpEffects(r) \o MbcpEffects(g)), w)
    BY <2>2, ClearEffects, AnnouncesBehind
  <2> QED
    BY <1>2, <1>5, <1>8, <2>3, EffectsOfActions
<1> QED
  BY <1>3, <1>7, <1>8

\* A leave of the holder x: the same, and then its participant goes.
LEMMA LeaveEffects ==
  ASSUME NEW x \in Users, NEW w \in Users, NEW as,
         as \in {<<FP!Result("Released", x)>>,
                 <<FP!Result("Released", x), FP!Result("Granted", w)>>},
         NEW v, v = IF as = <<FP!Result("Released", x)>> THEN NoOne ELSE w
  PROVE  Announces(AllEffects(ApplyEffects, as) \o LeaveFlush(as) \o <<Do("remove", x)>>, v)
<1> DEFINE r == FP!Result("Released", x)
           g == FP!Result("Granted", w)
<1>1. r.type = "Released" /\ r.user = x /\ g.type = "Granted" /\ g.user = w
  BY DEF FP!Result
<1>2. as = <<r>> \/ as = <<r, g>>
  OBVIOUS
<1>3. <<r>> # <<r, g>> /\ <<r>> # <<>> /\ <<r, g>> # <<>>
  OBVIOUS
<1>4. (as = <<r>> => v = NoOne) /\ (as = <<r, g>> => v = w) /\ LeaveFlush(as) = Clear
  BY <1>2, <1>3 DEF LeaveFlush
<1> HIDE DEF r, g
<1>5. /\ ApplyEffects(r) = <<Do("FLOOR_IDLE", NoOne)>>
      /\ ApplyEffects(g) = Switch(w) \o <<Do("FLOOR_TAKEN", w), Do("granted", w)>>
  BY <1>1 DEF ApplyEffects
<1>6. v \in Users \cup {NoOne} /\ NoOne \in Users \cup {NoOne}
  BY <1>2, <1>4
<1>7. Announces(AllEffects(ApplyEffects, as) \o Clear, v)
  <2>1. CASE as = <<r>>
    <3>1. <<Do("FLOOR_IDLE", NoOne)>> \o Clear \in Seq(EffectRec)
      BY <1>6, IdleEffects, ClearEffects, Join
    <3>2. Announces(<<Do("FLOOR_IDLE", NoOne)>> \o Clear, NoOne)
      BY <3>1, IdleAnnounced DEF Announces
    <3> QED
      BY <1>4, <1>5, <2>1, <3>2, EffectsOfActions
  <2>2. CASE as = <<r, g>>
    <3>1. Announces(ApplyEffects(g), w)
      BY <1>5, GrantAnnounced DEF GrantNews
    <3>2. Announces(ApplyEffects(r) \o ApplyEffects(g), w)
      BY <1>5, <3>1, IdleEffects, AnnouncesBehind
    <3> QED
      BY <1>4, <2>2, <3>2, AnnouncesThenClear, EffectsOfActions
  <2> QED
    BY <1>2, <2>1, <2>2
<1> QED
  BY <1>4, <1>6, <1>7, AnnouncesThenRemove

\* The timer takes the floor from x.
LEMMA RevokedByTimer ==
  ASSUME NEW x \in Users, NEW w \in Users, NEW as,
         as \in {<<FP!Result("Revoked", x)>>,
                 <<FP!Result("Revoked", x), FP!Result("Granted", w)>>},
         NEW v, v = IF as = <<FP!Result("Revoked", x)>> THEN NoOne ELSE w
  PROVE  Announces(AllEffects(TimerEffects, as), v)
<1> DEFINE r == FP!Result("Revoked", x)
           g == FP!Result("Granted", w)
           i == <<Do("FLOOR_REVOKE", x), Do("FLOOR_IDLE", NoOne)>>
<1>1. r.type = "Revoked" /\ r.user = x /\ g.type = "Granted" /\ g.user = w
  BY DEF FP!Result
<1>2. as = <<r>> \/ as = <<r, g>>
  OBVIOUS
<1>3. <<r>> # <<r, g>>
  OBVIOUS
<1>4. (as = <<r>> => v = NoOne) /\ (as = <<r, g>> => v = w)
  BY <1>3
<1> HIDE DEF r, g
<1>5. /\ TimerEffects(r) = Clear \o i
      /\ TimerEffects(g) = Switch(w) \o <<Do("granted", w), Do("FLOOR_TAKEN", w)>>
  BY <1>1 DEF TimerEffects
<1>6. i \in Seq(EffectRec) /\ MediaKept(i) /\ ToldSet(i, NoOne)
  BY RevokeEffects
<1> HIDE DEF i
<1>7. Announces(TimerEffects(r), NoOne)
  <2>1. NoOne \in Users \cup {NoOne}
    OBVIOUS
  <2> QED
    BY <1>5, <1>6, <2>1, ClearEffects, Join DEF Announces
<1>8. CASE as = <<r>>
  BY <1>4, <1>7, <1>8, EffectsOfActions
<1>9. CASE as = <<r, g>>
  <2>1. Announces(TimerEffects(g), w)
    BY <1>5, GrantAnnounced DEF GrantNews
  <2>2. TimerEffects(r) \in Seq(EffectRec)
    BY <1>7 DEF Announces
  <2>3. Announces(TimerEffects(r) \o TimerEffects(g), w)
    BY <2>1, <2>2, AnnouncesBehind
  <2> QED
    BY <1>4, <1>9, <2>3, EffectsOfActions
<1> QED
  BY <1>2, <1>8, <1>9

-----------------------------------------------------------------------------
(* The invariant *)

RoomTyped ==
  /\ {audio, video} \subseteq Users \cup {NoOne}
  /\ members \subseteq Users
  /\ told \in [Users -> Users \cup {NoOne}]
  /\ todo \in [Tasks -> Seq(EffectRec)]
  /\ raced \in BOOLEAN

\* Task t is the only one with anything left to do, and what that is brings
\* both rewriters and every client to the floor as it is.
Course(t) ==
  /\ \A x \in Tasks \ {t} : todo[x] = <<>>
  /\ \E v \in {NoOne, state.speaker} :
       Leads(todo[t], AudioOf, audio, v) /\ Leads(todo[t], VideoOf, video, v)
  /\ \A u \in members : Leads(todo[t], ToldOf(u, state.speaker), told[u], state.speaker)

OnCourse == ~raced => \E t \in Tasks : Course(t)

RoomInv == FP!IInv /\ RoomTyped /\ OnCourse

\* A speaker of the floor is a user or nobody.
LEMMA SpeakerType == FP!IInv => state.speaker \in Users \cup {NoOne}
BY FP!StateFields, FloorConstants DEF FP!IInv

\* Everything has been done: rewriters and clients are where the floor is.
LEMMA WhenSettled ==
  ASSUME RoomInv, Settled, ~raced
  PROVE  /\ audio = video /\ audio \in {NoOne, state.speaker}
         /\ \A u \in members : told[u] = state.speaker
<1>1. PICK t \in Tasks : Course(t)
  BY DEF RoomInv, OnCourse
<1>2. todo[t] = <<>>
  BY DEF Settled, Busy
<1>3. PICK v \in {NoOne, state.speaker} :
        Leads(<<>>, AudioOf, audio, v) /\ Leads(<<>>, VideoOf, video, v)
  BY <1>1, <1>2 DEF Course
<1>4. audio = v /\ video = v
  BY <1>3, LeadsNowhere
<1>5. ASSUME NEW u \in members PROVE told[u] = state.speaker
  <2>1. Leads(<<>>, ToldOf(u, state.speaker), told[u], state.speaker)
    BY <1>1, <1>2 DEF Course
  <2> QED
    BY <2>1, LeadsNowhere
<1> QED
  BY <1>4, <1>5

\* A handler that takes effects q up, alone or not.
LEMMA StartShape ==
  ASSUME RoomInv, NEW t \in Tasks, NEW q \in Seq(EffectRec), Start(t, q)
  PROVE  /\ RoomTyped'
         /\ todo'[t] = q
         /\ Settled => \A x \in Tasks \ {t} : todo'[x] = <<>>
         /\ ~raced' => Settled
         /\ UNCHANGED <<audio, video, members, told>>
<1>1. todo' = [todo EXCEPT ![t] = q] /\ UNCHANGED <<audio, video, members, told>>
  BY DEF Start
<1>2. todo \in [Tasks -> Seq(EffectRec)] /\ raced \in BOOLEAN
  BY DEF RoomInv, RoomTyped
<1>3. todo' \in [Tasks -> Seq(EffectRec)] /\ todo'[t] = q
  BY <1>1, <1>2
<1>4. Settled => \A x \in Tasks \ {t} : todo'[x] = <<>>
  BY <1>1, <1>2 DEF Settled, Busy
<1>5. raced' \in BOOLEAN /\ (~raced' => Settled)
  BY <1>2 DEF Start
<1> QED
  BY <1>1, <1>3, <1>4, <1>5 DEF RoomInv, RoomTyped

\* One that announces the speaker the floor has now sets everything anew.
LEMMA StartAnnouncing ==
  ASSUME RoomInv, FP!IInv', NEW t \in Tasks, NEW q, Start(t, q), Announces(q, state'.speaker)
  PROVE  RoomInv'
<1>1. q \in Seq(EffectRec)
  BY DEF Announces
<1>2. /\ RoomTyped' /\ todo'[t] = q
      /\ Settled => \A x \in Tasks \ {t} : todo'[x] = <<>>
      /\ ~raced' => Settled
  BY <1>1, StartShape
<1>3. ASSUME ~raced' PROVE Course(t)'
  <2>1. \A x \in Tasks \ {t} : todo'[x] = <<>>
    BY <1>2, <1>3
  <2>2. \E v \in {NoOne, state'.speaker} :
          Leads(todo'[t], AudioOf, audio', v) /\ Leads(todo'[t], VideoOf, video', v)
    BY <1>2 DEF Announces, MediaSet, Leads
  <2>3. ASSUME NEW u \in members'
        PROVE  Leads(todo'[t], ToldOf(u, state'.speaker), told'[u], state'.speaker)
    <3>1. u \in Users
      BY <1>2 DEF RoomTyped
    <3> QED
      BY <1>2, <3>1 DEF Announces, ToldSet, Leads
  <2> QED
    BY <2>1, <2>2, <2>3 DEF Course
<1>4. OnCourse'
  BY <1>3 DEF OnCourse
<1> QED
  BY <1>2, <1>4 DEF RoomInv

\* One that finds the speaker unchanged leaves everything as it is, but for
\* a participant that goes.
LEMMA StartQuietly ==
  ASSUME RoomInv, FP!IInv', state'.speaker = state.speaker,
         NEW t \in Tasks, NEW u \in Users \cup {NoOne}, NEW q, Start(t, q),
         q = <<>> \/ q = <<Do("remove", u)>>
  PROVE  RoomInv'
<1> DEFINE a == Do("remove", u)
           sp == state.speaker
<1>1. a \in EffectRec /\ a.op = "remove" /\ a.user = u /\ <<a>> \in Seq(EffectRec)
  BY OneEffect DEF Effects
<1>2. q = <<>> \/ q = <<a>>
  OBVIOUS
<1> HIDE DEF a
<1>3. q \in Seq(EffectRec)
  <2>1. <<>> \in Seq(EffectRec)
    OBVIOUS
  <2> QED
    BY <1>1, <1>2, <2>1, Zenon
<1>4. /\ RoomTyped' /\ todo'[t] = q
      /\ Settled => \A x \in Tasks \ {t} : todo'[x] = <<>>
      /\ ~raced' => Settled
      /\ UNCHANGED <<audio, video, members, told>>
  BY <1>3, StartShape
<1>5. ~raced' => ~raced
  <2>1. ~\E i \in 1..Len(q) : q[i].op \in {"FLOOR_IDLE", "FLOOR_TAKEN", "taken_others"}
    BY <1>1, <1>2
  <2> QED
    BY <2>1 DEF Start
<1>6. ASSUME ~raced' PROVE Course(t)'
  <2>1. /\ audio = video /\ audio \in {NoOne, sp}
        /\ \A x \in members : told[x] = sp
    BY <1>4, <1>5, <1>6, WhenSettled
  <2>2. Keeps(q, AudioOf) /\ Keeps(q, VideoOf)
    <3>1. AudioOf[a] = {} /\ VideoOf[a] = {}
      BY <1>1 DEF AudioOf, VideoOf
    <3> QED
      BY <1>2, <3>1 DEF Keeps
  <2>3. Leads(q, AudioOf, audio, audio) /\ Leads(q, VideoOf, video, audio)
    BY <2>1, <2>2 DEF Leads
  <2>4. ASSUME NEW x \in members PROVE Leads(q, ToldOf(x, sp), told[x], sp)
    <3>1. ToldOf(x, sp)[a] = {} \/ ToldOf(x, sp)[a] = {sp}
      BY <1>1 DEF ToldOf
    <3> DEFINE W == ToldOf(x, sp)
    <3> HIDE DEF W, sp
    <3>2. Keeps(q, W) \/ Sets(q, W, sp)
      BY <1>2, <3>1 DEF Keeps, Sets, W
    <3> QED
      BY <2>1, <3>2 DEF Leads, W
  <2>5. \A x \in Tasks \ {t} : todo'[x] = <<>>
    BY <1>4, <1>6
  <2>6. \E v \in {NoOne, state'.speaker} :
          Leads(todo'[t], AudioOf, audio', v) /\ Leads(todo'[t], VideoOf, video', v)
    BY <1>4, <2>1, <2>3
  <2>7. \A x \in members' :
          Leads(todo'[t], ToldOf(x, state'.speaker), told'[x], state'.speaker)
    BY <1>4, <2>4
  <2> QED
    BY <2>5, <2>6, <2>7 DEF Course
<1>7. OnCourse'
  BY <1>6 DEF OnCourse
<1> QED
  BY <1>4, <1>7 DEF RoomInv

-----------------------------------------------------------------------------
(* Every step keeps the invariant *)

\* handle_room_join: the new participant's own sync is all that is left.
LEMMA JoinInv ==
  ASSUME RoomInv, NEW u \in Users, handle_room_join(u)
  PROVE  RoomInv'
<1> DEFINE a == Do("sync", u)
           sp == state.speaker
<1>1. a \in EffectRec /\ a.op = "sync" /\ a.user = u /\ <<a>> \in Seq(EffectRec)
  BY OneEffect DEF Effects
<1>2. /\ members' = members \cup {u} /\ u \notin members
      /\ todo' = [todo EXCEPT ![u] = <<a>>]
      /\ raced' = (raced \/ ~Settled)
      /\ UNCHANGED <<floorVars, audio, video, told>>
  BY DEF handle_room_join
<1> HIDE DEF a
<1>3. u \in Tasks /\ todo \in [Tasks -> Seq(EffectRec)] /\ raced \in BOOLEAN
  BY DEF RoomInv, RoomTyped, Tasks
<1>4. FP!IInv'
  BY <1>2, FloorSteps DEF RoomInv, floorVars
<1>5. RoomTyped'
  BY <1>1, <1>2, <1>3 DEF RoomInv, RoomTyped
<1>6. ASSUME ~raced' PROVE Course(u)'
  <2>1. ~raced /\ Settled
    BY <1>2, <1>3, <1>6
  <2>2. /\ audio = video /\ audio \in {NoOne, sp}
        /\ \A x \in members : told[x] = sp
    BY <2>1, WhenSettled
  <2>3. todo'[u] = <<a>> /\ \A x \in Tasks \ {u} : todo'[x] = <<>>
    BY <1>2, <1>3, <2>1 DEF Settled, Busy
  <2>4. Keeps(<<a>>, AudioOf) /\ Keeps(<<a>>, VideoOf)
    <3>1. AudioOf[a] = {} /\ VideoOf[a] = {}
      BY <1>1 DEF AudioOf, VideoOf
    <3> QED
      BY <3>1 DEF Keeps
  <2>5. ASSUME NEW x \in members \cup {u} PROVE Leads(<<a>>, ToldOf(x, sp), told[x], sp)
    <3>1. ToldOf(x, sp)[a] = IF x = u THEN {sp} ELSE {}
      BY <1>1 DEF ToldOf
    <3> DEFINE W == ToldOf(x, sp)
    <3> HIDE DEF W, sp
    <3>2. IF x = u THEN Sets(<<a>>, W, sp) ELSE Keeps(<<a>>, W)
      BY <3>1 DEF Keeps, Sets, W
    <3> QED
      BY <2>2, <3>2 DEF Leads, W
  <2>6. state' = state /\ audio' = audio /\ video' = video /\ told' = told
    BY <1>2 DEF floorVars
  <2>7. Leads(todo'[u], AudioOf, audio', audio) /\ Leads(todo'[u], VideoOf, video', audio)
    BY <2>2, <2>3, <2>4, <2>6 DEF Leads
  <2>8. \E v \in {NoOne, state'.speaker} :
          Leads(todo'[u], AudioOf, audio', v) /\ Leads(todo'[u], VideoOf, video', v)
    BY <2>2, <2>6, <2>7
  <2>9. \A x \in members' :
          Leads(todo'[u], ToldOf(x, state'.speaker), told'[x], state'.speaker)
    BY <1>2, <2>3, <2>5, <2>6
  <2> QED
    BY <2>3, <2>8, <2>9 DEF Course
<1>7. OnCourse'
  BY <1>3, <1>6 DEF OnCourse
<1> QED
  BY <1>4, <1>5, <1>7 DEF RoomInv

\* One effect: what is left brings rewriters and clients where all of it did.
LEMMA EffectInv ==
  ASSUME RoomInv, NEW t \in Tasks, Effect(t)
  PROVE  RoomInv'
<1> DEFINE q == todo[t]
           e == Head(todo[t])
           sp == state.speaker
<1>1. /\ q # <<>>
      /\ audio' = SpeakerBy(e, "switch_audio", "clear_audio", audio)
      /\ video' = SpeakerBy(e, "switch_video", "clear_video", video)
      /\ told' = ToldBy(e)
      /\ members' = IF e.op = "remove" THEN members \ {e.user} ELSE members
      /\ todo' = [todo EXCEPT ![t] = Tail(q)]
      /\ UNCHANGED <<floorVars, raced>>
  BY DEF Effect, Busy
<1>2. /\ audio \in Users \cup {NoOne} /\ video \in Users \cup {NoOne}
      /\ members \subseteq Users /\ told \in [Users -> Users \cup {NoOne}]
      /\ todo \in [Tasks -> Seq(EffectRec)] /\ raced \in BOOLEAN
  BY DEF RoomInv, RoomTyped
<1>3. q \in Seq(EffectRec)
  BY <1>2
<1>4. e \in EffectRec /\ Tail(q) \in Seq(EffectRec)
  BY <1>1, <1>3, HeadTailProperties
<1>5. e.op \in Effects /\ e.user \in Users \cup {NoOne}
  BY <1>4 DEF EffectRec
<1>6. sp \in Users \cup {NoOne}
  BY SpeakerType DEF RoomInv
<1>7. state' = state /\ raced' = raced
  BY <1>1 DEF floorVars
<1> HIDE DEF e, q, sp
<1>8. FP!IInv'
  BY <1>1, FloorSteps DEF RoomInv
<1>9. \/ AudioOf[e] = {} /\ audio' = audio
      \/ AudioOf[e] = {audio'}
  BY <1>1, <1>4 DEF AudioOf, SpeakerBy
<1>10. \/ VideoOf[e] = {} /\ video' = video
       \/ VideoOf[e] = {video'}
  BY <1>1, <1>4 DEF VideoOf, SpeakerBy
<1>11. ASSUME NEW u \in members'
       PROVE  \/ ToldOf(u, sp)[e] = {} /\ told'[u] = told[u]
              \/ ToldOf(u, sp)[e] = {told'[u]}
  <2>1. u \in members /\ u \in Users /\ (e.op = "remove" => u # e.user)
    BY <1>1, <1>2, <1>11
  <2>2. ASSUME NEW us, NEW v, told' = Tell(us, v)
        PROVE  told'[u] = IF u \in us THEN v ELSE told[u]
    BY <2>1, <2>2 DEF Tell
  <2>3. CASE e.op = "FLOOR_IDLE"
    <3>1. told' = Tell(members, NoOne)
      BY <1>1, <2>3 DEF ToldBy
    <3>2. ToldOf(u, sp)[e] = {NoOne}
      BY <1>4, <2>3 DEF ToldOf
    <3> QED
      BY <2>1, <2>2, <3>1, <3>2
  <2>4. CASE e.op = "FLOOR_TAKEN"
    <3>1. told' = Tell(members, e.user)
      BY <1>1, <2>4 DEF ToldBy
    <3>2. ToldOf(u, sp)[e] = {e.user}
      BY <1>4, <2>4 DEF ToldOf
    <3> QED
      BY <2>1, <2>2, <3>1, <3>2
  <2>5. CASE e.op = "taken_others"
    <3>1. told' = Tell(members \ {e.user}, e.user)
      BY <1>1, <2>5 DEF ToldBy
    <3>2. ToldOf(u, sp)[e] = IF e.user = u THEN {} ELSE {e.user}
      BY <1>4, <2>5 DEF ToldOf
    <3> QED
      BY <2>1, <2>2, <3>1, <3>2
  <2>6. CASE e.op = "granted"
    <3>1. told' = Tell({e.user}, e.user)
      BY <1>1, <2>6 DEF ToldBy
    <3>2. ToldOf(u, sp)[e] = IF e.user = u THEN {u} ELSE {}
      BY <1>4, <2>6 DEF ToldOf
    <3> QED
      BY <2>1, <2>2, <3>1, <3>2
  <2>7. CASE e.op = "FLOOR_REVOKE"
    <3>1. told' = Tell({e.user}, NoOne)
      BY <1>1, <2>7 DEF ToldBy
    <3>2. ToldOf(u, sp)[e] = IF e.user = u THEN {NoOne} ELSE {}
      BY <1>4, <2>7 DEF ToldOf
    <3> QED
      BY <2>1, <2>2, <3>1, <3>2
  <2>8. CASE e.op = "sync"
    <3>1. told' = Tell({e.user}, sp)
      BY <1>1, <2>8 DEF ToldBy, sp
    <3>2. ToldOf(u, sp)[e] = IF e.user = u THEN {sp} ELSE {}
      BY <1>4, <2>8 DEF ToldOf
    <3> QED
      BY <2>1, <2>2, <3>1, <3>2
  <2>9. CASE e.op = "remove"
    BY <1>1, <1>4, <2>1, <2>2, <2>9 DEF ToldBy, ToldOf
  <2>10. CASE e.op \in {"clear_audio", "clear_video", "switch_audio", "switch_video"}
    BY <1>1, <1>4, <2>10 DEF ToldBy, ToldOf
  <2> QED
    BY <1>5, <2>3, <2>4, <2>5, <2>6, <2>7, <2>8, <2>9, <2>10 DEF Effects
<1>12. RoomTyped'
  <2>1. audio' \in Users \cup {NoOne} /\ video' \in Users \cup {NoOne}
    BY <1>1, <1>2, <1>5 DEF SpeakerBy
  <2>2. told' \in [Users -> Users \cup {NoOne}]
    <3>1. \A us : \A v \in Users \cup {NoOne} : Tell(us, v) \in [Users -> Users \cup {NoOne}]
      BY <1>2 DEF Tell
    <3> QED
      BY <1>1, <1>2, <1>5, <1>6, <3>1 DEF ToldBy, sp
  <2>3. members' \subseteq Users
    BY <1>1, <1>2
  <2>4. todo' \in [Tasks -> Seq(EffectRec)]
    BY <1>1, <1>2, <1>4
  <2> QED
    BY <1>2, <1>7, <2>1, <2>2, <2>3, <2>4 DEF RoomTyped
<1>13. ASSUME ~raced' PROVE Course(t)'
  <2>1. PICK x \in Tasks : Course(x)
    BY <1>7, <1>13 DEF RoomInv, OnCourse
  <2>2. x = t
    BY <1>1, <2>1 DEF Course, q
  <2>3. todo'[t] = Tail(q) /\ \A y \in Tasks \ {t} : todo'[y] = <<>>
    BY <1>1, <1>2, <2>1, <2>2 DEF Course
  <2>4. PICK v \in {NoOne, sp} : Leads(q, AudioOf, audio, v) /\ Leads(q, VideoOf, video, v)
    BY <2>1, <2>2 DEF Course, q, sp
  <2>5. e = Head(q)
    BY DEF e, q
  <2>6. Leads(Tail(q), AudioOf, audio', v)
    BY <1>1, <1>3, <1>9, <2>4, <2>5, LeadsOn
  <2>7. Leads(Tail(q), VideoOf, video', v)
    BY <1>1, <1>3, <1>10, <2>4, <2>5, LeadsOn
  <2>8. ASSUME NEW u \in members' PROVE Leads(Tail(q), ToldOf(u, sp), told'[u], sp)
    <3>1. u \in members
      BY <1>1, <2>8
    <3>2. Leads(q, ToldOf(u, sp), told[u], sp)
      BY <2>1, <2>2, <3>1 DEF Course, q, sp
    <3>3. \/ ToldOf(u, sp)[e] = {} /\ told'[u] = told[u]
          \/ ToldOf(u, sp)[e] = {told'[u]}
      BY <1>11, <2>8
    <3> QED
      BY <1>1, <1>3, <2>5, <3>2, <3>3, LeadsOn
  <2>9. \E w \in {NoOne, state'.speaker} :
          Leads(todo'[t], AudioOf, audio', w) /\ Leads(todo'[t], VideoOf, video', w)
    BY <1>7, <2>3, <2>6, <2>7 DEF sp
  <2>10. \A u \in members' :
           Leads(todo'[t], ToldOf(u, state'.speaker), told'[u], state'.speaker)
    BY <1>7, <2>3, <2>8 DEF sp
  <2> QED
    BY <2>3, <2>9, <2>10 DEF Course
<1>14. OnCourse'
  BY <1>13 DEF OnCourse
<1> QED
  BY <1>8, <1>12, <1>14 DEF RoomInv

\* run_zombie_reaper: one client less to keep informed.
LEMMA ReaperInv ==
  ASSUME RoomInv, NEW u \in Users, run_zombie_reaper(u)
  PROVE  RoomInv'
<1>1. /\ members' = members \ {u} /\ told' = Tell({u}, NoOne)
      /\ UNCHANGED <<floorVars, audio, video, todo, raced>>
  BY DEF run_zombie_reaper
<1>2. /\ members \subseteq Users /\ told \in [Users -> Users \cup {NoOne}]
  BY DEF RoomInv, RoomTyped
<1>3. FP!IInv'
  BY <1>1, FloorSteps DEF RoomInv
<1>4. told' \in [Users -> Users \cup {NoOne}] /\ \A x \in members' : told'[x] = told[x]
  BY <1>1, <1>2 DEF Tell
<1>5. RoomTyped'
  BY <1>1, <1>2, <1>4 DEF RoomInv, RoomTyped
<1>6. ASSUME NEW t \in Tasks, Course(t) PROVE Course(t)'
  <2>1. /\ state' = state /\ audio' = audio /\ video' = video /\ todo' = todo
    BY <1>1 DEF floorVars
  <2>2. members' \subseteq members
    BY <1>1
  <2>3. \A x \in Tasks \ {t} : todo'[x] = <<>>
    BY <1>6, <2>1 DEF Course
  <2>4. \E v \in {NoOne, state'.speaker} :
          Leads(todo'[t], AudioOf, audio', v) /\ Leads(todo'[t], VideoOf, video', v)
    BY <1>6, <2>1 DEF Course
  <2>5. \A x \in members' :
          Leads(todo'[t], ToldOf(x, state'.speaker), told'[x], state'.speaker)
    BY <1>4, <1>6, <2>1, <2>2 DEF Course
  <2> QED
    BY <2>3, <2>4, <2>5 DEF Course
<1>7. OnCourse'
  BY <1>1, <1>6 DEF RoomInv, OnCourse
<1> QED
  BY <1>3, <1>5, <1>7 DEF RoomInv

\* Time passes, or nothing does: the floor keeps its speaker.
LEMMA IdleInv ==
  ASSUME RoomInv, Tick \/ UNCHANGED roomVars
  PROVE  RoomInv'
<1>1. UNCHANGED <<audio, video, members, told, todo, raced>>
  BY DEF Tick, roomVars
<1>2. FP!IInv'
  BY FloorSteps DEF RoomInv, Tick, roomVars
<1>3. state'.speaker = state.speaker
  <2>1. CASE Tick
    <3>1. FP!Tick
      BY <2>1, SameOperations DEF Tick
    <3> QED
      BY <3>1, FP!TickOutcome, FloorConstants DEF RoomInv
  <2>2. CASE UNCHANGED roomVars
    BY <2>2 DEF roomVars, floorVars
  <2> QED
    BY <2>1, <2>2
<1>4. RoomTyped'
  BY <1>1 DEF RoomInv, RoomTyped
<1>5. ASSUME NEW t \in Tasks, Course(t) PROVE Course(t)'
  BY <1>1, <1>3, <1>5 DEF Course
<1>6. OnCourse'
  BY <1>1, <1>5 DEF RoomInv, OnCourse
<1> QED
  BY <1>2, <1>4, <1>6 DEF RoomInv

-----------------------------------------------------------------------------
(* The handlers *)

\* A request over WebSocket or MBCP.
LEMMA RequestInv ==
  ASSUME RoomInv, NEW u \in Users, NEW t \in Tasks, NEW p \in Priorities, NEW lag \in Floor!Lags,
         Floor!request(u, p, lag),
         \/ Start(t, AllEffects(WsRequestEffects, actions'))
         \/ Start(t, AllEffects(MbcpEffects, actions'))
  PROVE  RoomInv'
<1>1. FP!IInv /\ FP!IInv' /\ FP!request(u, p, lag) /\ lag \in FP!Lags
  BY FloorSteps, SameOperations, SameTerms DEF RoomInv
<1>2. \/ FP!Unmoved({<<FP!Result("Queued", u)>>, <<FP!Result("Denied", u)>>})
      \/ actions' = <<FP!Result("Granted", u)>> /\ state'.speaker = u
      \/ \E x \in Users : /\ actions' = <<FP!Result("Revoked", x), FP!Result("Granted", u)>>
                          /\ state'.speaker = u
  BY <1>1, FP!RequestOutcome, FloorConstants
<1>3. CASE FP!Unmoved({<<FP!Result("Queued", u)>>, <<FP!Result("Denied", u)>>})
  <2>1. /\ state'.speaker = state.speaker
        /\ actions' = <<FP!Result("Queued", u)>> \/ actions' = <<FP!Result("Denied", u)>>
    BY <1>3 DEF FP!Unmoved
  <2>2. Start(t, <<>>)
    BY <2>1, RequestEffects
  <2> QED
    BY <1>1, <2>1, <2>2, StartQuietly
<1>4. CASE \/ actions' = <<FP!Result("Granted", u)>> /\ state'.speaker = u
           \/ \E x \in Users : /\ actions' = <<FP!Result("Revoked", x), FP!Result("Granted", u)>>
                               /\ state'.speaker = u
  <2>1. /\ Announces(AllEffects(WsRequestEffects, actions'), state'.speaker)
        /\ Announces(AllEffects(MbcpEffects, actions'), state'.speaker)
    BY <1>4, RequestEffects
  <2> QED
    BY <1>1, <2>1, StartAnnouncing
<1> QED
  BY <1>2, <1>3, <1>4

\* What HandedOn says, in the terms of the effects lemmas.
LEMMA HandedOnCases ==
  ASSUME NEW what, NEW x \in Users, FP!HandedOn(what, x)
  PROVE  \E w \in Users :
           /\ actions' \in {<<FP!Result(what, x)>>, <<FP!Result(what, x), FP!Result("Granted", w)>>}
           /\ state'.speaker = IF actions' = <<FP!Result(what, x)>> THEN NoOne ELSE w
<1>1. CASE actions' = <<FP!Result(what, x)>> /\ state'.speaker = NoOne
  BY <1>1
<1>2. CASE \E w \in Users : /\ actions' = <<FP!Result(what, x), FP!Result("Granted", w)>>
                            /\ state'.speaker = w
  <2>1. PICK w \in Users : /\ actions' = <<FP!Result(what, x), FP!Result("Granted", w)>>
                           /\ state'.speaker = w
    BY <1>2
  <2> DEFINE a == FP!Result(what, x)
             b == FP!Result("Granted", w)
  <2>2. <<a, b>> # <<a>>
    OBVIOUS
  <2> QED
    BY <2>1, <2>2
<1> QED
  BY <1>1, <1>2 DEF FP!HandedOn

\* A release over WebSocket or MBCP.
LEMMA ReleaseInv ==
  ASSUME RoomInv, NEW u \in Users, NEW t \in Tasks, Floor!release(u),
         \/ Start(t, ReleaseFlush(actions') \o AllEffects(ApplyEffects, actions'))
         \/ Start(t, ReleaseFlush(actions') \o AllEffects(MbcpEffects, actions'))
  PROVE  RoomInv'
<1>1. FP!IInv /\ FP!IInv' /\ FP!release(u)
  BY FloorSteps, SameOperations DEF RoomInv
<1>2. FP!Unmoved({<<>>}) \/ FP!HandedOn("Released", u)
  BY <1>1, FP!ReleaseOutcome, FloorConstants
<1>3. CASE FP!Unmoved({<<>>})
  <2>1. state'.speaker = state.speaker /\ actions' = <<>>
    BY <1>3 DEF FP!Unmoved
  <2>2. <<>> \o <<>> = <<>>
    OBVIOUS
  <2>3. /\ ReleaseFlush(actions') \o AllEffects(ApplyEffects, actions') = <<>>
        /\ ReleaseFlush(actions') \o AllEffects(MbcpEffects, actions') = <<>>
    BY <2>1, <2>2, FlushOfRelease, EffectsOfActions
  <2>4. Start(t, <<>>)
    BY <2>3
  <2> QED
    BY <1>1, <2>1, <2>4, StartQuietly
<1>4. CASE FP!HandedOn("Released", u)
  <2>1. PICK w \in Users :
          /\ actions' \in {<<FP!Result("Released", u)>>,
                           <<FP!Result("Released", u), FP!Result("Granted", w)>>}
          /\ state'.speaker = IF actions' = <<FP!Result("Released", u)>> THEN NoOne ELSE w
    BY <1>4, HandedOnCases
  <2>2. /\ Announces(ReleaseFlush(actions') \o AllEffects(ApplyEffects, actions'), state'.speaker)
        /\ Announces(ReleaseFlush(actions') \o AllEffects(MbcpEffects, actions'), state'.speaker)
    BY <2>1, ReleaseEffects
  <2> QED
    BY <1>1, <2>2, StartAnnouncing
<1> QED
  BY <1>2, <1>3, <1>4

\* A leave, or the cleanup after a lost WebSocket.
LEMMA LeaveInv ==
  ASSUME RoomInv, NEW u \in Users, handle_room_leave(u)
  PROVE  RoomInv'
<1>0. /\ u \in Tasks /\ Floor!on_participant_leave(u)
      /\ Start(u, AllEffects(ApplyEffects, actions') \o LeaveFlush(actions') \o <<Do("remove", u)>>)
  BY DEF handle_room_leave, Tasks
<1>1. FP!IInv /\ FP!IInv' /\ FP!on_participant_leave(u)
  BY <1>0, FloorSteps, SameOperations DEF RoomInv
<1>2. FP!Unmoved({<<>>}) \/ FP!HandedOn("Released", u)
  BY <1>1, FP!LeaveOutcome, FloorConstants
<1>3. CASE FP!Unmoved({<<>>})
  <2>1. state'.speaker = state.speaker /\ actions' = <<>>
    BY <1>3 DEF FP!Unmoved
  <2> DEFINE a == <<Do("remove", u)>>
  <2>2. a \in Seq(EffectRec)
    BY OneEffect DEF Effects
  <2>3. AllEffects(ApplyEffects, actions') = <<>> /\ LeaveFlush(actions') = <<>>
    BY <2>1, EffectsOfActions DEF LeaveFlush
  <2> HIDE DEF a
  <2>4. <<>> \o <<>> = <<>> /\ <<>> \o a = a
    BY <2>2, ConcatEmptySeq
  <2>5. Start(u, a)
    BY <1>0, <2>3, <2>4 DEF a
  <2> QED
    BY <1>0, <1>1, <2>1, <2>5, StartQuietly DEF a
<1>4. CASE FP!HandedOn("Released", u)
  <2>1. PICK w \in Users :
          /\ actions' \in {<<FP!Result("Released", u)>>,
                           <<FP!Result("Released", u), FP!Result("Granted", w)>>}
          /\ state'.speaker = IF actions' = <<FP!Result("Released", u)>> THEN NoOne ELSE w
    BY <1>4, HandedOnCases
  <2>2. Announces(AllEffects(ApplyEffects, actions') \o LeaveFlush(actions') \o <<Do("remove", u)>>,
                  state'.speaker)
    BY <2>1, LeaveEffects
  <2> QED
    BY <1>0, <1>1, <2>2, StartAnnouncing
<1> QED
  BY <1>2, <1>3, <1>4

\* A run of the floor timer.
LEMMA TimerInv ==
  ASSUME RoomInv, run_floor_timer
  PROVE  RoomInv'
<1>0. PICK lag \in Floor!Lags :
        Floor!check_timers(lag) /\ Start(Timer, AllEffects(TimerEffects, actions'))
  BY DEF run_floor_timer
<1>1. FP!IInv /\ FP!IInv' /\ FP!check_timers(lag) /\ lag \in FP!Lags /\ Timer \in Tasks
  BY <1>0, FloorSteps, SameOperations, SameTerms DEF RoomInv, Tasks
<1>2. FP!Unmoved({<<>>}) \/ \E x \in Users : FP!HandedOn("Revoked", x)
  BY <1>1, FP!TimerOutcome, FloorConstants
<1>3. CASE FP!Unmoved({<<>>})
  <2>1. state'.speaker = state.speaker /\ actions' = <<>>
    BY <1>3 DEF FP!Unmoved
  <2>2. Start(Timer, <<>>)
    BY <1>0, <2>1, EffectsOfActions
  <2> QED
    BY <1>1, <2>1, <2>2, StartQuietly
<1>4. CASE \E x \in Users : FP!HandedOn("Revoked", x)
  <2>0. PICK x \in Users : FP!HandedOn("Revoked", x)
    BY <1>4
  <2>1. PICK w \in Users :
          /\ actions' \in {<<FP!Result("Revoked", x)>>,
                           <<FP!Result("Revoked", x), FP!Result("Granted", w)>>}
          /\ state'.speaker = IF actions' = <<FP!Result("Revoked", x)>> THEN NoOne ELSE w
    BY <2>0, HandedOnCases
  <2>2. Announces(AllEffects(TimerEffects, actions'), state'.speaker)
    BY <2>1, RevokedByTimer
  <2> QED
    BY <1>0, <1>1, <2>2, StartAnnouncing
<1> QED
  BY <1>2, <1>3, <1>4

\* A ping over WebSocket or MBCP.
LEMMA PingInv ==
  ASSUME RoomInv, NEW u \in Users, NEW t \in Tasks, NEW lag \in Floor!Lags,
         Floor!ping(u, lag), Start(t, <<>>)
  PROVE  RoomInv'
<1>1. FP!IInv /\ FP!IInv' /\ FP!ping(u, lag) /\ lag \in FP!Lags
  BY FloorSteps, SameOperations, SameTerms DEF RoomInv
<1>2. state'.speaker = state.speaker
  BY <1>1, FP!PingOutcome, FloorConstants
<1> QED
  BY <1>1, <1>2, StartQuietly

\* One step of the room: one case per handler.
LEMMA RoomStep == RoomInv /\ [Next]_roomVars => RoomInv'
<1> SUFFICES ASSUME RoomInv, [Next]_roomVars PROVE RoomInv'
  OBVIOUS
<1>0. Worker \in Tasks /\ Users \subseteq Tasks
  BY DEF Tasks
<1>1. ASSUME NEW u \in Users, handle_floor_request(u) PROVE RoomInv'
  BY <1>0, <1>1, RequestInv DEF handle_floor_request
<1>2. ASSUME NEW u \in Users, handle_floor_release(u) PROVE RoomInv'
  BY <1>0, <1>2, ReleaseInv DEF handle_floor_release
<1>3. ASSUME NEW u \in Users, handle_floor_ping(u) PROVE RoomInv'
  BY <1>0, <1>3, PingInv DEF handle_floor_ping
<1>4. ASSUME NEW u \in Users, MbcpRequest(u) PROVE RoomInv'
  BY <1>0, <1>4, RequestInv DEF MbcpRequest
<1>5. ASSUME NEW u \in Users, MbcpRelease(u) PROVE RoomInv'
  BY <1>0, <1>5, ReleaseInv DEF MbcpRelease
<1>6. ASSUME NEW u \in Users, MbcpPing(u) PROVE RoomInv'
  BY <1>0, <1>6, PingInv DEF MbcpPing
<1> QED
  BY <1>1, <1>2, <1>3, <1>4, <1>5, <1>6, LeaveInv, JoinInv, TimerInv, ReaperInv, EffectInv, IdleInv
  DEF Next

\* An empty room is in line.
LEMMA RoomInit == Init => RoomInv
<1> SUFFICES ASSUME Init PROVE RoomInv
  OBVIOUS
<1>1. FP!IInv
  BY SameOperations, FP!InvInit, FloorConstants DEF Init
<1>2. RoomTyped
  <2>1. [t \in Tasks |-> <<>>] \in [Tasks -> Seq(EffectRec)]
    OBVIOUS
  <2>2. [u \in Users |-> NoOne] \in [Users -> Users \cup {NoOne}]
    OBVIOUS
  <2> QED
    BY <2>1, <2>2 DEF Init, RoomTyped
<1>3. Course(Timer)
  <2>1. /\ todo[Timer] = <<>> /\ members = {} /\ audio = NoOne /\ video = NoOne
        /\ \A x \in Tasks \ {Timer} : todo[x] = <<>>
    BY DEF Init, Tasks
  <2> QED
    BY <2>1, LeadsNowhere DEF Course
<1> QED
  BY <1>1, <1>2, <1>3 DEF RoomInv, OnCourse, Tasks

-----------------------------------------------------------------------------
(* Theorems *)

\* The room's state keeps its types, whatever the handlers' interleaving.
THEOREM RoomTypes == Spec => []TypeOK
<1>1. Spec => []RoomInv
  BY RoomInit, RoomStep, PTL DEF Spec
<1>2. RoomInv => TypeOK
  BY FloorTypes DEF RoomInv, RoomTyped, TypeOK, EffectRec
<1> QED
  BY <1>1, <1>2, PTL

\* One floor change that runs alone, whichever of the handlers makes it, leaves
\* both rewriters with the floor's speaker or with nobody: for any number of
\* users and of handlers that overlapped before.
THEOREM RewritersFollow == Spec => []RewritersFollowFloor
<1>1. Spec => []RoomInv
  BY RoomInit, RoomStep, PTL DEF Spec
<1>2. RoomInv => RewritersFollowFloor
  BY WhenSettled DEF RewritersFollowFloor
<1> QED
  BY <1>1, <1>2, PTL

\* The same change tells every participant who has the floor now.
THEOREM ClientsAreTold == Spec => []ClientsKnowSpeaker
<1>1. Spec => []RoomInv
  BY RoomInit, RoomStep, PTL DEF Spec
<1>2. RoomInv => ClientsKnowSpeaker
  BY WhenSettled DEF ClientsKnowSpeaker
<1> QED
  BY <1>1, <1>2, PTL

=============================================================================
