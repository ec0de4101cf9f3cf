---------------------------- MODULE FloorControl ----------------------------
(***************************************************************************)
(* FloorController of src/room/floor.rs: who may talk in a PTT room.       *)
(* Every public method takes the one Mutex for its whole body, so a method *)
(* is one action.                                                          *)
(*                                                                         *)
(* Time.  The code stores wall-clock stamps and only ever looks at         *)
(* differences of stamps, so the model keeps AGES: how long ago the stamp  *)
(* is.  A caller samples the clock before it waits for the Mutex; `lag' is *)
(* how old that sample is when the method runs, 0..MaxLag.  An age stops   *)
(* growing at the first value no comparison can tell from a larger one,    *)
(* so time is unbounded and the model finite.                              *)
(***************************************************************************)
EXTENDS Integers, Sequences, SequencesExt

CONSTANTS
  Users,        \* user_ids
  NoOne,        \* Option::None
  Priorities,   \* the floor priorities requests carry (u8)
  Queuing,      \* FloorConfig.queuing_enabled
  Preemption,   \* FloorConfig.preemption_enabled
  MaxQueue,     \* FloorConfig.max_queue_size
  MaxBurst,     \* FloorConfig.max_burst_ms, in ticks
  PingTimeout,  \* FloorConfig.ping_timeout_ms, in ticks
  MaxLag        \* bound: the oldest clock sample a caller can come with

ASSUME FloorAssumption ==
  /\ NoOne \notin Users
  /\ Priorities \subseteq Nat
  /\ Queuing \in BOOLEAN
  /\ Preemption \in BOOLEAN
  /\ MaxQueue \in Nat
  /\ MaxBurst \in Nat
  /\ PingTimeout \in Nat
  /\ MaxLag \in Nat

VARIABLES
  state,         \* FloorInner.state, with ages for the two stamps
  queue,         \* FloorInner.queue, with ages for enqueued_at
  prev_speaker,  \* FloorInner.prev_speaker
  actions        \* the Vec<FloorAction> the last call returned

floorVars == <<state, queue, prev_speaker, actions>>

-----------------------------------------------------------------------------
(* State and results *)

Lags == 0..MaxLag

\* The first ages that no later comparison can tell from a larger age.
BurstCap == MaxBurst + MaxLag + 1
PingCap  == PingTimeout + MaxLag + 1
QueueCap == MaxLag

Idle == [speaker |-> NoOne, priority |-> 0, burst_age |-> 0, ping_age |-> 0]

Taken(u, p, lag) == [speaker |-> u, priority |-> p, burst_age |-> lag, ping_age |-> lag]

FloorState ==
  {Idle} \cup [speaker: Users, priority: Priorities,
               burst_age: 0..BurstCap, ping_age: 0..PingCap]

QueueEntry == [user_id: Users, priority: Priorities, age: 0..QueueCap]

ActionTypes == {"Granted", "Denied", "Queued", "Released", "Revoked", "PingOk", "PingDenied"}

\* `user' is the user the result is about: the new or previous speaker, the requester.
FloorAction == [type: ActionTypes, user: Users]

Result(t, u) == [type |-> t, user |-> u]

IsTaken == state.speaker # NoOne

-----------------------------------------------------------------------------
(* The queue *)

\* retain(|e| e.user_id != u). A user has one entry at most (OneEntryPerUser).
Retain(q, u) == RemoveFirstMatch(q, LAMBDA e : e.user_id = u)

IsQueued_mut_never(q, u) == FALSE

IsQueued(q, u) == \E i \in 1..Len(q) : q[i].user_id = u

IsFull_mut_offbyone(q) == Len(q) > MaxQueue

IsFull(q) == Len(q) >= MaxQueue

\* The comparator of sort_by: priority descending, then enqueued_at ascending,
\* that is, age descending.
Before(e, f) ==
  \/ e.priority > f.priority
  \/ e.priority = f.priority /\ e.age > f.age

InsertPos_mut_unsorted(q, e) == Len(q) + 1

InsertPos_mut_front(q, e) == 1

\* push, then a stable sort of a queue that was sorted: the new entry goes in
\* front of the first entry it comes before, and behind all others.
InsertPos(q, e) ==
  CHOOSE k \in 1..(Len(q) + 1) :
    /\ k <= Len(q) => Before(e, q[k])
    /\ \A i \in 1..(k - 1) : ~Before(e, q[i])

PushSorted(q, e) == InsertAt(q, InsertPos(q, e), e)

Capped(n, cap) == IF n < cap THEN n + 1 ELSE cap

-----------------------------------------------------------------------------
(* Operations *)

Init ==
  /\ state = Idle
  /\ queue = <<>>
  /\ prev_speaker = NoOne
  /\ actions = <<>>

Vacate_mut_nopop(u, q, result) ==
  /\ state' = Idle
  /\ queue' = q
  /\ prev_speaker' = u
  /\ actions' = <<result>>

\* The holder u loses the floor; _try_grant_next then hands it to the head of
\* the queue q, stamping the grant with a clock read of its own.
Vacate(u, q, result) ==
  IF q = <<>>
  THEN /\ state' = Idle
       /\ queue' = q
       /\ prev_speaker' = u
       /\ actions' = <<result>>
  ELSE /\ state' = Taken(Head(q).user_id, Head(q).priority, 0)
       /\ queue' = Tail(q)
       /\ prev_speaker' = NoOne
       /\ actions' = <<result, Result("Granted", Head(q).user_id)>>

RequestIdle(u, p, lag) ==
  /\ ~IsTaken
  /\ state' = Taken(u, p, lag)
  /\ prev_speaker' = NoOne
  /\ actions' = <<Result("Granted", u)>>
  /\ UNCHANGED queue

RequestAgain(u) ==
  /\ state.speaker = u
  /\ actions' = <<Result("Granted", u)>>
  /\ UNCHANGED <<state, queue, prev_speaker>>

MayPreempt_mut_equal(p) == Preemption /\ p >= state.priority

MayPreempt(p) == Preemption /\ p > state.priority

\* The preempting user's own queue entry, if it has one, stays in the queue.
RequestPreempt(u, p, lag) ==
  /\ IsTaken /\ state.speaker # u
  /\ MayPreempt(p)
  /\ state' = Taken(u, p, lag)
  /\ prev_speaker' = state.speaker
  /\ actions' = <<Result("Revoked", state.speaker), Result("Granted", u)>>
  /\ UNCHANGED queue

\* An already queued requester keeps its entry, with the old priority and stamp.
RequestWait(u, p, lag) ==
  /\ IsTaken /\ state.speaker # u
  /\ ~MayPreempt(p)
  /\ IF Queuing /\ IsQueued(queue, u)
     THEN queue' = queue /\ actions' = <<Result("Queued", u)>>
     ELSE IF ~Queuing \/ IsFull(queue)
     THEN queue' = queue /\ actions' = <<Result("Denied", u)>>
     ELSE /\ queue' = PushSorted(queue, [user_id |-> u, priority |-> p, age |-> lag])
          /\ actions' = <<Result("Queued", u)>>
  /\ UNCHANGED <<state, prev_speaker>>

request(u, p, lag) ==
  \/ RequestIdle(u, p, lag)
  \/ RequestAgain(u)
  \/ RequestPreempt(u, p, lag)
  \/ RequestWait(u, p, lag)

release(u) ==
  \/ /\ state.speaker = u
     /\ Vacate(u, queue, Result("Released", u))
  \/ /\ IsTaken /\ state.speaker # u
     /\ queue' = Retain(queue, u)
     /\ actions' = <<>>
     /\ UNCHANGED <<state, prev_speaker>>
  \/ /\ ~IsTaken
     /\ actions' = <<Result("Released", u)>>
     /\ UNCHANGED <<state, queue, prev_speaker>>

ping(u, lag) ==
  /\ IF state.speaker = u
     THEN state' = [state EXCEPT !.ping_age = lag] /\ actions' = <<Result("PingOk", u)>>
     ELSE state' = state /\ actions' = <<Result("PingDenied", u)>>
  /\ UNCHANGED <<queue, prev_speaker>>

cancel_queue(u) ==
  /\ queue' = Retain(queue, u)
  /\ actions' = <<>>
  /\ UNCHANGED <<state, prev_speaker>>

BurstExpired_mut_never(lag) == FALSE

\* now.saturating_sub(burst_start) > max_burst_ms
BurstExpired(lag) == state.burst_age - lag > MaxBurst

PingExpired(lag) == state.ping_age - lag > PingTimeout

check_timers(lag) ==
  \/ /\ IsTaken
     /\ BurstExpired(lag) \/ PingExpired(lag)
     /\ Vacate(state.speaker, queue, Result("Revoked", state.speaker))
  \/ /\ IsTaken => ~BurstExpired(lag) /\ ~PingExpired(lag)
     /\ actions' = <<>>
     /\ UNCHANGED <<state, queue, prev_speaker>>

on_participant_leave(u) ==
  IF state.speaker = u
  THEN Vacate(u, Retain(queue, u), Result("Released", u))
  ELSE /\ queue' = Retain(queue, u)
       /\ actions' = <<>>
       /\ UNCHANGED <<state, prev_speaker>>

\* Time passes: every stamp is one tick older.
Tick ==
  /\ state' = IF IsTaken
              THEN [state EXCEPT !.burst_age = Capped(@, BurstCap),
                                 !.ping_age = Capped(@, PingCap)]
              ELSE state
  /\ queue' = [i \in 1..Len(queue) |-> [queue[i] EXCEPT !.age = Capped(@, QueueCap)]]
  /\ UNCHANGED <<prev_speaker, actions>>

Next ==
  \/ \E u \in Users, p \in Priorities, lag \in Lags : request(u, p, lag)
  \/ \E u \in Users : release(u)
  \/ \E u \in Users, lag \in Lags : ping(u, lag)
  \/ \E u \in Users : cancel_queue(u)
  \/ \E lag \in Lags : check_timers(lag)
  \/ \E u \in Users : on_participant_leave(u)
  \/ Tick

Spec == Init /\ [][Next]_floorVars

\* run_floor_timer is an endless interval loop and time does not stop. That the
\* loop at some point runs with a fresh sample is all it needs.
Fairness == WF_floorVars(Tick) /\ WF_floorVars(check_timers(0))

FairSpec == Spec /\ Fairness

-----------------------------------------------------------------------------
(* Properties *)

\* The state has its types; the queue never outgrows max_queue_size.
TypeOK ==
  /\ state \in FloorState
  /\ queue \in Seq(QueueEntry)
  /\ Len(queue) <= MaxQueue
  /\ prev_speaker \in Users \cup {NoOne}
  /\ actions \in Seq(FloorAction)

InOrder(q) == \A i, j \in 1..Len(q) : i < j => ~Before(q[j], q[i])

OneEach(q) == \A i, j \in 1..Len(q) : q[i].user_id = q[j].user_id => i = j

\* After any sequence of requests, cancels, leaves and grants, with clock
\* samples out of order, the queue is in the order the comparator of sort_by
\* states: so remove(0) in _try_grant_next takes the right entry.
QueueInOrder == InOrder(queue)

\* No user waits twice: a cancel or a leave, which retain() acts out, leaves
\* no second entry behind that would be granted later.
OneEntryPerUser == OneEach(queue)

\* Every path to Idle (release, T2, ping timeout, leave) also serves the queue:
\* the floor is never free while someone waits for it, since nothing would
\* then wake the waiter up.
NoWaiterOnFreeFloor == ~IsTaken => queue = <<>>

\* The three together, the inductive invariant of the proofs.
FloorInv == QueueInOrder /\ OneEntryPerUser /\ NoWaiterOnFreeFloor

\* A speaker that keeps pinging and asking again still loses the floor to T2.
NeverHeldForever == \A u \in Users : []<>(state.speaker # u)

\* T2 drains the queue: a waiter of the highest priority leaves the queue in
\* the end, though others keep requesting and late clock samples are sorted
\* in front of it.
TopWaiterServed ==
  \A u \in Users :
    LET Waits == \E i \in 1..Len(queue) :
                   /\ queue[i].user_id = u
                   /\ \A p \in Priorities : p <= queue[i].priority
    IN  Waits ~> ~Waits

\* The floor controller keeps the promise of FloorArbiter.
Arbiter ==
  INSTANCE FloorArbiter WITH
    holder <- state.speaker,
    rank <- state.priority,
    waiting <- {[user |-> queue[i].user_id, priority |-> queue[i].priority] :
                  i \in 1..Len(queue)}

RefinesArbiter == Arbiter!Spec

\* floor.rs 16: "Floor Release -> queue pop -> G:Taken (next) or G:Idle", and
\* FloorAction::Released: the user that lets the button go stops talking. The
\* entry that a preempting user leaves behind in the queue breaks it.
ReleaseEndsTalk ==
  \A u \in Users :
    ~(/\ \E i \in 1..Len(actions) : actions[i] = Result("Released", u)
      /\ \E i \in 1..Len(actions) : actions[i] = Result("Granted", u))
=============================================================================
