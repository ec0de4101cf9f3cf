---------------------------- MODULE PttRewriter -----------------------------
(***************************************************************************)
(* PttRewriter of src/room/ptt_rewriter.rs: the packets of one speaker     *)
(* after another become one RTP stream with a virtual SSRC. Every method   *)
(* holds the Mutex for its whole body, so a method is one action. A room   *)
(* has two rewriters, audio and video, which differ in require_keyframe    *)
(* and ts_guard_gap: both are initial states here.                         *)
(*                                                                         *)
(* The environment is a publisher per user, whose packets are numbered in  *)
(* the order it sent them; the network loses packets and delivers some     *)
(* late. Sequence numbers wrap at SeqMod (2^16 in the code), timestamps at *)
(* TsMod (2^32). Times are ages in ticks of one frame (20 or 33 ms).       *)
(***************************************************************************)
EXTENDS Integers, Sequences, FiniteSets, FiniteSetsExt

CONSTANTS
  Users, NoOne,
  SeqMod, TsMod,
  TsPerTick,     \* 48 * 20 or 90 * 33: timestamp units of one tick
  GuardGap,      \* ts_guard_gap
  SilenceCount,  \* SILENCE_FLUSH_COUNT
  HotTicks,      \* 50 ms: a shorter wait for the first packet is not compensated
  OrigStart,     \* the sequence number a publisher starts with
  MaxIdle,       \* bound: an age stops growing here
  MaxSent,       \* bound: packets a publisher sends
  MaxOut,        \* bound: packets on the virtual stream
  MaxSwitch      \* bound: speaker switches

ASSUME RewriterAssumption ==
  /\ NoOne \notin Users
  /\ SeqMod \in Nat \ {0} /\ TsMod \in Nat \ {0}
  /\ {TsPerTick, GuardGap, SilenceCount, HotTicks, OrigStart} \subseteq Nat
  /\ {MaxIdle, MaxSent, MaxOut, MaxSwitch} \subseteq Nat

Never == -1   \* Option::None of an Instant

VARIABLES
  require_keyframe,  \* the video rewriter
  s,                 \* RewriteState
  sent,              \* per user: how many packets its publisher has sent
  lost,              \* per user: the numbers of those that have not arrived
  out,               \* history: the packets put on the virtual stream
  burst,             \* history: how often the speaker was switched
  due,               \* history: the timestamp gap the pending switch owes
  late               \* history: some packet arrived behind a later one

rewriterVars == <<require_keyframe, s, sent, lost, out, burst, due, late>>

-----------------------------------------------------------------------------
(* Wrapping arithmetic of u16 and u32 *)

SeqAdd_mut_nowrap(a, b) == a + b

SeqAdd(a, b) == (a + b) % SeqMod
SeqSub(a, b) == (a - b) % SeqMod
TsAdd(a, b)  == (a + b) % TsMod
TsSub(a, b)  == (a - b) % TsMod
SatSub(a, b) == IF a > b THEN a - b ELSE 0

\* elapsed_ms.saturating_mul(48 or 90)
TicksToTs(t) == Min({t * TsPerTick, TsMod - 1})

\* The RTP header of the n-th packet of a publisher.
OrigSeq(n) == SeqAdd(OrigStart, n)
OrigTs(n)  == TsAdd(0, n * GuardGap)

-----------------------------------------------------------------------------
RewriteState ==
  [speaker: Users \cup {NoOne},
   origin_base_seq: 0..SeqMod - 1,  origin_base_ts: 0..TsMod - 1,
   virtual_base_seq: 0..SeqMod - 1, virtual_base_ts: 0..TsMod - 1,
   last_virtual_seq: 0..SeqMod - 1, last_virtual_ts: 0..TsMod - 1,
   awaiting_first_packet: BOOLEAN,  pending_keyframe: BOOLEAN,
   cleared_at: {Never} \cup 0..MaxIdle, switched_at: {Never} \cup 0..MaxIdle]

\* `user' is NoOne for an injected silence frame; `num' the publisher's number
\* for the packet; `first' that it opened its burst, `key' that it did so as a
\* keyframe; `due' the timestamp gap owed at that point.
OutPacket ==
  [seq: 0..SeqMod - 1, ts: 0..TsMod - 1, user: Users \cup {NoOne}, num: 0..MaxSent,
   burst: 0..MaxSwitch, first: BOOLEAN, key: BOOLEAN, due: Nat]

Init ==
  /\ require_keyframe \in BOOLEAN
  /\ s = [speaker |-> NoOne,
          origin_base_seq |-> 0, origin_base_ts |-> 0,
          virtual_base_seq |-> 0, virtual_base_ts |-> 0,
          last_virtual_seq |-> 0, last_virtual_ts |-> 0,
          awaiting_first_packet |-> FALSE, pending_keyframe |-> FALSE,
          cleared_at |-> Never, switched_at |-> Never]
  /\ sent = [u \in Users |-> 0]
  /\ lost = [u \in Users |-> {}]
  /\ out = <<>>
  /\ burst = 0
  /\ due = 0
  /\ late = FALSE

-----------------------------------------------------------------------------
(* Speaker switches *)

DynamicTsGap_mut_fixed(st) == GuardGap

\* The idle time since clear_speaker, as timestamp units, at least one guard gap.
DynamicTsGap(st) ==
  IF st.cleared_at = Never THEN GuardGap
  ELSE Max({TicksToTs(st.cleared_at), GuardGap})

\* Audio: clear_speaker's silence frames already advanced last_virtual_ts.
SwitchTsGap(st) ==
  IF require_keyframe THEN DynamicTsGap(st)
  ELSE SatSub(DynamicTsGap(st), SilenceCount * GuardGap)

switch_speaker(u) ==
  /\ burst < MaxSwitch
  /\ s' = [s EXCEPT !.virtual_base_ts = TsAdd(s.last_virtual_ts, SwitchTsGap(s)),
                    !.virtual_base_seq = SeqAdd(s.last_virtual_seq, 1),
                    !.cleared_at = Never,
                    !.speaker = u,
                    !.awaiting_first_packet = TRUE,
                    !.pending_keyframe = require_keyframe,
                    !.switched_at = 0]
  /\ burst' = burst + 1
  /\ due' = IF s.cleared_at = Never THEN 0 ELSE TicksToTs(s.cleared_at)
  /\ UNCHANGED <<require_keyframe, sent, lost, out, late>>

\* The code's test for "nothing rewritten yet" is that both values are 0.
FlushesSilence == ~require_keyframe /\ ~(s.last_virtual_seq = 0 /\ s.last_virtual_ts = 0)

SilenceFrame(i) ==
  [seq |-> SeqAdd(s.last_virtual_seq, i), ts |-> TsAdd(s.last_virtual_ts, i * GuardGap),
   user |-> NoOne, num |-> 0, burst |-> burst, first |-> FALSE, key |-> FALSE, due |-> 0]

SilenceAdvance_mut_noseq(st) ==
  [st EXCEPT !.last_virtual_ts = TsAdd(@, SilenceCount * GuardGap)]

SilenceAdvance(st) ==
  [st EXCEPT !.last_virtual_seq = SeqAdd(@, SilenceCount),
             !.last_virtual_ts = TsAdd(@, SilenceCount * GuardGap)]

clear_speaker ==
  LET c == [s EXCEPT !.speaker = NoOne, !.awaiting_first_packet = FALSE,
                     !.pending_keyframe = FALSE, !.cleared_at = 0, !.switched_at = Never]
  IN  /\ IF FlushesSilence
         THEN /\ Len(out) + SilenceCount <= MaxOut
              /\ s' = SilenceAdvance(c)
              /\ out' = out \o [i \in 1..SilenceCount |-> SilenceFrame(i)]
         ELSE s' = c /\ out' = out
      /\ UNCHANGED <<require_keyframe, sent, lost, burst, due, late>>

-----------------------------------------------------------------------------
(* Packets *)

\* Packet n of u reaches the server: the next ones in order, possibly with
\* losses before it, or one that was overtaken.
Arrives(u, n) ==
  \/ /\ n >= sent[u]
     /\ sent' = [sent EXCEPT ![u] = n + 1]
     /\ lost' = [lost EXCEPT ![u] = @ \cup (sent[u]..(n - 1))]
     /\ late' = late
  \/ /\ n \in lost[u]
     /\ lost' = [lost EXCEPT ![u] = @ \ {n}]
     /\ late' = TRUE
     /\ sent' = sent

\* Time spent waiting for the first packet (video), when it exceeds 50 ms.
PendingTs(st) ==
  IF require_keyframe /\ st.switched_at # Never /\ st.switched_at > HotTicks
  THEN TicksToTs(st.switched_at) ELSE 0

Rebased_mut_always(st, n) ==
  [st EXCEPT !.origin_base_seq = OrigSeq(n), !.origin_base_ts = OrigTs(n),
             !.awaiting_first_packet = FALSE]

\* The first packet after a switch becomes the origin of the burst.
Rebased(st, n) ==
  IF st.awaiting_first_packet
  THEN [st EXCEPT !.origin_base_seq = OrigSeq(n), !.origin_base_ts = OrigTs(n),
                  !.virtual_base_ts = TsAdd(@, PendingTs(st)),
                  !.switched_at = IF require_keyframe THEN Never ELSE @,
                  !.awaiting_first_packet = FALSE]
  ELSE st

VirtualSeq(st, n) == SeqAdd(SeqSub(OrigSeq(n), st.origin_base_seq), st.virtual_base_seq)
VirtualTs(st, n)  == TsAdd(TsSub(OrigTs(n), st.origin_base_ts), st.virtual_base_ts)

PendingDrop_mut_never(key) == FALSE

PendingDrop(key) == s.pending_keyframe /\ ~key

\* RewriteResult::Skip and PendingKeyframe change nothing; to the stream such a
\* packet is one that did not arrive.
rewrite(u, n, key) ==
  /\ s.speaker = u /\ ~PendingDrop(key)
  /\ Len(out) < MaxOut
  /\ Arrives(u, n)
  /\ LET st == Rebased(s, n)
     IN  /\ s' = [st EXCEPT !.pending_keyframe = FALSE,
                            !.last_virtual_seq = VirtualSeq(st, n),
                            !.last_virtual_ts = VirtualTs(st, n)]
         /\ out' = Append(out,
              [seq |-> VirtualSeq(st, n), ts |-> VirtualTs(st, n), user |-> u,
               num |-> n, burst |-> burst, first |-> s.awaiting_first_packet,
               key |-> s.awaiting_first_packet /\ key,
               due |-> IF s.awaiting_first_packet THEN due + PendingTs(s) ELSE 0])
  /\ due' = 0
  /\ UNCHANGED <<require_keyframe, burst>>

\* Queries. The NACK of a virtual sequence number is looked up under this one.
reverse_seq_mut_last(vs) == SeqAdd(SeqSub(vs, s.last_virtual_seq), s.origin_base_seq)

reverse_seq(vs) == SeqAdd(SeqSub(vs, s.virtual_base_seq), s.origin_base_seq)

\* The timestamp of a sender report; Never when there is no mapping yet.
translate_rtp_ts(ts) ==
  IF s.speaker = NoOne \/ s.awaiting_first_packet THEN Never
  ELSE TsAdd(TsSub(ts, s.origin_base_ts), s.virtual_base_ts)

Older(age) == IF age = Never THEN Never ELSE Min({age + 1, MaxIdle})

Tick ==
  /\ s' = [s EXCEPT !.cleared_at = Older(@), !.switched_at = Older(@)]
  /\ UNCHANGED <<require_keyframe, sent, lost, out, burst, due, late>>

Next ==
  \/ \E u \in Users : switch_speaker(u)
  \/ clear_speaker
  \/ \E u \in Users, n \in 0..MaxSent - 1, key \in BOOLEAN :
       /\ key => require_keyframe
       /\ rewrite(u, n, key)
  \/ Tick

Spec == Init /\ [][Next]_rewriterVars

-----------------------------------------------------------------------------
(* Properties *)

\* All state has its type; in particular all arithmetic stays in width.
TypeOK ==
  /\ require_keyframe \in BOOLEAN
  /\ s \in RewriteState
  /\ sent \in [Users -> 0..MaxSent]
  /\ lost \in [Users -> SUBSET (0..MaxSent - 1)]
  /\ out \in Seq(OutPacket)
  /\ Len(out) <= MaxOut
  /\ burst \in 0..MaxSwitch
  /\ due \in Nat
  /\ late \in BOOLEAN

Voice(i) == out[i].user # NoOne

\* While packets arrive in order, the receiver sees a gap in the virtual
\* sequence numbers exactly where the publisher's own stream has one: not at a
\* speaker switch, not around the silence frames, and not where a number wraps.
\* (A gap at every switch would bring a NACK for packets nobody ever sent.)
GapsAreLosses ==
  ~late => \A i \in 1..Len(out) - 1 :
    SeqSub(out[i + 1].seq, out[i].seq) =
      IF Voice(i + 1) /\ ~out[i + 1].first
      THEN SeqSub(OrigSeq(out[i + 1].num), OrigSeq(out[i].num))
      ELSE 1 % SeqMod

\* No two packets of one burst share a sequence number, and the numbers keep
\* the order the publisher gave the packets, in whatever order they arrive
\* (ptt_rewriter.rs 12).
OrderKept ==
  \A i, j \in 1..Len(out) :
    /\ Voice(i) /\ Voice(j)
    /\ out[i].burst = out[j].burst
    => SeqSub(out[j].seq, out[i].seq) = SeqSub(OrigSeq(out[j].num), OrigSeq(out[i].num))

\* The timestamps of the virtual stream leave room for the time that really
\* passed: the idle time before the switch and, for video, the wait for the
\* first packet. Otherwise the jitter buffer takes the idle time for jitter.
IdleTimeInTs ==
  ~late => \A i, j \in 1..Len(out) :
    /\ i < j /\ Voice(i) /\ out[j].first
    /\ \A k \in i + 1..j - 1 : ~Voice(k)
    => TsSub(out[j].ts, out[i].ts) >= out[j].due

\* A receiver's decoder never starts a video burst on anything but a keyframe.
KeyframeFirst ==
  require_keyframe => \A i \in 1..Len(out) :
    (\A k \in 1..i - 1 : out[k].burst # out[i].burst) => out[i].key

\* The NACK path and the sender reports undo and redo exactly what rewrite did
\* to the packets of the burst that is running, late ones included.
MappingExact ==
  \A i \in 1..Len(out) :
    Voice(i) /\ out[i].burst = burst =>
      /\ reverse_seq(out[i].seq) = OrigSeq(out[i].num)
      /\ s.speaker # NoOne => translate_rtp_ts(OrigTs(out[i].num)) = out[i].ts
=============================================================================
