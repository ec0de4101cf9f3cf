------------------------------ MODULE RecvStats -----------------------------
(***************************************************************************)
(* RecvStats of src/transport/udp/rtcp_terminator.rs: what the server      *)
(* counts of one RTP stream and reports to its publisher every second.     *)
(*                                                                         *)
(* The publisher's packets are numbered 0, 1, 2, ... (packet n has the     *)
(* sequence number SeqOf(n) of u16 width); the network loses some and      *)
(* brings some late. Once the publisher may start its numbers anew.        *)
(* Jitter, LSR and DLSR are left out. The truth a report is compared with  *)
(* is kept in `truth', which the code does not have.                       *)
(***************************************************************************)
EXTENDS Integers, FiniteSets

CONSTANTS
  SeqMod,        \* 2^16
  Mod32,         \* 2^32
  MaxDropout,    \* RTP_SEQ_MAX_DROPOUT
  MaxMisorder,   \* RTP_SEQ_MAX_MISORDER
  MinSequential, \* RTP_SEQ_MIN_SEQUENTIAL
  MaxCumLost,    \* 0x7FFFFF
  FirstSeq,      \* the number of packet 0
  Jumps,         \* how far a restart jumps
  MaxSent,       \* bound: packets
  MaxLost,       \* the packets the network loses between two that arrive
  MaxLate        \* the packets that overtake another one

ASSUME RecvAssumption ==
  /\ SeqMod \in Nat \ {0} /\ Mod32 \in Nat \ {0} /\ MinSequential \in Nat \ {0, 1}
  /\ MaxDropout \in 1 .. SeqMod - 1 /\ MaxMisorder \in 1 .. SeqMod - 1
  /\ MaxCumLost \in Nat /\ FirstSeq \in 0 .. SeqMod - 1
  /\ Jumps \subseteq 0 .. SeqMod - 1
  /\ MaxSent \in 0 .. Mod32 - 1 /\ MaxLost \in Nat /\ MaxLate \in Nat

\* What RFC 3550 takes for granted of a network: packets are not late by more than
\* MAX_MISORDER, and no loss, taken together with the packets that are late
\* around it, is as long as MAX_DROPOUT; a restart jumps farther.
ASSUME RecvNetwork ==
  /\ MaxDropout + MaxMisorder <= SeqMod
  /\ MaxLate <= MaxMisorder
  /\ MaxLost + 2 * MaxLate + 1 < MaxDropout
  /\ \A j \in Jumps : j = 0 \/ j >= MaxDropout

VARIABLES
  stats,     \* the RecvStats object
  rsent,     \* packets sent
  rflight,   \* packets on their way
  rlost,     \* the packets lost that are newer than the last one that arrived
  jump,      \* the restart: first packet and jump (0: none yet)
  truth      \* since init_seq: its packet, the newest one, packets in that range and
             \* packets from before it; the same at the last report; how many
             \* packets came in order one after the other since the restart

recvVars == <<stats, rsent, rflight, rlost, jump, truth>>

-----------------------------------------------------------------------------
(* rtcp_terminator.rs *)

NewStats ==
  [initialized |-> FALSE, probation |-> MinSequential, max_seq |-> 0, cycles |-> 0,
   base_seq |-> 0, bad_seq |-> 0, received |-> 0, expected_prior |-> 0, received_prior |-> 0]

init_seq_mut_prior(st, seq) ==
  [st EXCEPT !.base_seq = seq, !.max_seq = seq, !.bad_seq = seq + 1, !.cycles = 0,
             !.received = 0]

\* bad_seq is a u32: at the last sequence number it becomes 65536.
init_seq(st, seq) ==
  [st EXCEPT !.base_seq = seq, !.max_seq = seq, !.bad_seq = seq + 1, !.cycles = 0,
             !.received = 0, !.received_prior = 0, !.expected_prior = 0]

Counted(st) == [st EXCEPT !.received = @ + 1]

\* seq is next in line (wrapping) after max_seq.
Follows(st, seq) == seq = (st.max_seq + 1) % SeqMod

UpdateProbation(st, seq) ==
  IF ~Follows(st, seq)
  THEN Counted([st EXCEPT !.probation = MinSequential - 1, !.max_seq = seq])
  ELSE IF st.probation = 1
       THEN Counted(init_seq([st EXCEPT !.probation = 0], seq))
       ELSE Counted([st EXCEPT !.probation = @ - 1, !.max_seq = seq])

IsBad_mut_never(st, seq) == FALSE

\* The second packet in line after a large jump.
IsBad(st, seq) == seq = st.bad_seq

UpdateValid(st, seq) ==
  LET udelta == (seq - st.max_seq) % SeqMod
  IN  IF udelta < MaxDropout
      THEN Counted([st EXCEPT !.cycles = IF seq < st.max_seq THEN @ + SeqMod ELSE @,
                              !.max_seq = seq])
      ELSE IF udelta <= SeqMod - 1 - MaxMisorder
           THEN IF IsBad(st, seq) THEN Counted(init_seq(st, seq))
                ELSE [st EXCEPT !.bad_seq = seq + 1]
           ELSE Counted(st)

update(st, seq) ==
  IF ~st.initialized
  THEN Counted([init_seq(st, seq) EXCEPT !.initialized = TRUE, !.probation = MinSequential - 1])
  ELSE IF st.probation > 0 THEN UpdateProbation(st, seq) ELSE UpdateValid(st, seq)

\* a - b, or 0.
Monus(a, b) == IF a > b THEN a - b ELSE 0

MinOf_mut_first(a, b) == a

MinOf(a, b) == IF a < b THEN a ELSE b

Expected(st) == (st.cycles + st.max_seq - st.base_seq + 1) % Mod32

\* fraction: before the cast to u8. In probation max_seq may be below base_seq,
\* then expected wraps.
build_rr_block(st) ==
  LET interval == (Expected(st) - st.expected_prior) % Mod32
      lost     == Monus(interval, (st.received - st.received_prior) % Mod32)
  IN  [fraction |-> IF interval > 0 THEN (lost * 256) \div interval ELSE 0,
       cum_lost |-> MinOf(Monus(Expected(st), st.received), MaxCumLost),
       ext_seq  |-> st.cycles + st.max_seq]

Snapshot(st) == [st EXCEPT !.expected_prior = Expected(st), !.received_prior = st.received]

-----------------------------------------------------------------------------
(* The stream *)

NoTruth == [first |-> 0, top |-> 0, seen |-> 0, stray |-> 0,
            expected |-> 0, got |-> 0, row |-> 0, last |-> -1]

RecvInit ==
  /\ stats = NewStats
  /\ rsent = 0 /\ rflight = {} /\ rlost = {}
  /\ jump = [at |-> 0, by |-> 0]
  /\ truth = NoTruth

SeqOf(n) ==
  (FirstSeq + n + (IF jump.by # 0 /\ n >= jump.at THEN jump.by ELSE 0)) % SeqMod

RecvSend ==
  /\ rsent < MaxSent /\ Cardinality(rflight) <= MaxLate
  /\ rflight' = rflight \cup {rsent} /\ rsent' = rsent + 1
  /\ UNCHANGED <<stats, rlost, jump, truth>>

RecvLose(n) ==
  /\ n \in rflight /\ Cardinality(rlost) < MaxLost
  /\ rflight' = rflight \ {n} /\ rlost' = rlost \cup {n}
  /\ UNCHANGED <<stats, rsent, jump, truth>>

\* The numbers jump. Nothing is on its way.
Restart(j) ==
  /\ rflight = {} /\ jump.by = 0 /\ stats.probation = 0
  /\ jump' = [at |-> rsent, by |-> j]
  /\ UNCHANGED <<stats, rsent, rflight, rlost, truth>>

\* What is true after packet n: a new range if init_seq was called, no change if
\* the packet is not counted.
TruthAfter(n, st) ==
  LET t   == truth
      row == IF n = t.last + 1 /\ n > jump.at THEN t.row + 1 ELSE 1
      ignored == st.max_seq = stats.max_seq /\ st.received = stats.received
  IN  IF ignored THEN [t EXCEPT !.row = row, !.last = n]
      ELSE IF st.received = 1
      THEN [NoTruth EXCEPT !.first = n, !.top = n, !.seen = 1, !.row = row, !.last = n]
      ELSE [t EXCEPT !.top = IF n > @ THEN n ELSE @,
                     !.seen = IF n >= t.first THEN @ + 1 ELSE @,
                     !.stray = IF n >= t.first THEN @ ELSE @ + 1,
                     !.row = row, !.last = n]

\* collect_rtp_stats, for a packet that is not RTX.
RecvPacket(n) ==
  LET st == update(stats, SeqOf(n))
  IN  /\ n \in rflight
      /\ \A m \in rflight : n - m <= MaxLate
      /\ rflight' = rflight \ {n} /\ rlost' = {m \in rlost : m > n}
      /\ stats' = st
      /\ truth' = TruthAfter(n, st)
      /\ UNCHANGED <<rsent, jump>>

TrueExpected == truth.top - truth.first + 1

TrueGot == truth.seen + truth.stray

\* send_rtcp_reports: the block that build_rr_block gives is sent.
RecvReport ==
  /\ stats.initialized
  /\ stats' = Snapshot(stats)
  /\ truth' = [truth EXCEPT !.expected = TrueExpected, !.got = TrueGot]
  /\ UNCHANGED <<rsent, rflight, rlost, jump>>

RecvNext ==
  \/ RecvSend \/ RecvReport
  \/ \E n \in rflight : RecvLose(n) \/ RecvPacket(n)
  \/ \E j \in Jumps : Restart(j)

RecvSpec == RecvInit /\ [][RecvNext]_recvVars

-----------------------------------------------------------------------------
(* Properties *)

\* The state has its types and widths.
RecvTypeOK ==
  /\ stats.initialized \in BOOLEAN /\ stats.probation \in 0 .. MinSequential
  /\ stats.max_seq \in 0 .. SeqMod - 1 /\ stats.base_seq \in 0 .. SeqMod - 1
  /\ stats.bad_seq \in 0 .. SeqMod
  /\ stats.cycles % SeqMod = 0
  /\ stats.received \in 0 .. Mod32 - 1
  /\ stats.expected_prior \in 0 .. Mod32 - 1 /\ stats.received_prior \in 0 .. Mod32 - 1
  /\ build_rr_block(stats).cum_lost \in 0 .. MaxCumLost
  /\ rsent \in 0 .. MaxSent /\ rflight \subseteq 0 .. rsent - 1 /\ rlost \subseteq 0 .. rsent - 1

\* The report that would be built now.
Due == build_rr_block(stats)

\* For a validated stream every report is true, over wraps of the sequence number,
\* losses, late packets and restarts: the highest number is that of the newest
\* packet of the range that began with init_seq, the cumulative loss is what is missing of
\* it (less the packets from before it), and the fraction is that of the
\* packets since the last report. The fraction fits into its byte: not even when
\* all packets but one are lost does it become 256.
ReportExact ==
  stats.probation = 0 =>
    LET expected == TrueExpected - truth.expected
        got      == TrueGot - truth.got
    IN  /\ Due.ext_seq - stats.base_seq = truth.top - truth.first
        /\ Due.ext_seq % SeqMod = SeqOf(truth.top)
        /\ Due.cum_lost = MinOf(Monus(TrueExpected, TrueGot), MaxCumLost)
        /\ Due.fraction = IF expected > 0 THEN (Monus(expected, got) * 256) \div expected ELSE 0
        /\ Due.fraction \in 0 .. 255

\* Three packets in order after a restart, and the statistics are those of the new
\* numbers (two are not enough when the first has number 65535: bad_seq does
\* not wrap).
RestartNoticed ==
  jump.by # 0 /\ truth.last >= jump.at /\ truth.row >= 3 => truth.first >= jump.at
=============================================================================
