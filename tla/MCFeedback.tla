----------------------------- MODULE MCFeedback -----------------------------
(* RecvStats and TwccRecorder are both fed by collect_rtp_stats and otherwise  *)
(* independent: a behaviour is one of the one or of the other.                 *)
EXTENDS RecvStats, Twcc

VARIABLE fed

FeedbackInit == RecvInit /\ TwccInit /\ fed \in {"recv_stats", "twcc"}

FeedbackNext ==
  /\ UNCHANGED fed
  /\ \/ fed = "recv_stats" /\ RecvNext /\ UNCHANGED twccVars
     \/ fed = "twcc" /\ TwccNext /\ UNCHANGED recvVars

FeedbackSpec == FeedbackInit /\ [][FeedbackNext]_<<recvVars, twccVars, fed>>

\* Both states keep their types and widths: the numbers and cycles of RecvStats and
\* the 24 bits of a report's loss (rtcp_terminator.rs 192-193), and each slot of the
\* TWCC ring holds a number of its own (twcc.rs 165-166).
FeedbackTypeOK == RecvTypeOK /\ TwccTypeOK
=============================================================================
