SPECIFICATION FeedbackSpec
CONSTANTS
  SeqMod = 32
  Mod32 = 256
  MaxDropout = 8
  MaxMisorder = 3
  MinSequential = 2
  MaxCumLost = 63
  FirstSeq = 22
  Jumps = {8, 13}
  MaxSent = 12
  MaxLost = 2
  MaxLate = 2
  NumMod = 12
  Capacity = 4
  StepBack = 1
  PerChunk = 3
  RefUnit = 4
  SmallMax = 3
  LargeMax = 6
  FirstNum = 7
  Pauses = {2}
  MaxPackets = 17
  MaxMissing = 2
  MaxBehind = 2
  MaxPending = 5
CHECK_DEADLOCK FALSE
INVARIANTS FeedbackTypeOK ReportExact RestartNoticed FeedbackTrue
