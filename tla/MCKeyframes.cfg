SPECIFICATION FairSpec
CONSTANTS
  Subs = {s1}
  FirstVideo = "h"
  BurstLen = 2
  Slots = {b1, b2}
  MaxCalls = 1
  None = None
CHECK_DEADLOCK FALSE
INVARIANTS TypeOK 
PROPERTIES KeyframeArrives FirstKeyframeArrives
