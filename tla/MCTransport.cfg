SPECIFICATION FairSpec
CONSTANTS
  Sessions = {s1, s2}
  Subscribe = {s1}
  Patient = {s1}
  Addrs = {a1, a2, a3}
  LiveAddrReuse = FALSE
  None = None
CHECK_DEADLOCK FALSE
INVARIANTS TypeOK  DoneMeansMedia
PROPERTY Served
