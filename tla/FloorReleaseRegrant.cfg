SPECIFICATION Spec
CONSTANTS
  Users = {u1, u2, u3}
  NoOne = NoOne
  Priorities = {0, 1}
  Queuing = TRUE
  Preemption = TRUE
  MaxQueue = 2
  MaxBurst = 2
  PingTimeout = 1
  MaxLag = 1
INVARIANT ReleaseEndsTalk
