SPECIFICATION Spec
CONSTANTS
  Users = {u1, u2}
  NoOne = NoOne
  Priorities = {0, 1}
  Queuing = TRUE
  Preemption = TRUE
  MaxQueue = 1
  MaxBurst = 0
  PingTimeout = 0
  MaxLag = 0
  Worker = Worker
  Timer = Timer
  MaxBusy = 2
SYMMETRY UserSymmetry
VIEW WhatIsRead
INVARIANTS
  TypeOK
  RewritersFollowFloor
  
