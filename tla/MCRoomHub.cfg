SPECIFICATION Spec
CONSTANTS
  Users = {u1, u2}
  Rooms = {r1, r2}
  Addrs = {a1, a2}
  PcTypes = {Publish}
  Parts = {p1, p2}
  Tasks = {t1, t2}
  Capacity = 1
  None = None
CHECK_DEADLOCK FALSE
SYMMETRY HubSymmetry
INVARIANTS
  TypeOK
  MemberReachable
  RemovedUnreachable
  MediaOwner
