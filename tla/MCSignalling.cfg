SPECIFICATION Spec
CONSTANTS
  c1 = c1
  c2 = c2
  u1 = u1
  u2 = u2
  Conns = {c1, c2}
  Users = {u1, u2}
  UserOf <- MCUserOf
  Rooms = {r1}
  Reaper = Reaper
  MaxJoins = 3
  MaxQueue = 1
  MaxBusy = 2
  Simulcast = TRUE
  None = None
CHECK_DEADLOCK FALSE
INVARIANTS
  TypeOK
  PresentTracksExact
PROPERTY EverybodyAgrees
