SPECIFICATION Spec
CONSTANTS
  u1 = u1
  u2 = u2
  Users = {u1, u2}
  NoOne = NoOne
  SeqMod = 5
  TsMod = 64
  TsPerTick = 1
  GuardGap = 1
  SilenceCount = 3
  HotTicks = 1
  OrigStart = 4
  MaxIdle = 4
  MaxSent = 3
  MaxOut = 7
  MaxSwitch = 2
SYMMETRY UserSymmetry
INVARIANTS TypeOK GapsAreLosses OrderKept  KeyframeFirst MappingExact
