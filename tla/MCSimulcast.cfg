SPECIFICATION Spec
CONSTANTS
  SeqMod = 4
  CacheSize = 2
  Window = 1
  None = None
INVARIANTS TypeOK 
PROPERTIES GapsAreLosses DecodableOrKeyframe
