CONSTANTS
  U32 = 256
  MaxBlocks = 14
  MaxPerGroup = 5
  Direct = 12
  Links = 5
  MaxLine = 8
  Elem = {e1, e2, e3, e4, e5}
  Null = null
SPECIFICATION InMemorySpec
INVARIANTS
  BitsMatchBlocks
  ScanBounded
  PathSound
  WordsSplit
  Linked
