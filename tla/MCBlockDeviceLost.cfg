CONSTANTS
  BlkSize = 3
  PartStart = 1
  U32 = 48
  ImageSize = 24
  Vals = {0, 1, 2}
  Junk = Junk
  Writes <- LostWrites
  Reads <- SomeReads
SPECIFICATION Spec
INVARIANTS
  WritesKept
