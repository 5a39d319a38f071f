CONSTANTS
  Direct = 1
  Links = 2
  NumBlocks = 4
  U32 = 64
  Writes <- FullWrites
  Reads <- SomeReads
  MaxOps = 3
  MaxCrashes = 0
SPECIFICATION Spec
INVARIANTS
  AssertBitSet
