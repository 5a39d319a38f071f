CONSTANTS
  Direct = 1
  Links = 2
  NumBlocks = 22
  U32 = 24
  Writes <- SomeWrites
  Reads <- SomeReads
  MaxOps = 4
  MaxCrashes = 1
SPECIFICATION Spec
INVARIANTS
  TypeOK
  TreeSound
  IteratorCoherent
PROPERTIES
  ImplementsSparseFile
