CONSTANTS
  Direct = 1
  Links = 2
  NumBlocks = 4
  U32 = 6
  Writes <- FullWrites
  Reads <- SomeReads
  MaxOps = 3
  MaxCrashes = 1
SPECIFICATION FairSpec
INVARIANTS
  FailedAssertsExplained
PROPERTIES
  FailsOnlyWhenShort
  RequestEnds
