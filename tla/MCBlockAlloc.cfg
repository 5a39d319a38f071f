CONSTANTS
  U32 = 64
  U16 = 6
  Sb <- SmallSb
  InodeTable <- SmallTable
  Data <- SmallData
  MaxChain = 3
  MaxCrashes = 1
SPECIFICATION FairSpec
INVARIANTS
  TypeOK
  BitmapSound
  HaltsExplained
  DriftBounded
PROPERTIES
  FreshBlock
  FailsOnlyWhenFull
  ScanEnds
