CONSTANTS
  NumGroups = 2
  InodesPerGroup = 3
  Reserved <- SomeReserved
  Root = 2
  U16 = 4
  U32 = 8
  MaxCrashes = 1
SPECIFICATION FairSpec
INVARIANTS
  TypeOK
  NamedMarked
  InodeDrift
PROPERTIES
  FreshInode
  FailsOnlyWhenFull
  OperationEnds
