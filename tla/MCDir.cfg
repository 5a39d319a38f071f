CONSTANTS
  Names <- SomeNames
  NoName = "no name"
  NewNames = {"a", "lo"}
  Need <- SomeNeeds
  Dot = "."
  DotDot = ".."
  Self = 1
  Parent = 2
  Inodes = {3, 4, 5}
  BlockLen = 9
  MaxBlocks = 2
  MaxCrashes = 1
SPECIFICATION FairSpec
INVARIANTS
  TypeOK
  Tiling
  SlackClear
PROPERTIES
  RmdirExact
  ImplementsNames
  OperationEnds
