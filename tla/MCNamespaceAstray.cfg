CONSTANTS
  NumInodes = 4
  Root = 1
  Names = {"x"}
  Dot = "."
  DotDot = ".."
  NoName = "no name"
  U16 = 16
  MaxMishaps = 1
SPECIFICATION Spec
INVARIANTS
  LastLinkMarked
