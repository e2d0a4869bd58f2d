CONSTANTS
  Nodes = {1, 2, 3, 4, 5, 6, 7, 8}
  Modes = {"shell", "sftp", "fsctl"}
  Specs <- MCSpecs
  Paths <- MCPaths
  FlagSets <- MCFlagSets
  SpecialPaths <- MCSpecial
  NewLimit = 1
  MaxOps <- MCMaxOps
  MaxHandles = 2
  Bytes = {"x"}
  Offsets = {0, 1}
  Quota = 1
  MaxTime = 1
SPECIFICATION Spec
CHECK_DEADLOCK FALSE
INVARIANTS
    FsInv
    UploadsAreKept
PROPERTIES
    TreeIsKept
