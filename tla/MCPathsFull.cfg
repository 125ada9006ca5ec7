CONSTANTS
  Parts = {"a", "b"}
  CdParts = {"a", "b", ".."}
  MaxPath = 2
  Inodes = {1, 2, 3, 4}
  Root = 1
  MkdirFails = TRUE

SPECIFICATION Spec
INVARIANT PromptTrue
CHECK_DEADLOCK FALSE
