CONSTANTS
  Parts = {"a", ""}
  CdParts = {"a"}
  MaxPath = 3
  Inodes = {1, 2, 3, 4, 5}
  Root = 1
  MkdirFails = FALSE

SPECIFICATION Spec
INVARIANT PromptTrue
CHECK_DEADLOCK FALSE
