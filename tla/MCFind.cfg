CONSTANTS
  Parts = {"a", "b"}
  CdParts = {"a", "b", ".."}
  MaxPath = 3
  Inodes = {1, 2, 3, 4, 5}
  Root = 1
  MkdirFails = FALSE

SPECIFICATION Spec
INVARIANTS TypeOK PromptTrue CdFollows FindTrue
PROPERTIES Restored CreatesWhereNamed
CHECK_DEADLOCK FALSE
