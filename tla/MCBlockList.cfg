CONSTANTS
  NICFREE = 2
  FILEBLK = 8
  NICINOD = 2
  NINODE = 6
  Payloads <- MCPayloads
  RefillsEmpty = FALSE

SPECIFICATION Spec
INVARIANTS TypeOK NoBlockTwice NoBlockLost ChainIntact
PROPERTY ImplementsPool
