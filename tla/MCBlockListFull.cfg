CONSTANTS
  NICFREE = 2
  FILEBLK = 7
  NICINOD = 2
  NINODE = 6
  Payloads <- MCPayloadsWide
  RefillsEmpty = TRUE

SPECIFICATION Spec
PROPERTY ReturnsFreeBlock
