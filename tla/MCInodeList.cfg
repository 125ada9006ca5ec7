CONSTANTS
  NICFREE = 2
  FILEBLK = 6
  NICINOD = 2
  NINODE = 9

SPECIFICATION Spec
INVARIANTS TypeOK PointerAtTop NoInodeTwice UsedOnDisk NoInodeLost
PROPERTY ImplementsPool
