CONSTANTS
  root = root
  alice = alice
  a = a
  b = b
  i1 = i1
  i2 = i2
  b1 = b1
  b2 = b2
  Cwd = Cwd
  Hole = Hole
  Users = {root}
  Root = root
  Gid <- MCGid
  Names = {a, b}
  Modes <- MCModes
  Inodes = {i1, i2}
  Blocks = {b1, b2}
  BLOCKSIZ = 2
  NADDR = 2
  SYSOPENFILE = 3
  NOFILE = 2
  DIRNUM = 3
  Sizes = {1, 3}

SPECIFICATION Spec
INVARIANT DotsStay
CHECK_DEADLOCK FALSE
