CONSTANTS
  root = root
  alice = alice
  a = a
  b = b
  i1 = i1
  i2 = i2
  b1 = b1
  b2 = b2
  Cwd = Cwd
  Hole = Hole
  Users = {root, alice}
  Root = root
  Gid <- MCGid
  Names = {a, b}
  Modes <- MCModes
  Inodes = {i1, i2}
  Blocks = {b1, b2}
  BLOCKSIZ = 1
  NADDR = 2
  SYSOPENFILE = 3
  NOFILE = 1
  DIRNUM = 4
  Sizes = {1, 2}

SPECIFICATION Spec
INVARIANTS TypeOK RefCounts BlocksAccounted InodesAccounted NoHoles NamesUnique DotsStay RightsHeld SlotsOwned
SYMMETRY Symmetry
CHECK_DEADLOCK FALSE
