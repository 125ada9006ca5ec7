CONSTANTS
  root = root
  a = a
  i1 = i1
  i2 = i2
  b1 = b1
  b2 = b2
  Cwd = Cwd
  Hole = Hole
  Users = {root}
  Root = root
  Gid <- MCGid
  Names = {a}
  Modes <- MCModes
  Inodes = {i1, i2}
  Blocks = {b1, b2}
  BLOCKSIZ = 2
  NADDR = 2
  SYSOPENFILE = 3
  NOFILE = 3
  DIRNUM = 4
  Sizes = {2, 3}
  Byte = {0, 1}
  Strings <- MCStrings

SPECIFICATION BytesSpec
PROPERTY ImplementsFlat
SYMMETRY Symmetry
CHECK_DEADLOCK FALSE
