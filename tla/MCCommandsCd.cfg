CONSTANTS
  root = root
  alice = alice
  a = a
  b = b
  i1 = i1
  i2 = i2
  b1 = b1
  b2 = b2
  Cwd = Cwd
  Hole = Hole
  Users = {root, alice}
  Root = root
  Gid <- MCGid
  Names = {a, b}
  Modes <- MCModes
  DefaultMode <- Anyone
  Inodes = {i1, i2}
  Blocks = {b1, b2}
  BLOCKSIZ = 1
  NADDR = 2
  SYSOPENFILE = 4
  NOFILE = 2
  DIRNUM = 4
  Sizes = {1, 2}
  Typed = {a, b}
  Leads <- MCLeadsElsewhere
  Relogin = FALSE

SPECIFICATION CommandsSpec
INVARIANT MapExact
