CONSTANTS
  root = root
  i1 = i1
  i2 = i2
  i3 = i3
  a = a
  b = b
  Names = {a, b}
  Inodes = {root, i1, i2}
  Root = root
  DIRENTS = 4
  DIRNUM = 6
  Removed = {"file", "empty", "full"}

SPECIFICATION Spec
INVARIANT ListedOnce
