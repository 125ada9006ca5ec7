CONSTANTS
  Uids = {0, 1, 2}
  USERNUM = 3
  NOFILE = 2
  Slots = {s1, s2, s3}
  Words = {"root", "short", "long", "cut"}
  Kept <- MCKeptCut
  PWDNUM = 4
  Formatted <- MCFormatted
  RootApart = TRUE

SPECIFICATION AccountsSpec
INVARIANT AccountsKept
SYMMETRY Symmetry
