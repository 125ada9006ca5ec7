CONSTANTS
  Uids = {0, 1}
  USERNUM = 3
  NOFILE = 2
  Slots = {s1, s2, s3}

SPECIFICATION Spec
INVARIANT SlotsHeldOnce
CHECK_DEADLOCK FALSE
