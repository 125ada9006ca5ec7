CONSTANTS
  Uids = {1, 2}
  USERNUM = 3
  NOFILE = 2
  Slots = {s1, s2, s3}

SPECIFICATION Spec
PROPERTY LogoutEndsSession
CHECK_DEADLOCK FALSE
