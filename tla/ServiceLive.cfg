SPECIFICATION FairSpec

CONSTANTS
  r1 = r1
  r2 = r2
  u1 = u1
  u2 = u2
  p1 = p1
  p2 = p2
  NoJob = NoJob
  Absent = Absent
  Request = {r1, r2}
  Path = {p1}
  Uid = {u1, u2}
  UidOf <- TwoUsers
  TTL = 1
  Workers = 1
  MaxClock = 1
  Kind = {"download", "upload", "delete", "mkdir", "rename"}

PROPERTIES
  EveryRequestEnds
  EveryLockEnds
