SPECIFICATION CarefulSpec

CONSTANTS
  r1 = r1
  r2 = r2
  u1 = u1
  u2 = u2
  p1 = p1
  p2 = p2
  NoJob = NoJob
  Absent = Absent
  Request = {r1, r2}
  Path = {p1, p2}
  Uid = {u1, u2}
  UidOf <- TwoUsers
  TTL = 2
  Workers = 2
  MaxClock = 1
  Kind = {"download", "upload", "rename", "mkdir", "delete"}

INVARIANTS
  TypeOK
  OperationsExclude
  DownloadIsWhole
  FilesSettle

PROPERTIES
  ExpectationHolds

SYMMETRY Symmetry
