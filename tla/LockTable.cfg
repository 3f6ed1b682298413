SPECIFICATION Spec

CONSTANTS
  r1 = r1
  r2 = r2
  r3 = r3
  u1 = u1
  u2 = u2
  u3 = u3
  p1 = p1
  p2 = p2
  NoJob = NoJob
  Request = {r1, r2, r3}
  Path = {p1}
  Uid = {u1, u2}
  UidOf <- SharedUser
  TTL = 2
  Workers = 2
  MaxClock = 3

INVARIANTS
  TypeOK
  TableExclusive
  EntryHasGuard
  EmptyOnlyWhileRemoving

PROPERTIES
  RefusalHasCause
  OnlyRaceRemoves
