SPECIFICATION FairSpec

CONSTANTS
  Stream = {c1, c2}
  Dir = {d1, d2}
  Watch = {w1, w2, w3}
  Absent = Absent
  Workers = 2
  UsizeMax = 7

INVARIANTS
  TypeOK
  EntryIsPolled

PROPERTIES
  AbandonedStreamEnds
