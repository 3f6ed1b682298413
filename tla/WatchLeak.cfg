SPECIFICATION Spec

CONSTANTS
  Stream = {c1, c2, c3}
  Dir = {d1}
  Watch = {w1, w2, w3}
  Absent = Absent
  Workers = 1
  UsizeMax = 7

SYMMETRY Interchangeable

INVARIANTS
  PollsForSubscribers
