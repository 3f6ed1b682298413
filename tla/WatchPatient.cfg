SPECIFICATION FairPatientSpec

CONSTANTS
  Stream = {c1, c2, c3}
  Dir = {d1, d2}
  Watch = {w1, w2, w3}
  Absent = Absent
  Workers = 3
  UsizeMax = 7

INVARIANTS
  CountsAttached
  SubscriberIsServed
  PollsForSubscribers

PROPERTIES
  PollingStops
