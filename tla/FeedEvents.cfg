SPECIFICATION FairSpec

CONSTANTS
  Name = {n1, n2}
  Stamp = {0, 1}
  Client = {c1, c2}
  Start <- FullDirectory
  Capacity = 1
  MaxFaults = 2
  Absent = Absent

INVARIANTS
  TypeOK
  FeedIsExact
  EventsFit

PROPERTIES
  EventsAreDelivered
  FeedConverges
