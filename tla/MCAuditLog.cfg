SPECIFICATION FairSpec
CONSTANTS
  w1 = w1
  w2 = w2
  w3 = w3
  w4 = w4
  Nobody = Nobody
  Writers = {w1, w2, w3, w4}
  Limit = 1
  MaxCrashes = 1
INVARIANTS
  RecentEventsAreKept
  AcknowledgedIsSynced
CHECK_DEADLOCK FALSE
PROPERTY
  AppendsEnd
