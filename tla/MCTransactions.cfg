SPECIFICATION FairSpec
CONSTANTS
  w1 = w1
  w2 = w2
  w3 = w3
  LockFiles = {"runtime", "tmp"}
  Nobody = Nobody
  Wrappers = {w1, w2, w3}
  LockOf <- OneLock
  MaxKills = 1
INVARIANTS
  SerialUnlessKilled
  SessionsAreKept
  StatusMeansRecorded
CHECK_DEADLOCK FALSE
PROPERTY
  NeverWaitsForLock
