SPECIFICATION MCSpec
CONSTANTS
  a = a
  b = b
  Inodes = {i, j}
  Blocks = {a, b}
  Contents <- MCContents
  Modes = {r, x}
  None = None
  MaxTick = 2
  MaxChanges = 2
INVARIANTS
  ReviewedIsSnapshot
  ReviewedWasListed
  VerifiedIsReviewed
  UntouchedPasses
PROPERTIES
  ReadsAtOnce
  ReadEnds
CHECK_DEADLOCK FALSE
