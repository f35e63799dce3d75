SPECIFICATION Spec
CONSTANTS
  Paths <- MCPaths
  Batches <- MCBatches
  Answers <- MCAnswers
  Timeout = 2
  Grace = 1
INVARIANTS
  TypeOK
  AllowIsUnanimous
  OverridableWarning
  DeadlineRespected
  NoOrphans
PROPERTY
  ReviewEnds
CHECK_DEADLOCK FALSE
