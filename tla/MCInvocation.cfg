SPECIFICATION FairSpec
CONSTANTS
  Tokens <- MCTokens
  TakesValue <- MCTakesValue
  MaxArguments = 4
INVARIANTS
  TypeOK
  InstallsAreGuarded
  GuardedIsSync
  ReadOnlyPasses
PROPERTY
  InvocationEnds
CHECK_DEADLOCK FALSE
