SPECIFICATION Spec
CONSTANTS
  Tokens <- MCTokens
  TakesValue <- MCTakesValue
  MaxArguments = 1
INVARIANT
  EveryReadOnlyPasses
CHECK_DEADLOCK FALSE
