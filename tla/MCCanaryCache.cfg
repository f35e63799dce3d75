SPECIFICATION Spec
CONSTANTS
  Callers = {a, b, c}
  Executables = {old, new}
  None = None
  MaxUpgrades = 2
INVARIANTS
  TypeOK
  VouchedHasPassed
CHECK_DEADLOCK FALSE
