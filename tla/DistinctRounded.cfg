CONSTANTS
  Width = 3
  Precision = 2
  HashedAbove = 2
  Budgets = {9}
  Inputs <- MoreInputs
SPECIFICATION Spec
INVARIANTS AgreesWithEquality
CHECK_DEADLOCK FALSE
