CONSTANTS
  Width = 3
  Precision = 3
  HashedAbove = 1
  Budgets = {2, 9}
  Inputs <- MCInputs
SPECIFICATION Spec
INVARIANTS AgreesWithEquality ChainsComplete
CHECK_DEADLOCK FALSE
