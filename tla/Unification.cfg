CONSTANTS
  Inferred <- MCStores
  Functions <- MCFunctions
  Names = {"variable", "dyn", "null_type", "type", "wrapper", "int", "string", "list", "map", "optional_type"}
  Nullable = {"optional_type"}
  max_depth = 4
  max_check_steps = 60
  MaxOperations = 2
  Solutions <- MCSolutions
  MaxVariables = 3
SPECIFICATION Spec
INVARIANTS TypeOK ForestBalanced MostGeneral PreciseTypesAreFinite
PROPERTIES FailedAttemptsUndone
CHECK_DEADLOCK FALSE
