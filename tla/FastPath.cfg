CONSTANTS
  Sources <- MCSources
  InputsOf <- MCInputsOf
  LargestInt = 4
  LargestExact = 3
  max_plan_depth = 6
  IllFormed = {"lone"}
  SizeOfText <- MCSizes
  Related <- MCRelated
  Matching <- MCMatching
  InvalidPatterns = {}
  TypeNames = {}
  Undecodable = {"broken"}
  NoNames = {"b-c", "x-y"}
SPECIFICATION Spec
INVARIANTS ParsedAsWritten FunctionsAgree ReadsInScope
