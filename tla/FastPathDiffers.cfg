CONSTANTS
  Sources <- DifferingSources
  InputsOf <- DifferingInputsOf
  LargestInt = 4
  LargestExact = 3
  max_plan_depth = 6
  IllFormed = {"lone"}
  SizeOfText <- MCSizes
  Related <- MCRelated
  Matching <- MCMatching
  InvalidPatterns = {"bad"}
  TypeNames <- NetTypes
  Undecodable = {"broken"}
  NoNames = {"b-c", "x-y"}
SPECIFICATION Spec
INVARIANT ResultUnchanged
