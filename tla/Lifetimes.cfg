CONSTANTS
  good = good
  other = other
  bad = bad
  big = big
  long = long
  e1 = e1
  e2 = e2
  Patterns <- MCPatterns
  Literals <- MCLiterals
  Status <- MCStatus
  Long <- MCLong
  Length <- MCLength
  Size <- MCSize
  Texts = {1}
  Evaluations <- MCEvaluations
  Program = program
  NoRequest = NoRequest
  NoAnswer = NoAnswer
  max_patterns = 1
  max_steps = 8
  MemoryUsable = TRUE
  MaxRequests = 3
  Environments = {described}
  Described = {described}
  Others = {another}
  NoEnvironment = NoEnvironment
SPECIFICATION LifetimesSpec
INVARIANTS TypeOK HeapOwned MatchesLiveProgram AnswersAgree RegistryOwned NothingDangles
PROPERTY ImplementsRegexCache
CHECK_DEADLOCK FALSE
