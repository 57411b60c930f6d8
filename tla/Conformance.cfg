CONSTANTS
  IntMax = 3
  UIntMax = 5
  EnumMax = 1
  SecondsMax = 2
  NanosPerSecond = 2
  ProtoSecondsMax = 3
  QualifiedNames = {"E"}
  Addresses <- MCAddresses
  Prefixes <- MCPrefixes
  MessageFields = {"f"}
  Policy <- MCPolicy
  Corpora <- MCCorpora
  Engines = {"python", "node"}
  Modes = {"full", "evaluation"}
  ReasonsFor <- Reasons
  Executed <- execute_python
  Requested <- Request
  Answered <- AnsweredByNode
  Received <- Normalized
  Judged <- compare
  VerdictOf <- Verdict
  NoOutcome <- MCNoOutcome
  Baselines <- MCBaselines
SPECIFICATION Spec
INVARIANTS EveryCaseJudged ExitStatusHonest ChangesNoticed
PROPERTIES RunEnds
CHECK_DEADLOCK FALSE
