CONSTANTS
  a = a
  b = b
  n = n
  t1 = t1
  t2 = t2
  Threads <- MCThreads
  Envs <- MCEnvs
  NoEnv = NoEnv
  Registered <- MCRegistered
  Evaluated <- MCEvaluated
  Null = Null
  MaxDepth = 3
SPECIFICATION FairSpec
PROPERTIES ImplementsRouting WalkEnds
INVARIANTS TypeOK FramesMatchStack RoutedToCaller NoWorkWithPendingException
