CONSTANTS
  Equal <- MCEqual
  Lookup <- MCLookup
  Flattened <- MCFlattened
  Programs <- MCPrograms
  Limits <- MCLimits
  Bindings <- MCBindings
  MaxInt = 3
  MinSeconds <- MCMinSeconds
  MaxSeconds = 1
  NanosPerSecond = 2
  GlobalBindings <- MCBindings
  LargestInt = 3
  FirstSecond <- MCMinSeconds
  LastSecond = 1
  SecondLength = 2
SPECIFICATION FairSpec
INVARIANTS TypeOK DepthBalanced ComputesMeaning
PROPERTIES FatalIsFinal InitializedOnce Terminates
CHECK_DEADLOCK FALSE
