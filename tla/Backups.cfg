SPECIFICATION Spec
CONSTANTS
  a = a
  b = b
  r1 = r1
  r2 = r2
  None = None
  Torn = Torn
  Instances <- TwoInstances
  Stem <- OneStem
  Runs <- TwoRuns
  MaxRuns = 3
INVARIANTS
  PromisesHold
  ListedIsKept
PROPERTIES
  RestoredIsKept
SYMMETRY AnyRun
CHECK_DEADLOCK FALSE
