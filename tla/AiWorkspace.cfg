SPECIFICATION CallsSpec
CONSTANTS
  c1 = c1
  c2 = c2
  None = None
  Calls <- MCCalls
  Gated = TRUE
INVARIANTS
  OneInstaller
PROPERTIES
  FailureKept
  InstallKept
  InstallsEnd
