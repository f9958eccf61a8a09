SPECIFICATION LiveSpec
CONSTANTS
  i1 = i1
  l1 = l1
  l2 = l2
  j1 = j1
  j2 = j2
  None = None
  Instances <- OneInstance
  Lines <- TwoLines
  Jobs <- TwoJobs
INVARIANTS
  StagedIsOwn
  OffStaysOff
PROPERTIES
  OthersKept
  WritesGoOn
  RefusedIsRemembered
