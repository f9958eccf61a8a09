SPECIFICATION LiveSpec
CONSTANTS
  k1 = k1
  k2 = k2
  c1 = c1
  c2 = c2
  p1 = p1
  None = None
  Unset = Unset
  NoEdit = NoEdit
  Keys <- TwoKeys
  Values = {"on"}
  Calls <- TwoCalls
  Presses <- OnePress
  MaxEdits = 3
PROPERTIES
  EditsAreAtomic
  EveryEditTried
  OnlyLateEditsDropped
CHECK_DEADLOCK FALSE
