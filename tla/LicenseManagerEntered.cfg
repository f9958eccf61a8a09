SPECIFICATION RecordSpec
CONSTANTS
  k1 = k1
  k2 = k2
  c1 = c1
  c2 = c2
  Nothing = Nothing
  Keys <- TwoKeys
  WithMail <- OneWithMail
  Calls <- TwoCalls
  MaxEnters = 2
  MaxLost = 1
  MaxCrashes = 1
INVARIANTS
  EnteredKeyStays
CHECK_DEADLOCK FALSE
