SPECIFICATION Spec
CONSTANTS
  d1 = d1
  d2 = d2
  q1 = q1
  q2 = q2
  None = None
  Devices <- TwoDevices
  Requests <- TwoRequests
  Seats = 1
  RevalidateAfter = 0
  OfflineGrace = 1
  SeatWindow = 2
  KeepDays = 3
  Serial = TRUE
INVARIANTS
  SeatsRespected
PROPERTIES
  DeniedFairly
  RecheckKeepsHolders
  RevokedStops
CHECK_DEADLOCK FALSE
SYMMETRY Sym
