SPECIFICATION Spec
CONSTANTS
  c1 = c1
  c2 = c2
  s1 = s1
  b1 = b1
  Calls <- MCCalls
  Streams <- MCStreams
  Blocked <- MCBlocked
  MaxClears = 1
INVARIANTS
  OneLinePerAttempt
  OutcomeKeptUntilOverlapEnds
  NoChildOutlivesItsCall
  OneTerminalEvent
PROPERTIES
  CallsReturn
CHECK_DEADLOCK FALSE
