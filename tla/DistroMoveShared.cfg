SPECIFICATION Spec
CONSTANTS
  d1 = d1
  d2 = d2
  h1 = h1
  h2 = h2
  f1 = f1
  m1 = m1
  m2 = m2
  None = None
  Distros <- MCDistros
  Folders <- MCFolders
  Home <- MCHome
  Moves <- OneMove
  MaxMoves = 2
  Hosts <- OldLocalHost
  Careless = TRUE
INVARIANTS
  NoContentsLost
CHECK_DEADLOCK FALSE
