SPECIFICATION Spec
CONSTANTS
  c1 = c1
  c2 = c2
  m1 = m1
  m2 = m2
  m3 = m3
  s1 = s1
  c3 = c3
  x1 = x1
  x2 = x2
  p1 = p1
  p2 = p2
  None = None
  Calls <- ThreeCalls
  Managers <- ThreeManagers
  Shells <- OneShell
  Procs <- TwoProcs
  Pulls <- TwoPulls
SYMMETRY Alike
INVARIANTS
  OffLeavesNothing
  OffServesNothing
  OffOnMends
