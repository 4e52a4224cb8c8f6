SPECIFICATION Spec
CONSTANTS
  t1 = t1
  t2 = t2
  h1 = h1
  h2 = h2
  k1 = k1
  k2 = k2
  s1 = s1
  s2 = s2
  None = None
  Tasks <- MCTasks
  Hellos <- MCTwoHellos
  Commits <- MCTwoCommits
  Ts <- MCStamps
  Sessions <- MCTwoSessions
  MaxSessions = 1
  SessionTtl = 1
  SweepEvery = 1
  Window = 3
  Tolerance = 1
  MaxTime = 4
SYMMETRY MCSymmetryTwo
INVARIANTS
  SessionSingleUse
  ReceivedOnce
  TableBounded
PROPERTY
  DroppedForAReason
