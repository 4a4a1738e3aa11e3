SPECIFICATION SideBySide
CONSTANTS
  NoTask = NoTask
  NoId = NoId
  p1 = p1
  p2 = p2
  t = t
  u = u
  v = v
  w = w
  Procs = {p1}
  Task = {t, u, v, w}
  Id = {1, 2, 3}
SYMMETRY Symmetry
CHECK_DEADLOCK FALSE
INVARIANTS Acyclic OrderSound SearchesSound CriticalPathLongest
