\* The db commands and the daemon, whatever the environment does.
SPECIFICATION Spec
CONSTANTS
  i1 = i1  i2 = i2
  s1 = s1  s2 = s2
  t1 = t1  t2 = t2
  q1 = q1  q2 = q2
  p1 = p1  p2 = p2  p3 = p3
  None = None
  Unreadable = Unreadable
  DefaultPort = q1
  Clis = {i1}
  Services = {s1, s2}
  Targets = {t1}
  Ports = {q1, q2}
  Pids = {p1, p2, p3}
  Worlds <- MCWorlds
SYMMETRY MCSymmetry
INVARIANTS
  TypeOK
  NoOrphan
  OneDaemon
  RoutesFollowConfig
PROPERTIES
  StopLeavesNoDaemon
  SuccessMeansServing
  SuccessRepairsFiles
  CatalogFollowed
