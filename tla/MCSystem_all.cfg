\* One command line, one client of the proxy, two ports; a daemon that may die.
SPECIFICATION SystemSpec
CONSTANTS
  s1 = s1  s2 = s2
  t1 = t1  t2 = t2
  p1 = p1  p2 = p2
  None = None
  Unreadable = Unreadable
  Clis = {i1}
  Services = {s1, s2}
  Targets = {t1}
  Ports = {q1, q2}
  DefaultPort = q1
  Pids = {p1, p2}
  Worlds = {{"die"}}
  Conns = {c1}
  CancelKeys = {k1}
  MaxAttempts = 1
SYMMETRY MCSymmetry
PROPERTIES
  SessionsFollowed
  StopEndsSessions
  CommandsKeepSessions
  ServedAsConfigured
