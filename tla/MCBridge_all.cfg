\* init and stop, whatever becomes of the machine and of a file under /etc.
SPECIFICATION Spec

CONSTANTS
  Pids = {p1, p2}
  Files = {wslConf}
  First = wslConf
  Versions = {v1, v2}
  Uplinks = {u1, u2}
  Worlds <- MCWorlds
  None = None
  Empty = Empty

SYMMETRY MCSymmetry

INVARIANTS TypeOK
PROPERTIES
  InitMeansBridged
  GatewayFollowsNetwork
  StopRestoresRoute
  StopLeavesNoTun2Socks
  StopRestoresFiles
