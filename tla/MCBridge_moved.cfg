\* On another network stop gives up before it has stopped anything.
SPECIFICATION Spec

CONSTANTS
  Pids = {p1, p2}
  Files = {wslConf, resolvConf}
  First = wslConf
  Versions = {v1}
  Uplinks = {u1, u2}
  Worlds = {{"roam"}}
  None = None
  Empty = Empty

SYMMETRY MCSymmetry

PROPERTIES StopStopsTun2Socks
