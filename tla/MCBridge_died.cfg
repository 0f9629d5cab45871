\* init again after tun2socks died saves the tun route over the uplink's.
SPECIFICATION Spec

CONSTANTS
  Pids = {p1, p2}
  Files = {wslConf, resolvConf}
  First = wslConf
  Versions = {v1}
  Uplinks = {u1, u2}
  Worlds = {{"dies"}}
  None = None
  Empty = Empty

SYMMETRY MCSymmetry

PROPERTIES StopAlwaysRestoresRoute
