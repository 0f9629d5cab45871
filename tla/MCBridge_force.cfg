\* init --force does nothing when the bridge is already enabled.
SPECIFICATION Spec

CONSTANTS
  Pids = {p1, p2}
  Files = {wslConf, resolvConf}
  First = wslConf
  Versions = {v1}
  Uplinks = {u1, u2}
  Worlds = {{}}
  None = None
  Empty = Empty

SYMMETRY MCSymmetry

PROPERTIES ForceRestarts
