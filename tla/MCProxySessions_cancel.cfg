\* Cancel keys, their registry and the fate of every cancel request.
SPECIFICATION Spec
CONSTANTS
  c1 = c1  c2 = c2
  db1 = db1  db2 = db2
  t1 = t1  t2 = t2
  k1 = k1  k2 = k2
  None = None
  Unreadable = Unreadable
  Conns = {c1, c2}
  Databases = {db1}
  Targets = {t1, t2}
  CancelKeys = {k1, k2}
  RouteMaps <- MCMovedRoute
  MaxAttempts = 1
SYMMETRY MCSymmetry
INVARIANTS
  IInv
  KnownKeyIsCancellable
  RegistryHasNoLeak
  CancelReachesIssuer
PROPERTIES
  CancelsAreRouted
