\* One connection: how it is routed, relayed and ended, with the code's own four
\* attempts and routes that change.
SPECIFICATION FairSpec
CONSTANTS
  c1 = c1  c2 = c2
  db1 = db1  db2 = db2
  t1 = t1  t2 = t2
  k1 = k1  k2 = k2
  None = None
  Unreadable = Unreadable
  Conns = {c1}
  Databases = {db1, db2}
  Targets = {t1, t2}
  CancelKeys = {k1, k2}
  RouteMaps <- MCRouteMaps
  MaxAttempts = 4
INVARIANTS
  TypeOK
PROPERTIES
  RoutedByOfferedMap
  RelayEndsForCause
  HalfCloseKeepsAnswer
  StartupCompletes
  ClientGoneSessionEnds
  UpstreamGoneSessionEnds
