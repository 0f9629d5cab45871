--------------------------- MODULE MCProxySessions ---------------------------
(* Instances of ProxySessions for TLC.                                      *)
EXTENDS ProxySessions, TLC

CONSTANTS c1, c2, db1, db2, t1, t2, k1, k2

\* Two databases on two upstreams; the second map is what remains when db2 is
\* removed and db1 is moved.
MCRouteMaps == {db1 :> t1 @@ db2 :> t2, db1 :> t2 @@ db2 :> None}

\* One database that is moved from one upstream to another.
MCMovedRoute == {db1 :> t1, db1 :> t2}

\* Connections are interchangeable, and so are keys.
MCSymmetry == Permutations(Conns) \cup Permutations(CancelKeys)
=============================================================================
