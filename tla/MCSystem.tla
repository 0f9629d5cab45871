-------------------------------- MODULE MCSystem --------------------------------
(***************************************************************************)
(* An instance of System for TLC.                                          *)
(***************************************************************************)
EXTENDS System, TLC

CONSTANTS s1, s2, t1, t2, p1, p2

MCSymmetry == Permutations(Pids) \cup Permutations(Services) \cup Permutations(Targets)
=============================================================================
