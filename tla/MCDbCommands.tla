---------------------------- MODULE MCDbCommands ----------------------------
(* Instances of DbCommands for TLC.                                        *)
EXTENDS DbCommands, TLC

CONSTANTS i1, i2, s1, s2, t1, t2, q1, q2, p1, p2, p3

\* Other programs take pids and ports; machines restart, with and without them;
\* commands are killed and daemons are slow.
MCWorlds == {{"die", "foreign", "occupied"},
             {"die", "reboot"},
             {"die", "reboot", "foreign"},
             {"crash", "die", "slow", "reboot"}}

\* Pids, targets and services are interchangeable; the ports are not, one is the
\* default.
MCSymmetry == Permutations(Pids) \cup Permutations(Targets) \cup Permutations(Services)
=============================================================================
