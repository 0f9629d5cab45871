------------------------------- MODULE MCBridge -------------------------------
(***************************************************************************)
(* Instances of Bridge for TLC.                                            *)
(***************************************************************************)
EXTENDS Bridge, TLC

\* Everything that fails or interferes on one network; a machine that moves; other
\* programs and processes that exit slowly; interrupted commands; and a user who
\* edits the files, between commands that fail and are interrupted or with deaths
\* and reboots.
MCWorlds == {{"dies", "reboot", "reset", "fails"},
             {"roam", "reboot", "reset"},
             {"dies", "lingers", "fails", "foreign"},
             {"crash", "dies", "reboot"},
             {"edits", "crash", "fails"},
             {"edits", "dies", "reboot"}}

\* Processes are interchangeable, and so are networks and versions.
MCSymmetry == Permutations(Pids) \cup Permutations(Uplinks) \cup Permutations(Versions)
=============================================================================
