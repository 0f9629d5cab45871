------------------------------- MODULE ConfigPath -------------------------------
(***************************************************************************)
(* Which config.yaml a command works on                                    *)
(* (src/internal/runtime/config_path.go): the one of the project the       *)
(* command is run in, or the user's.                                       *)
(*                                                                         *)
(* A directory is named by its depth: the ones from the file system's root,*)
(* 0, to the deepest the user may be in.  What is abstracted: errors of    *)
(* the file system.                                                        *)
(***************************************************************************)
EXTENDS Naturals, FiniteSetsExt

CONSTANTS UserConfig  \* the configuration under the user's home

\* What matters of a directory: .git, the module of go.mod, and whether it holds
\* .values/values.local.yaml.
Directory == [git : BOOLEAN, module : {"none", "wslbridge", "other"}, local : BOOLEAN]

\* Mutant of FindProjectRoot: the walk stops at the parent.
FindProjectRootNear(dirs, cwd) ==
  LET marked == {d \in 0..cwd : (dirs[d].git \/ dirs[d].module # "none") /\ d + 1 >= cwd}
  IN IF marked = {} THEN cwd ELSE Max(marked)

\* The nearest directory with .git or go.mod, or else the file system's root.
FindProjectRoot(dirs, cwd) ==
  Max({d \in 0..cwd : dirs[d].git \/ dirs[d].module # "none"} \cup {0})

\* The local file is used when it is there and in wslbridge's own repository.
ResolveConfigPath(dirs, cwd) ==
  LET root == FindProjectRoot(dirs, cwd) IN
  IF dirs[root].local \/ dirs[root].module = "wslbridge" THEN root ELSE UserConfig

\* config.Save makes the file at the path a command resolved.
SavedAt(dirs, path) ==
  IF path = UserConfig THEN dirs ELSE [dirs EXCEPT ![path].local = TRUE]
=============================================================================
