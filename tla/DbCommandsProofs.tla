---------------------------- MODULE DbCommandsProofs ----------------------------
(***************************************************************************)
(* Proofs about DbCommands: every property its main run checks, for any    *)
(* services, targets, ports, pids and worlds; all but type correctness for *)
(* one command line at a time, whatever its name.                          *)
(*                                                                         *)
(* Three inductive invariants carry them.  DaemonInv: who knows the pid of *)
(* a daemon.  FilesInv: what config.yaml and db-routes.json hold at each   *)
(* step of a command.  ServedInv: what runs under which pid, and on which  *)
(* port, when only the daemon and the machine may fail.                    *)
(***************************************************************************)
EXTENDS DbCommands, TLAPS

\* Exit keeps the types of what it changes.
LEMMA ExitType ==
  ASSUME TypeOK, NEW i \in Clis, NEW how \in {"none", "ok", "failed"}, Exit(i, how)
  PROVE  /\ pc' \in [Clis -> Steps \cup {"idle"}]
         /\ result' \in [Clis -> {"none", "ok", "failed"}]
         /\ op' \in [Clis -> Commands \cup {None}]
         /\ svc' \in [Clis -> Services \cup {None}]
         /\ cfg' \in [Clis -> Configs]
         /\ child' \in [Clis -> Pids \cup {None}]
         /\ kind' \in [Pids -> {"free", "starting", "proxy", "dead", "foreign"}]
         /\ port' \in [Pids -> Ports \cup {None}]
         /\ parent' \in [Pids -> Clis \cup {None}]
<1>1. ZeroConfig \in Configs
  BY PortAssumption DEF ZeroConfig, Configs, Maps
<1>2. QED BY <1>1 DEF TypeOK, Exit, Goto

\* A process that is gone leaves the process table what it is.
LEMMA GoneType ==
  ASSUME TypeOK, NEW p \in Pids, Gone(p)
  PROVE  /\ kind' \in [Pids -> {"free", "starting", "proxy", "dead", "foreign"}]
         /\ port' \in [Pids -> Ports \cup {None}]
BY DEF TypeOK, Gone

\* A command makes a configuration of a configuration.
LEMMA EditedType ==
  ASSUME TypeOK, NEW i \in Clis, op[i] \in {"init", "add", "remove", "start"},
         op[i] \in {"add", "remove"} => svc[i] \in Services,
         NEW c, c \in Edited(i)
  PROVE  c \in Configs
<1> DEFINE d == cfg[i]
<1> DEFINE s == svc[i]
<1>1. d \in Configs
  BY DEF TypeOK
<1>2. /\ op[i] = "init" => c \in InitEdits(d)
      /\ op[i] = "add" => c \in AddEdits(d, s)
      /\ op[i] = "remove" => c \in RemoveEdits(d, s)
      /\ op[i] = "start" => c \in StartEdits(d)
  BY DEF Edited
<1> HIDE DEF d, s
<1>3. ASSUME c \in InitEdits(d) PROVE c \in Configs
  <2>1. PICK q \in Ports : c = [d EXCEPT !.discovery = TRUE, !.port = q]
    BY <1>3 DEF InitEdits
  <2>2. QED BY <1>1, <2>1 DEF Configs
<1>4. ASSUME c \in AddEdits(d, s), s \in Services PROVE c \in Configs
  <2>1. PICK t \in Targets : c = [d EXCEPT !.targets[s] = t]
    BY <1>4 DEF AddEdits
  <2>2. QED BY <1>1, <1>4, <2>1 DEF Configs, Maps
<1>5. ASSUME c \in RemoveEdits(d, s), s \in Services PROVE c \in Configs
  BY <1>1, <1>5 DEF RemoveEdits, Configs, Maps
<1>6. ASSUME c \in StartEdits(d) PROVE c \in Configs
  BY <1>6 DEF StartEdits
<1>7. QED BY <1>2, <1>3, <1>4, <1>5, <1>6 DEF s

-----------------------------------------------------------------------------

\* A command is what it was called as, and is at a step that belongs to it.
Underway ==
  \A i \in Clis : pc[i] # "idle" =>
    /\ op[i] \in Commands
    /\ op[i] \in {"add", "remove"} => svc[i] \in Services
    /\ op[i] = "stop" => pc[i] \in {"kill", "cleanPid", "cleanMeta"}
    /\ op[i] = "init" => pc[i] \in {"load", "edit", "save", "saveWrite"}

\* Every variable begins with a value of its type.
LEMMA InitTypes == Init => TypeOK /\ Underway
<1>1. ZeroConfig \in Configs
  BY PortAssumption DEF ZeroConfig, Configs, Maps
<1>2. QED BY <1>1 DEF Init, TypeOK, Underway

\* Steps of a command keep the types.
LEMMA StepTypes ==
  ASSUME TypeOK, Underway, NEW i \in Clis, Step(i)
  PROVE  TypeOK' /\ Underway'
<1> USE DEF files, procs, locals, history
<1>0. ZeroConfig \in Configs
  BY PortAssumption DEF ZeroConfig, Configs, Maps
<1>1. CASE LoadRefuses(i)
  BY <1>1, <1>0 DEF TypeOK, Underway, LoadRefuses, Exit, Goto, Steps, Names, Commands
<1>2. CASE LoadNothingToDo(i)
  BY <1>2, <1>0 DEF TypeOK, Underway, LoadNothingToDo, Exit, Goto, Steps, Names, Commands
<1>3. CASE Load(i)
  BY <1>3 DEF TypeOK, Underway, Load, Goto, Steps
<1>4. CASE EditFails(i)
  BY <1>4, <1>0 DEF TypeOK, Underway, EditFails, Exit, Goto, Steps, Names, Commands
<1>5. CASE Edit(i)
  <2>1. PICK c \in Edited(i) : cfg' = [cfg EXCEPT ![i] = c]
    BY <1>5 DEF Edit
  <2>2. op[i] \in {"init", "add", "remove", "start"}
    BY <1>5 DEF Edit, Underway, Commands
  <2>3. op[i] \in {"add", "remove"} => svc[i] \in Services
    BY <1>5 DEF Edit, Underway
  <2>4. c \in Configs
    BY <2>1, <2>2, <2>3, EditedType
  <2>5. QED BY <1>5, <2>1, <2>4 DEF TypeOK, Underway, Edit, Goto, Steps
<1>6. CASE SaveTruncates(i)
  BY <1>6, <1>0 DEF TypeOK, Underway, SaveTruncates, Goto, Steps
<1>7. CASE SaveWrites(i)
  BY <1>7, <1>0 DEF TypeOK, Underway, SaveWrites, Exit, Goto, Steps, Names, Commands
<1>8. CASE RoutesTruncate(i)
  BY <1>8 DEF TypeOK, Underway, RoutesTruncate, Goto, Steps
<1>9. CASE RoutesWrite(i)
  BY <1>9 DEF TypeOK, Underway, RoutesWrite, Goto, Steps, Configs, Maps
<1>10. CASE CheckRunning(i)
  BY <1>10, <1>0 DEF TypeOK, Underway, CheckRunning, Exit, Goto, Steps, Names, Commands
<1>11. CASE Ensure(i)
  BY <1>11 DEF TypeOK, Underway, Ensure, Goto, Steps, IsProxyRunning
<1>12. CASE Kill(i)
  BY <1>12 DEF TypeOK, Underway, Kill, Goto, Steps, Gone, IsProxyRunning
<1>13. CASE CleanPid(i)
  BY <1>13 DEF TypeOK, Underway, CleanPid, Goto, Steps
<1>14. CASE CleanMeta(i)
  BY <1>14, <1>0 DEF TypeOK, Underway, CleanMeta, Exit, Goto, Steps, Names, Commands
<1>15. CASE DropRoutes(i)
  BY <1>15, <1>0 DEF TypeOK, Underway, DropRoutes, Exit, Goto, Steps, Names, Commands
<1>16. CASE (\E p \in Pids : Spawn(i, p))
  BY <1>16 DEF TypeOK, Underway, Spawn, Goto, Steps, Configs
<1>17. CASE SpawnFails(i)
  BY <1>17, <1>0 DEF TypeOK, Underway, SpawnFails, Exit, Goto, Steps, Names, Commands
<1>18. CASE Ready(i)
  BY <1>18 DEF TypeOK, Underway, Ready, Goto, Steps
<1>19. CASE NotReady(i)
  BY <1>19, <1>0 DEF TypeOK, Underway, NotReady, Exit, Goto, Steps, Names, Commands
<1>20. CASE RecordTruncates(i)
  BY <1>20 DEF TypeOK, Underway, RecordTruncates, Goto, Steps
<1>21. CASE RecordPid(i)
  BY <1>21 DEF TypeOK, Underway, RecordPid, Goto, Steps
<1>22. CASE RecordMetaTruncates(i)
  BY <1>22 DEF TypeOK, Underway, RecordMetaTruncates, Goto, Steps
<1>23. CASE RecordMeta(i)
  BY <1>23, <1>0 DEF TypeOK, Underway, RecordMeta, Exit, Goto, Steps, Configs
<1>24. QED
  BY <1>1, <1>2, <1>3, <1>4, <1>5, <1>6, <1>7, <1>8, <1>9, <1>10, <1>11, <1>12, <1>13, <1>14,
    <1>15, <1>16, <1>17, <1>18, <1>19, <1>20, <1>21, <1>22, <1>23 DEF Step

\* Crashes, reboots and other programs keep the types.
LEMMA EnvironmentTypes ==
  ASSUME TypeOK, Underway, Environment
  PROVE  TypeOK' /\ Underway'
<1> USE DEF files, procs, locals, history, Disturb
<1>0. ZeroConfig \in Configs
  BY PortAssumption DEF ZeroConfig, Configs, Maps
<1>1. CASE Reboot
  BY <1>1, <1>0 DEF TypeOK, Underway, Reboot
<1>2. ASSUME NEW i \in Clis, CommandCrashes(i) PROVE TypeOK' /\ Underway'
  BY <1>2, <1>0 DEF TypeOK, Underway, CommandCrashes, Exit, Goto
<1>3. ASSUME NEW p \in Pids, DaemonDies(p) PROVE TypeOK' /\ Underway'
  BY <1>3 DEF TypeOK, Underway, DaemonDies, Gone
<1>4. ASSUME NEW p \in Pids, ForeignStarts(p) \/ ForeignExits(p) PROVE TypeOK' /\ Underway'
  BY <1>4 DEF TypeOK, Underway, ForeignStarts, ForeignExits
<1>5. ASSUME NEW q \in Ports, PortTaken(q) \/ PortReleased(q) PROVE TypeOK' /\ Underway'
  BY <1>5 DEF TypeOK, Underway, PortTaken, PortReleased
<1>6. QED BY <1>1, <1>2, <1>3, <1>4, <1>5 DEF Environment

\* No step leaves the types.
LEMMA NextTypes == TypeOK /\ Underway /\ [Next]_vars => TypeOK' /\ Underway'
<1> SUFFICES ASSUME TypeOK, Underway, [Next]_vars PROVE TypeOK' /\ Underway'
  OBVIOUS
<1>1. ASSUME NEW i \in Clis, NEW o \in Commands, NEW s \in Services \cup {None}, Invoke(i, o, s)
      PROVE  TypeOK' /\ Underway'
  BY <1>1 DEF TypeOK, Underway, Invoke, Goto, Steps, files, procs
<1>2. ASSUME NEW i \in Clis, Step(i) PROVE TypeOK' /\ Underway'
  BY <1>2, StepTypes
<1>3. ASSUME NEW p \in Pids, Bind(p) \/ BindFails(p) PROVE TypeOK' /\ Underway'
  BY <1>3 DEF TypeOK, Underway, Bind, BindFails, Gone, files, locals, history
<1>4. CASE Environment
  BY <1>4, EnvironmentTypes
<1>5. CASE UNCHANGED vars
  BY <1>5 DEF TypeOK, Underway, vars
<1>6. QED BY <1>1, <1>2, <1>3, <1>4, <1>5 DEF Next

\* Every variable keeps the type the code gives it, for any commands, services,
\* ports and processes, whatever happens to them.
THEOREM TypeCorrect == Spec => []TypeOK
<1>1. TypeOK /\ Underway /\ [Next]_vars => (TypeOK /\ Underway)'
  BY NextTypes
<1>2. QED BY <1>1, InitTypes, PTL DEF Spec

-----------------------------------------------------------------------------
(* Daemons, with one command line                                           *)

\* The steps at which the pid file is on its way out or not yet written, and the
\* command knows of no daemon; and those at which it alone knows the daemon.
Quiet == {"spawn", "cleanPid", "cleanMeta", "dropRoutes"}
Recording == {"ready", "record", "recordPid"}

\* Where the daemon is known from: nowhere, the command or the pid file.
Known(i) ==
  \A p \in Pids : IsDaemon(p) =>
    /\ pc[i] \notin Quiet
    /\ pc[i] \in Recording => p = child[i]
    /\ pc[i] \notin Recording => p = pidFile

DaemonKnown == Without({"crash", "slow"}) => \A i \in Clis : Known(i)

\* Nothing that ends processes makes a daemon unknown.
LEMMA FewerDaemons ==
  ASSUME NEW i \in Clis, Known(i), UNCHANGED <<pc, child, pidFile>>,
         \A p \in Pids : IsDaemon(p)' => IsDaemon(p)
  PROVE  Known(i)'
BY DEF Known

\* A step of the only command keeps the daemon in reach.
LEMMA StepKnown ==
  ASSUME TypeOK, Underway, NEW i \in Clis, Clis = {i}, Without({"crash", "slow"}),
         Known(i), Step(i)
  PROVE  Known(i)'
<1> USE DEF files, procs, locals, history
<1>1. CASE LoadRefuses(i)
  BY <1>1 DEF TypeOK, Known, IsDaemon, Quiet, Recording, LoadRefuses, Exit, Goto
<1>2. CASE LoadNothingToDo(i)
  BY <1>2 DEF TypeOK, Known, IsDaemon, Quiet, Recording, LoadNothingToDo, Exit, Goto
<1>3. CASE Load(i)
  BY <1>3 DEF TypeOK, Known, IsDaemon, Quiet, Recording, Load, Goto
<1>4. CASE EditFails(i)
  BY <1>4 DEF TypeOK, Known, IsDaemon, Quiet, Recording, EditFails, Exit, Goto
<1>5. CASE Edit(i)
  BY <1>5 DEF TypeOK, Known, IsDaemon, Quiet, Recording, Edit, Goto
<1>6. CASE SaveTruncates(i)
  BY <1>6 DEF TypeOK, Known, IsDaemon, Quiet, Recording, SaveTruncates, Goto
<1>7. CASE SaveWrites(i)
  BY <1>7 DEF TypeOK, Known, IsDaemon, Quiet, Recording, SaveWrites, Exit, Goto
<1>8. CASE RoutesTruncate(i)
  BY <1>8 DEF TypeOK, Known, IsDaemon, Quiet, Recording, RoutesTruncate, Goto
<1>9. CASE RoutesWrite(i)
  BY <1>9 DEF TypeOK, Known, IsDaemon, Quiet, Recording, RoutesWrite, Goto
<1>10. CASE CheckRunning(i)
  BY <1>10 DEF TypeOK, Known, IsDaemon, Quiet, Recording, CheckRunning, Exit, Goto
<1>11. CASE Ensure(i)
  <2>1. pc[i] = "ensure" /\ kind' = kind /\ pidFile' = pidFile
    BY <1>11 DEF Ensure
  <2>2. \A p \in Pids : IsDaemon(p)' => p = pidFile /\ IsProxyRunning
    <3>1. SUFFICES ASSUME NEW p \in Pids, IsDaemon(p)' PROVE p = pidFile /\ IsProxyRunning
      OBVIOUS
    <3>2. IsDaemon(p)
      BY <2>1, <3>1 DEF IsDaemon
    <3>3. p = pidFile
      BY <2>1, <3>2 DEF Known, Recording
    <3>4. QED BY <3>2, <3>3, NoneAssumption DEF IsDaemon, IsProxyRunning
  <2>3. CASE IsProxyRunning /\ metaFile = cfg[i].port
    <3>1. pc'[i] = "record" /\ child'[i] = pidFile
      BY <1>11, <2>3 DEF TypeOK, Ensure, Goto
    <3>2. QED BY <2>2, <3>1 DEF Known, Quiet, Recording
  <2>4. CASE IsProxyRunning /\ metaFile # cfg[i].port
    <3>1. pc'[i] = "kill"
      BY <1>11, <2>4 DEF TypeOK, Ensure, Goto
    <3>2. QED BY <2>1, <2>2, <3>1 DEF Known, Quiet, Recording
  <2>5. CASE ~IsProxyRunning
    BY <2>2, <2>5 DEF Known
  <2>6. QED BY <2>3, <2>4, <2>5
<1>12. CASE Kill(i)
  <2>1. ASSUME NEW p \in Pids, IsDaemon(p)' PROVE FALSE
    <3>1. IsDaemon(p)
      BY <1>12, <2>1 DEF TypeOK, Kill, Gone, IsDaemon, IsProxyRunning
    <3>2. p = pidFile
      BY <1>12, <3>1 DEF Kill, Known, Recording
    <3>3. IsProxyRunning
      BY <3>1, <3>2, NoneAssumption DEF IsDaemon, IsProxyRunning
    <3>4. QED BY <1>12, <2>1, <3>2, <3>3 DEF TypeOK, Kill, Gone, IsDaemon
  <2>2. QED BY <2>1 DEF Known
<1>13. CASE CleanPid(i)
  BY <1>13 DEF TypeOK, Known, IsDaemon, Quiet, Recording, CleanPid, Goto
<1>14. CASE CleanMeta(i)
  BY <1>14 DEF TypeOK, Known, IsDaemon, Quiet, Recording, CleanMeta, Exit, Goto
<1>15. CASE DropRoutes(i)
  BY <1>15 DEF TypeOK, Known, IsDaemon, Quiet, Recording, DropRoutes, Exit, Goto
<1>16. CASE (\E p \in Pids : Spawn(i, p))
  BY <1>16 DEF TypeOK, Known, IsDaemon, Quiet, Recording, Spawn, Goto
<1>17. CASE SpawnFails(i)
  BY <1>17 DEF TypeOK, Known, IsDaemon, Quiet, Recording, SpawnFails, Exit, Goto
<1>18. CASE Ready(i)
  BY <1>18 DEF TypeOK, Known, IsDaemon, Quiet, Recording, Ready, Goto
<1>19. CASE NotReady(i)
  BY <1>19 DEF TypeOK, Known, IsDaemon, Quiet, Recording, NotReady, Exit, Goto, Without
<1>20. CASE RecordTruncates(i)
  BY <1>20 DEF TypeOK, Known, IsDaemon, Quiet, Recording, RecordTruncates, Goto
<1>21. CASE RecordPid(i)
  BY <1>21 DEF TypeOK, Known, IsDaemon, Quiet, Recording, RecordPid, Goto
<1>22. CASE RecordMetaTruncates(i)
  BY <1>22 DEF TypeOK, Known, IsDaemon, Quiet, Recording, RecordMetaTruncates, Goto
<1>23. CASE RecordMeta(i)
  BY <1>23 DEF TypeOK, Known, IsDaemon, Quiet, Recording, RecordMeta, Exit, Goto
<1>24. QED
  BY <1>1, <1>2, <1>3, <1>4, <1>5, <1>6, <1>7, <1>8, <1>9, <1>10, <1>11, <1>12, <1>13, <1>14,
    <1>15, <1>16, <1>17, <1>18, <1>19, <1>20, <1>21, <1>22, <1>23 DEF Step

-----------------------------------------------------------------------------
\* A command that begins finds the daemon in reach.
LEMMA InvokeKnown ==
  ASSUME TypeOK, NEW i \in Clis, Known(i), NEW o \in Commands, NEW s, Invoke(i, o, s)
  PROVE  Known(i)'
<1>1. pc[i] = "idle" /\ kind' = kind /\ pidFile' = pidFile
  BY DEF Invoke, procs, files
<1>2. \A p \in Pids : IsDaemon(p)' => p = pidFile /\ IsProxyRunning
  <2>1. SUFFICES ASSUME NEW p \in Pids, IsDaemon(p)' PROVE p = pidFile /\ IsProxyRunning
    OBVIOUS
  <2>2. IsDaemon(p)
    BY <1>1, <2>1 DEF IsDaemon
  <2>3. p = pidFile
    BY <1>1, <2>2 DEF Known, Recording
  <2>4. QED BY <2>2, <2>3, NoneAssumption DEF IsDaemon, IsProxyRunning
<1>3. CASE IsProxyRunning
  <2>1. pc'[i] \in {"load", "kill"}
    BY <1>3 DEF TypeOK, Invoke, Goto
  <2>2. QED BY <1>1, <1>2, <2>1 DEF Known, Quiet, Recording
<1>4. CASE ~IsProxyRunning
  BY <1>2, <1>4 DEF Known
<1>5. QED BY <1>3, <1>4

\* A daemon that gets its port, or does not, stays in reach.
LEMMA BindKnown ==
  ASSUME TypeOK, NEW i \in Clis, Known(i), NEW p \in Pids, Bind(p) \/ BindFails(p)
  PROVE  Known(i)'
<1>1. UNCHANGED <<pc, child, pidFile>>
  BY DEF Bind, BindFails, files, locals
<1>2. \A q \in Pids : IsDaemon(q)' => IsDaemon(q)
  BY DEF TypeOK, Bind, BindFails, Gone, IsDaemon
<1>3. QED BY <1>1, <1>2, FewerDaemons

\* What happens to processes, but for crashes and slow daemons, keeps the daemon in
\* reach.
LEMMA EnvironmentKnown ==
  ASSUME TypeOK, Without({"crash", "slow"}), NEW i \in Clis, Known(i), Environment
  PROVE  Known(i)'
<1>1. CASE Reboot
  BY <1>1 DEF Reboot, Known, IsDaemon
<1>2. ASSUME NEW j \in Clis, CommandCrashes(j) PROVE FALSE
  BY <1>2 DEF CommandCrashes, Without
<1>3. ASSUME NEW p \in Pids, DaemonDies(p) \/ ForeignStarts(p) \/ ForeignExits(p)
      PROVE  Known(i)'
  <2>1. UNCHANGED <<pc, child, pidFile>>
    BY <1>3 DEF DaemonDies, ForeignStarts, ForeignExits, files, locals
  <2>2. \A q \in Pids : IsDaemon(q)' => IsDaemon(q)
    BY <1>3 DEF TypeOK, DaemonDies, ForeignStarts, ForeignExits, Gone, IsDaemon
  <2>3. QED BY <2>1, <2>2, FewerDaemons
<1>4. ASSUME NEW q \in Ports, PortTaken(q) \/ PortReleased(q) PROVE Known(i)'
  BY <1>4 DEF PortTaken, PortReleased, files, procs, locals, Known, IsDaemon
<1>5. QED BY <1>1, <1>2, <1>3, <1>4 DEF Environment

\* The set of faults is the same for a whole behaviour.
LEMMA SameFaults == [Next]_vars => faults' = faults
BY DEF Next, Invoke, Step, LoadRefuses, LoadNothingToDo, Load, EditFails, Edit, SaveTruncates,
  SaveWrites, RoutesTruncate, RoutesWrite, CheckRunning, Ensure, Kill, CleanPid, CleanMeta,
  DropRoutes, Spawn, SpawnFails, Ready, NotReady, RecordTruncates, RecordPid,
  RecordMetaTruncates, RecordMeta,
  Bind, BindFails, Environment, Reboot, CommandCrashes, DaemonDies, ForeignStarts, ForeignExits,
  PortTaken, PortReleased, Disturb, history, vars

\* There is no daemon to begin with.
LEMMA InitKnown == Init => DaemonKnown
BY DEF Init, DaemonKnown, Known, IsDaemon

\* No step puts the daemon out of reach.
LEMMA NextKnown ==
  ASSUME NEW i, Clis = {i}, TypeOK, Underway, DaemonKnown, [Next]_vars
  PROVE  DaemonKnown'
<1> USE i \in Clis
<1> SUFFICES ASSUME Without({"crash", "slow"})' PROVE Known(i)'
  BY DEF DaemonKnown
<1>1. Without({"crash", "slow"})
  BY SameFaults DEF Without
<1>2. Known(i)
  BY <1>1 DEF DaemonKnown
<1>3. ASSUME NEW o \in Commands, NEW s \in Services \cup {None}, Invoke(i, o, s) PROVE Known(i)'
  BY <1>2, <1>3, InvokeKnown
<1>4. CASE Step(i)
  BY <1>1, <1>2, <1>4, StepKnown
<1>5. ASSUME NEW p \in Pids, Bind(p) \/ BindFails(p) PROVE Known(i)'
  BY <1>2, <1>5, BindKnown
<1>6. CASE Environment
  BY <1>1, <1>2, <1>6, EnvironmentKnown
<1>7. CASE UNCHANGED vars
  BY <1>2, <1>7 DEF Known, IsDaemon, vars
<1>8. QED BY <1>3, <1>4, <1>5, <1>6, <1>7 DEF Next

\* Commands run one at a time.
OneCommandLine == \E i : Clis = {i}

\* The invariant behind the three theorems.
DaemonInv == TypeOK /\ Underway /\ DaemonKnown

\* The invariant on the daemon holds before the first command.
LEMMA InitDaemonInv == Init => DaemonInv
BY InitTypes, InitKnown DEF DaemonInv

\* The invariant on the daemon is inductive.
LEMMA DaemonInvKept ==
  ASSUME OneCommandLine
  PROVE  DaemonInv /\ [Next]_vars => DaemonInv'
BY NextTypes, NextKnown DEF DaemonInv, OneCommandLine

\* With one command line no daemon is ever out of reach, whatever dies, reboots or
\* takes ports and pids, as long as no command is killed and none gives up on a
\* daemon that is merely slow.
THEOREM DaemonInReach ==
  ASSUME OneCommandLine
  PROVE  Spec => []NoOrphan
<1>1. DaemonInv => NoOrphan
  BY DEF DaemonInv, DaemonKnown, Known, NoOrphan, Recording, OneCommandLine
<1>2. DaemonInv /\ [Next]_vars => DaemonInv'
  BY DaemonInvKept
<1>3. QED BY <1>1, <1>2, InitDaemonInv, PTL DEF Spec

\* Under the same conditions a second daemon is never started beside a first one.
THEOREM DaemonUnique ==
  ASSUME OneCommandLine
  PROVE  Spec => []OneDaemon
<1>1. DaemonInv => OneDaemon
  BY DEF DaemonInv, DaemonKnown, Known, OneDaemon, OneCommandLine
<1>2. DaemonInv /\ [Next]_vars => DaemonInv'
  BY DaemonInvKept
<1>3. QED BY <1>1, <1>2, InitDaemonInv, PTL DEF Spec

\* A command that succeeds does so in a step of its own.
LEMMA SuccessIsAStep ==
  ASSUME TypeOK, [Next]_vars, NEW i \in Clis, Succeeds(i)
  PROVE  \/ LoadNothingToDo(i) \/ SaveWrites(i) \/ CheckRunning(i) \/ CleanMeta(i)
         \/ DropRoutes(i) \/ RecordMeta(i)
<1> USE DEF Succeeds, TypeOK
<1>1. ASSUME NEW j \in Clis, NEW o \in Commands, NEW s \in Services \cup {None}, Invoke(j, o, s)
      PROVE  FALSE
  BY <1>1 DEF Invoke, Goto
<1>2. ASSUME NEW j \in Clis, Step(j) PROVE j = i
  BY <1>2 DEF Step, LoadRefuses, LoadNothingToDo, Load, EditFails, Edit, SaveTruncates,
    SaveWrites, RoutesTruncate, RoutesWrite, CheckRunning, Ensure, Kill, CleanPid, CleanMeta,
    DropRoutes, Spawn, SpawnFails, Ready, NotReady, RecordTruncates, RecordPid,
    RecordMetaTruncates, RecordMeta, Exit, Goto
<1>3. ASSUME Step(i)
      PROVE  \/ LoadNothingToDo(i) \/ SaveWrites(i) \/ CheckRunning(i) \/ CleanMeta(i)
             \/ DropRoutes(i) \/ RecordMeta(i)
  BY <1>3 DEF Step, LoadRefuses, Load, EditFails, Edit, SaveTruncates, RoutesTruncate,
    RoutesWrite, Ensure, Kill, CleanPid, Spawn, SpawnFails, Ready, NotReady, RecordTruncates,
    RecordPid, RecordMetaTruncates, Exit, Goto
<1>4. ASSUME NEW p \in Pids, Bind(p) \/ BindFails(p) PROVE FALSE
  BY <1>4 DEF Bind, BindFails
<1>5. CASE Environment
  BY <1>5 DEF Environment, Reboot, CommandCrashes, DaemonDies, ForeignStarts, ForeignExits,
    PortTaken, PortReleased, Exit, Goto
<1>6. QED BY <1>1, <1>2, <1>3, <1>4, <1>5 DEF Next, vars

\* Under the same conditions `db stop` succeeds only when no daemon is left.
THEOREM StopStops ==
  ASSUME OneCommandLine
  PROVE  Spec => StopLeavesNoDaemon
<1>1. ASSUME DaemonInv, [Next]_vars, NEW i \in Clis, Without({"crash", "slow"}),
             op[i] = "stop", Succeeds(i)
      PROVE  \A p \in Pids : ~IsDaemon(p)
  <2>1. \/ LoadNothingToDo(i) \/ SaveWrites(i) \/ CheckRunning(i) \/ CleanMeta(i)
        \/ DropRoutes(i) \/ RecordMeta(i)
    BY <1>1, SuccessIsAStep DEF DaemonInv
  <2>2. pc[i] \in {"kill", "cleanPid", "cleanMeta"}
    BY <1>1 DEF DaemonInv, Underway, Succeeds
  <2>3. pc[i] = "cleanMeta"
    BY <2>1, <2>2 DEF LoadNothingToDo, SaveWrites, CheckRunning, CleanMeta, DropRoutes, RecordMeta
  <2>4. QED BY <1>1, <2>3 DEF DaemonInv, DaemonKnown, Known, Quiet
<1>2. DaemonInv /\ [Next]_vars =>
        [\A i \in Clis :
           Without({"crash", "slow"}) /\ op[i] = "stop" /\ Succeeds(i) =>
             \A p \in Pids : ~IsDaemon(p)]_vars
  BY <1>1
<1>3. DaemonInv /\ [Next]_vars => DaemonInv'
  BY DaemonInvKept
<1>4. QED BY <1>2, <1>3, InitDaemonInv, PTL DEF Spec, StopLeavesNoDaemon

-----------------------------------------------------------------------------
(* The files                                                                *)

\* Once a command has written the configuration it goes on with the routes, and
\* then with the daemon.
Daemoning == {"spawn", "ready", "record", "recordPid", "recordMeta",
              "recordMetaWrite", "ensure", "check"}
Stopping == {"kill", "cleanPid", "cleanMeta", "dropRoutes"}
AfterSave == {"routes", "routesWrite"} \cup Daemoning \cup Stopping

\* What the command of i has written by now, and which commands get where.
Filed(i) ==
  /\ pc[i] \in AfterSave /\ op[i] # "stop" => config = cfg[i]
  /\ pc[i] \in Daemoning => routes = cfg[i].targets /\ Names(cfg[i].targets) # {}
  /\ pc[i] \in {"routes", "routesWrite"} => Names(cfg[i].targets) # {}
  /\ pc[i] \in Stopping /\ op[i] # "stop" /\ Names(cfg[i].targets) # {} => routes = cfg[i].targets
  /\ pc[i] = "dropRoutes" => Names(cfg[i].targets) = {}
  /\ pc[i] = "check" => op[i] = "remove"
  /\ pc[i] = "edit" /\ op[i] = "start" => Names(cfg[i].targets) # {}
  /\ pc[i] \in {"save", "saveWrite"} \cup Stopping /\ op[i] \in {"add", "start"}
       => Names(cfg[i].targets) # {}

\* The routes a configuration asks for.
Shown(m) == IF Names(m) = {} THEN Unreadable ELSE m

\* The routes are those of the configuration until a command rewrites it; `init`
\* keeps the services as they are.
Followed(i) ==
  /\ pc[i] \in {"idle", "load", "edit", "save"} \/ op[i] = "stop"
       => routes = Shown(config.targets)
  /\ pc[i] = "edit" => cfg[i] = config
  /\ pc[i] \in {"save", "saveWrite"} /\ op[i] = "init" => routes = Shown(cfg[i].targets)

\* The last complete configuration: the one on disk, but for a save that has not
\* come to its end; and what that save makes of it.
Kept(i) ==
  /\ pc[i] # "saveWrite" => lastConfig = config
  /\ pc[i] \in {"edit"} => lastConfig = cfg[i]
  /\ pc[i] \in {"edit", "save", "saveWrite"} =>
       /\ op[i] = "remove" => lastConfig.targets[svc[i]] # None
       /\ op[i] = "start" => Names(lastConfig.targets) # {}
       /\ op[i] \in {"add", "start"} => lastConfig.discovery
  /\ pc[i] \in {"save", "saveWrite"} =>
       \/ op[i] = "init" /\ cfg[i] \in InitEdits(lastConfig)
       \/ op[i] = "add" /\ cfg[i] \in AddEdits(lastConfig, svc[i])
       \/ op[i] = "remove" /\ cfg[i] \in RemoveEdits(lastConfig, svc[i])
       \/ op[i] = "start" /\ cfg[i] \in StartEdits(lastConfig)

FilesInv ==
  /\ TypeOK
  /\ Underway
  /\ \A i \in Clis : Filed(i)
  /\ Without({"crash", "reboot"}) => \A i \in Clis : Followed(i) /\ Kept(i)

\* `add` and `start` leave services to serve.
LEMMA EditedNames ==
  ASSUME TypeOK, NEW i \in Clis, NEW c, c \in Edited(i), op[i] \in {"add", "start"},
         op[i] = "add" => svc[i] \in Services,
         op[i] = "start" => Names(cfg[i].targets) # {}
  PROVE  Names(c.targets) # {}
<1>1. CASE op[i] = "add"
  <2>1. PICK t \in Targets : c = [cfg[i] EXCEPT !.targets[svc[i]] = t]
    BY <1>1 DEF Edited, AddEdits
  <2>2. cfg[i] \in Configs
    BY DEF TypeOK
  <2>3. c.targets[svc[i]] = t
    BY <1>1, <2>1, <2>2 DEF Configs, Maps
  <2>4. QED BY <1>1, <2>3, NoneAssumption DEF Names
<1>2. CASE op[i] = "start"
  BY <1>2 DEF Edited, StartEdits
<1>3. QED BY <1>1, <1>2

\* A step of a command writes what the command has in memory.
LEMMA StepFiled ==
  ASSUME TypeOK, Underway, NEW i \in Clis, Filed(i), Step(i)
  PROVE  Filed(i)'
<1> USE DEF files, procs, locals, history, Daemoning, Stopping, AfterSave
<1>1. CASE LoadRefuses(i)
  BY <1>1 DEF TypeOK, Underway, Filed, LoadRefuses, Exit, Goto
<1>2. CASE LoadNothingToDo(i)
  BY <1>2 DEF TypeOK, Underway, Filed, LoadNothingToDo, Exit, Goto
<1>3. CASE Load(i)
  BY <1>3 DEF TypeOK, Underway, Filed, Load, Goto
<1>4. CASE EditFails(i)
  BY <1>4 DEF TypeOK, Underway, Filed, EditFails, Exit, Goto
<1>5. CASE Edit(i)
  <2>1. PICK c \in Edited(i) : cfg' = [cfg EXCEPT ![i] = c]
    BY <1>5 DEF Edit
  <2>2. op[i] \in {"add", "start"} => Names(c.targets) # {}
    BY <1>5, <2>1, EditedNames DEF Edit, Underway, Filed
  <2>3. QED BY <1>5, <2>1, <2>2 DEF TypeOK, Filed, Edit, Goto, Names
<1>6. CASE SaveTruncates(i)
  BY <1>6 DEF TypeOK, Underway, Filed, SaveTruncates, Goto
<1>7. CASE SaveWrites(i)
  <2>1. config' = cfg[i] /\ (pc'[i] # "idle" => cfg' = cfg /\ op' = op)
    BY <1>7 DEF TypeOK, SaveWrites, Exit, Goto, locals
  <2>2. pc'[i] \in {"idle", "kill", "routes"}
    BY <1>7 DEF TypeOK, SaveWrites, Exit, Goto
  <2>3. pc'[i] = "routes" => Names(cfg[i].targets) # {}
    BY <1>7 DEF TypeOK, SaveWrites, Exit, Goto
  <2>4. pc'[i] = "kill" => Names(cfg[i].targets) = {} /\ op[i] \notin {"add", "start"}
    BY <1>7 DEF TypeOK, SaveWrites, Exit, Goto, Filed
  <2>5. QED BY <2>1, <2>2, <2>3, <2>4 DEF Filed
<1>8. CASE RoutesTruncate(i)
  BY <1>8 DEF TypeOK, Underway, Filed, RoutesTruncate, Goto
<1>9. CASE RoutesWrite(i)
  BY <1>9 DEF TypeOK, Underway, Filed, RoutesWrite, Goto
<1>10. CASE CheckRunning(i)
  BY <1>10 DEF TypeOK, Underway, Filed, CheckRunning, Exit, Goto
<1>11. CASE Ensure(i)
  BY <1>11 DEF TypeOK, Underway, Filed, Ensure, Goto
<1>12. CASE Kill(i)
  BY <1>12 DEF TypeOK, Underway, Filed, Kill, Goto
<1>13. CASE CleanPid(i)
  BY <1>13 DEF TypeOK, Underway, Filed, CleanPid, Goto
<1>14. CASE CleanMeta(i)
  BY <1>14 DEF TypeOK, Underway, Filed, CleanMeta, Exit, Goto
<1>15. CASE DropRoutes(i)
  BY <1>15 DEF TypeOK, Underway, Filed, DropRoutes, Exit, Goto
<1>16. CASE (\E p \in Pids : Spawn(i, p))
  BY <1>16 DEF TypeOK, Underway, Filed, Spawn, Goto
<1>17. CASE SpawnFails(i)
  BY <1>17 DEF TypeOK, Underway, Filed, SpawnFails, Exit, Goto
<1>18. CASE Ready(i)
  BY <1>18 DEF TypeOK, Underway, Filed, Ready, Goto
<1>19. CASE NotReady(i)
  BY <1>19 DEF TypeOK, Underway, Filed, NotReady, Exit, Goto
<1>20. CASE RecordTruncates(i)
  BY <1>20 DEF TypeOK, Underway, Filed, RecordTruncates, Goto
<1>21. CASE RecordPid(i)
  BY <1>21 DEF TypeOK, Underway, Filed, RecordPid, Goto
<1>22. CASE RecordMetaTruncates(i)
  BY <1>22 DEF TypeOK, Underway, Filed, RecordMetaTruncates, Goto
<1>23. CASE RecordMeta(i)
  BY <1>23 DEF TypeOK, Underway, Filed, RecordMeta, Exit, Goto
<1>24. QED
  BY <1>1, <1>2, <1>3, <1>4, <1>5, <1>6, <1>7, <1>8, <1>9, <1>10, <1>11, <1>12, <1>13, <1>14,
    <1>15, <1>16, <1>17, <1>18, <1>19, <1>20, <1>21, <1>22, <1>23 DEF Step

\* A step of a command leaves the routes of the configuration when it ends.
LEMMA StepFollowed ==
  ASSUME TypeOK, Underway, NEW i \in Clis, Filed(i), Followed(i), Step(i)
  PROVE  Followed(i)'
<1> USE DEF files, procs, locals, history, Daemoning, Stopping, AfterSave
<1>1. CASE LoadRefuses(i)
  BY <1>1 DEF TypeOK, Underway, Filed, Followed, LoadRefuses, Exit, Goto
<1>2. CASE LoadNothingToDo(i)
  BY <1>2 DEF TypeOK, Underway, Filed, Followed, LoadNothingToDo, Exit, Goto
<1>3. CASE Load(i)
  BY <1>3 DEF TypeOK, Underway, Filed, Followed, Load, Goto
<1>4. CASE EditFails(i)
  BY <1>4 DEF TypeOK, Underway, Filed, Followed, EditFails, Exit, Goto
<1>5. CASE Edit(i)
  <2>1. PICK c \in Edited(i) : cfg' = [cfg EXCEPT ![i] = c]
    BY <1>5 DEF Edit
  <2>2. op[i] = "init" => c.targets = cfg[i].targets
    <3>1. SUFFICES ASSUME op[i] = "init" PROVE c.targets = cfg[i].targets
      OBVIOUS
    <3>2. PICK q \in Ports : c = [cfg[i] EXCEPT !.discovery = TRUE, !.port = q]
      BY <2>1, <3>1 DEF Edited, InitEdits
    <3>3. cfg[i] \in Configs
      BY DEF TypeOK
    <3>4. QED BY <3>2, <3>3 DEF Configs
  <2>3. QED BY <1>5, <2>1, <2>2 DEF TypeOK, Followed, Edit, Goto
<1>6. CASE SaveTruncates(i)
  BY <1>6 DEF TypeOK, Underway, Filed, Followed, SaveTruncates, Goto
<1>7. CASE SaveWrites(i)
  BY <1>7 DEF TypeOK, Underway, Filed, Followed, SaveWrites, Exit, Goto
<1>8. CASE RoutesTruncate(i)
  BY <1>8 DEF TypeOK, Underway, Filed, Followed, RoutesTruncate, Goto
<1>9. CASE RoutesWrite(i)
  BY <1>9 DEF TypeOK, Underway, Filed, Followed, RoutesWrite, Goto
<1>10. CASE CheckRunning(i)
  BY <1>10 DEF TypeOK, Underway, Filed, Followed, CheckRunning, Exit, Goto, Shown
<1>11. CASE Ensure(i)
  BY <1>11 DEF TypeOK, Underway, Filed, Followed, Ensure, Goto
<1>12. CASE Kill(i)
  BY <1>12 DEF TypeOK, Underway, Filed, Followed, Kill, Goto
<1>13. CASE CleanPid(i)
  BY <1>13 DEF TypeOK, Underway, Filed, Followed, CleanPid, Goto
<1>14. CASE CleanMeta(i)
  BY <1>14 DEF TypeOK, Underway, Filed, Followed, CleanMeta, Exit, Goto
<1>15. CASE DropRoutes(i)
  BY <1>15 DEF TypeOK, Underway, Filed, Followed, DropRoutes, Exit, Goto, Shown
<1>16. CASE (\E p \in Pids : Spawn(i, p))
  BY <1>16 DEF TypeOK, Underway, Filed, Followed, Spawn, Goto
<1>17. CASE SpawnFails(i)
  BY <1>17 DEF TypeOK, Underway, Filed, Followed, SpawnFails, Exit, Goto, Shown
<1>18. CASE Ready(i)
  BY <1>18 DEF TypeOK, Underway, Filed, Followed, Ready, Goto
<1>19. CASE NotReady(i)
  BY <1>19 DEF TypeOK, Underway, Filed, Followed, NotReady, Exit, Goto, Shown
<1>20. CASE RecordTruncates(i)
  BY <1>20 DEF TypeOK, Underway, Filed, Followed, RecordTruncates, Goto
<1>21. CASE RecordPid(i)
  BY <1>21 DEF TypeOK, Underway, Filed, Followed, RecordPid, Goto
<1>22. CASE RecordMetaTruncates(i)
  BY <1>22 DEF TypeOK, Underway, Filed, Followed, RecordMetaTruncates, Goto
<1>23. CASE RecordMeta(i)
  BY <1>23 DEF TypeOK, Underway, Filed, Followed, RecordMeta, Exit, Goto, Shown
<1>24. QED
  BY <1>1, <1>2, <1>3, <1>4, <1>5, <1>6, <1>7, <1>8, <1>9, <1>10, <1>11, <1>12, <1>13, <1>14,
    <1>15, <1>16, <1>17, <1>18, <1>19, <1>20, <1>21, <1>22, <1>23 DEF Step

\* A step of a command writes a configuration that follows from the last one.
LEMMA StepKept ==
  ASSUME TypeOK, Underway, NEW i \in Clis, Filed(i), Kept(i), Step(i)
  PROVE  Kept(i)'
<1> USE DEF files, procs, locals, history
<1>1. CASE LoadRefuses(i)
  BY <1>1 DEF TypeOK, Underway, Kept, LoadRefuses, Exit, Goto
<1>2. CASE LoadNothingToDo(i)
  BY <1>2 DEF TypeOK, Underway, Kept, LoadNothingToDo, Exit, Goto
<1>3. CASE Load(i)
  BY <1>3 DEF TypeOK, Underway, Kept, Load, Goto
<1>4. CASE EditFails(i)
  BY <1>4 DEF TypeOK, Underway, Kept, EditFails, Exit, Goto
<1>5. CASE Edit(i)
  <2>1. PICK c \in Edited(i) : cfg' = [cfg EXCEPT ![i] = c]
    BY <1>5 DEF Edit
  <2>2. cfg[i] = lastConfig /\ op[i] \in {"init", "add", "remove", "start"}
    BY <1>5 DEF Edit, Kept, Underway, Commands
  <2>3. \/ op[i] = "init" /\ c \in InitEdits(lastConfig)
        \/ op[i] = "add" /\ c \in AddEdits(lastConfig, svc[i])
        \/ op[i] = "remove" /\ c \in RemoveEdits(lastConfig, svc[i])
        \/ op[i] = "start" /\ c \in StartEdits(lastConfig)
    BY <2>1, <2>2 DEF Edited
  <2>4. QED BY <1>5, <2>1, <2>3 DEF TypeOK, Kept, Edit, Goto
<1>6. CASE SaveTruncates(i)
  BY <1>6 DEF TypeOK, Underway, Kept, SaveTruncates, Goto
<1>7. CASE SaveWrites(i)
  BY <1>7 DEF TypeOK, Underway, Kept, SaveWrites, Exit, Goto
<1>8. CASE RoutesTruncate(i)
  BY <1>8 DEF TypeOK, Underway, Kept, RoutesTruncate, Goto
<1>9. CASE RoutesWrite(i)
  BY <1>9 DEF TypeOK, Underway, Kept, RoutesWrite, Goto
<1>10. CASE CheckRunning(i)
  BY <1>10 DEF TypeOK, Underway, Kept, CheckRunning, Exit, Goto
<1>11. CASE Ensure(i)
  BY <1>11 DEF TypeOK, Underway, Kept, Ensure, Goto
<1>12. CASE Kill(i)
  BY <1>12 DEF TypeOK, Underway, Kept, Kill, Goto
<1>13. CASE CleanPid(i)
  BY <1>13 DEF TypeOK, Underway, Kept, CleanPid, Goto
<1>14. CASE CleanMeta(i)
  BY <1>14 DEF TypeOK, Underway, Kept, CleanMeta, Exit, Goto
<1>15. CASE DropRoutes(i)
  BY <1>15 DEF TypeOK, Underway, Kept, DropRoutes, Exit, Goto
<1>16. CASE (\E p \in Pids : Spawn(i, p))
  BY <1>16 DEF TypeOK, Underway, Kept, Spawn, Goto
<1>17. CASE SpawnFails(i)
  BY <1>17 DEF TypeOK, Underway, Kept, SpawnFails, Exit, Goto
<1>18. CASE Ready(i)
  BY <1>18 DEF TypeOK, Underway, Kept, Ready, Goto
<1>19. CASE NotReady(i)
  BY <1>19 DEF TypeOK, Underway, Kept, NotReady, Exit, Goto
<1>20. CASE RecordTruncates(i)
  BY <1>20 DEF TypeOK, Underway, Kept, RecordTruncates, Goto
<1>21. CASE RecordPid(i)
  BY <1>21 DEF TypeOK, Underway, Kept, RecordPid, Goto
<1>22. CASE RecordMetaTruncates(i)
  BY <1>22 DEF TypeOK, Underway, Kept, RecordMetaTruncates, Goto
<1>23. CASE RecordMeta(i)
  BY <1>23 DEF TypeOK, Underway, Kept, RecordMeta, Exit, Goto
<1>24. QED
  BY <1>1, <1>2, <1>3, <1>4, <1>5, <1>6, <1>7, <1>8, <1>9, <1>10, <1>11, <1>12, <1>13, <1>14,
    <1>15, <1>16, <1>17, <1>18, <1>19, <1>20, <1>21, <1>22, <1>23 DEF Step

-----------------------------------------------------------------------------
\* The invariant on the files holds before the first command.
LEMMA InitFiles == Init => FilesInv
<1>1. Names(ZeroConfig.targets) = {}
  BY DEF Names, ZeroConfig
<1>2. QED BY <1>1, InitTypes DEF Init, FilesInv, Filed, Followed, Kept, Shown, Daemoning, Stopping, AfterSave

\* Nothing but a command writes the files, or is written down in them.
LEMMA FilesUntouched ==
  ASSUME NEW i \in Clis, UNCHANGED <<config, routes, lastConfig, pc, op, svc, cfg>>
  PROVE  /\ Filed(i) => Filed(i)'
         /\ Followed(i) => Followed(i)'
         /\ Kept(i) => Kept(i)'
BY DEF Filed, Followed, Kept

\* A command that begins has changed no file.
LEMMA InvokeFiles ==
  ASSUME TypeOK, NEW i \in Clis, NEW o \in Commands, NEW s, Invoke(i, o, s), Filed(i)
  PROVE  /\ Filed(i)'
         /\ Followed(i) => Followed(i)'
         /\ Kept(i) => Kept(i)'
<1>1. /\ pc[i] = "idle" /\ op'[i] = o /\ pc'[i] \in {"load", "kill", "cleanPid"}
      /\ pc'[i] \in {"kill", "cleanPid"} => o = "stop"
      /\ UNCHANGED <<config, routes, lastConfig, cfg>>
  BY DEF TypeOK, Invoke, Goto, files
<1>2. QED BY <1>1 DEF Filed, Followed, Kept, Daemoning, Stopping, AfterSave

\* What the environment does leaves the files as they are; who is interrupted is
\* back where a command begins.
LEMMA EnvironmentFiles ==
  ASSUME TypeOK, Environment, NEW i \in Clis
  PROVE  /\ Filed(i) => Filed(i)'
         /\ Without({"crash", "reboot"}) => (Followed(i) => Followed(i)') /\ (Kept(i) => Kept(i)')
<1> USE DEF Disturb, files, procs, locals, history
<1>1. CASE Reboot
  BY <1>1 DEF Reboot, Filed, Without, Daemoning, Stopping, AfterSave
<1>2. ASSUME NEW j \in Clis, CommandCrashes(j)
      PROVE  "crash" \in faults /\ (Filed(i) => Filed(i)')
  BY <1>2 DEF TypeOK, CommandCrashes, Exit, Goto, Filed, Daemoning, Stopping, AfterSave
<1>3. ASSUME NEW p \in Pids, DaemonDies(p) \/ ForeignStarts(p) \/ ForeignExits(p)
      PROVE  UNCHANGED <<config, routes, lastConfig, pc, op, svc, cfg>>
  BY <1>3 DEF DaemonDies, ForeignStarts, ForeignExits
<1>4. ASSUME NEW q \in Ports, PortTaken(q) \/ PortReleased(q)
      PROVE  UNCHANGED <<config, routes, lastConfig, pc, op, svc, cfg>>
  BY <1>4 DEF PortTaken, PortReleased
<1>5. QED BY <1>1, <1>2, <1>3, <1>4, FilesUntouched DEF Environment, Without

\* The invariant on the files is inductive.
LEMMA FilesInvKept ==
  ASSUME OneCommandLine
  PROVE  FilesInv /\ [Next]_vars => FilesInv'
<1> SUFFICES ASSUME FilesInv, [Next]_vars, NEW i \in Clis, Clis = {i} PROVE FilesInv'
  BY DEF OneCommandLine
<1>1. TypeOK' /\ Underway' /\ faults' = faults
  BY NextTypes, SameFaults DEF FilesInv
<1>2. SUFFICES /\ Filed(i)'
               /\ Without({"crash", "reboot"}) => Followed(i)' /\ Kept(i)'
  BY <1>1 DEF FilesInv, Without
<1>3. TypeOK /\ Underway /\ Filed(i) /\ (Without({"crash", "reboot"}) => Followed(i) /\ Kept(i))
  BY DEF FilesInv
<1> HIDE DEF FilesInv
<1>4. ASSUME NEW o \in Commands, NEW s \in Services \cup {None}, Invoke(i, o, s)
      PROVE  Filed(i)' /\ (Followed(i) => Followed(i)') /\ (Kept(i) => Kept(i)')
  BY <1>3, <1>4, InvokeFiles
<1>5. ASSUME Step(i)
      PROVE  Filed(i)' /\ (Followed(i) => Followed(i)') /\ (Kept(i) => Kept(i)')
  BY <1>3, <1>5, StepFiled, StepFollowed, StepKept
<1>6. ASSUME NEW p \in Pids, Bind(p) \/ BindFails(p)
      PROVE  Filed(i)' /\ (Followed(i) => Followed(i)') /\ (Kept(i) => Kept(i)')
  <2>1. UNCHANGED <<config, routes, lastConfig, pc, op, svc, cfg>>
    BY <1>6 DEF Bind, BindFails, files, locals, history
  <2>2. QED BY <1>3, <2>1, FilesUntouched
<1>7. ASSUME Environment
      PROVE  /\ Filed(i)'
             /\ Without({"crash", "reboot"}) => (Followed(i) => Followed(i)') /\ (Kept(i) => Kept(i)')
  BY <1>3, <1>7, EnvironmentFiles
<1>8. ASSUME UNCHANGED vars
      PROVE  Filed(i)' /\ (Followed(i) => Followed(i)') /\ (Kept(i) => Kept(i)')
  BY <1>3, <1>8, FilesUntouched DEF vars
<1>9. QED BY <1>3, <1>4, <1>5, <1>6, <1>7, <1>8 DEF Next

\* With one command line, and unless a command is killed or the machine restarts
\* under one, the daemon is always routed by the configuration the user sees.
THEOREM RoutesAreTheConfiguration ==
  ASSUME OneCommandLine
  PROVE  Spec => []RoutesFollowConfig
<1>1. FilesInv => RoutesFollowConfig
  BY DEF FilesInv, Followed, RoutesFollowConfig, Shown, OneCommandLine
<1>2. FilesInv /\ [Next]_vars => FilesInv'
  BY FilesInvKept
<1>3. QED BY <1>1, <1>2, InitFiles, PTL DEF Spec

\* With one command line a `db add` or `db start` that succeeds leaves its
\* configuration and its routes complete on disk, whatever was interrupted before.
THEOREM SuccessRepairs ==
  ASSUME OneCommandLine
  PROVE  Spec => SuccessRepairsFiles
<1>1. ASSUME FilesInv, [Next]_vars, NEW i \in Clis, op[i] \in {"add", "start"}, Succeeds(i)
      PROVE  config' = cfg[i] /\ routes' = cfg[i].targets
  <2>1. \/ LoadNothingToDo(i) \/ SaveWrites(i) \/ CheckRunning(i) \/ CleanMeta(i)
        \/ DropRoutes(i) \/ RecordMeta(i)
    BY <1>1, SuccessIsAStep DEF FilesInv
  <2>2. RecordMeta(i)
    BY <1>1, <2>1 DEF FilesInv, TypeOK, Filed, Succeeds, LoadNothingToDo, SaveWrites,
      CheckRunning, CleanMeta, DropRoutes, Goto, Stopping
  <2>3. QED
    BY <1>1, <2>2 DEF FilesInv, Filed, RecordMeta, Daemoning, AfterSave
<1>2. FilesInv /\ [Next]_vars =>
        [\A i \in Clis :
           op[i] \in {"add", "start"} /\ Succeeds(i) =>
             config' = cfg[i] /\ routes' = cfg[i].targets]_vars
  BY <1>1
<1>3. FilesInv /\ [Next]_vars => FilesInv'
  BY FilesInvKept
<1>4. QED BY <1>2, <1>3, InitFiles, PTL DEF Spec, SuccessRepairsFiles

-----------------------------------------------------------------------------
(* The catalog of services                                                  *)

\* Without a file there is no service in the catalog.
LEMMA InitCatalog == Init => C!CatalogInit
BY DEF Init, ZeroConfig, Names, C!CatalogInit

\* What a save writes is what one operation on the catalog makes of it.
LEMMA SaveIsAnOperation ==
  ASSUME FilesInv, NEW i \in Clis, Kept(i), SaveWrites(i)
  PROVE  C!CatalogNext
<1> DEFINE old == lastConfig
<1> DEFINE new == cfg[i]
<1>1. old \in Configs /\ new \in Configs /\ lastConfig' = new
  BY DEF FilesInv, TypeOK, SaveWrites
<1>2. /\ op[i] \in {"add", "remove"} => svc[i] \in Services
      /\ op[i] = "remove" => svc[i] \in Names(old.targets)
      /\ op[i] = "start" => Names(old.targets) # {}
      /\ op[i] \in {"add", "start"} => old.discovery
      /\ \/ op[i] = "init" /\ new \in InitEdits(old)
         \/ op[i] = "add" /\ new \in AddEdits(old, svc[i])
         \/ op[i] = "remove" /\ new \in RemoveEdits(old, svc[i])
         \/ op[i] = "start" /\ new \in StartEdits(old)
  BY DEF FilesInv, Underway, SaveWrites, Kept, Names
<1> HIDE DEF old, new
<1>3. CASE op[i] = "init"
  <2>1. PICK q \in Ports : new = [old EXCEPT !.discovery = TRUE, !.port = q]
    BY <1>2, <1>3 DEF InitEdits
  <2>2. new.discovery = TRUE /\ new.targets = old.targets
    BY <1>1, <2>1 DEF Configs
  <2>3. C!Configure(TRUE)
    BY <1>1, <2>2 DEF C!Configure, Names, old
  <2>4. QED BY <2>3 DEF C!CatalogNext
<1>4. CASE op[i] = "add"
  <2>1. PICK t \in Targets : new = [old EXCEPT !.targets[svc[i]] = t]
    BY <1>2, <1>4 DEF AddEdits
  <2>2. /\ new.discovery = old.discovery /\ svc[i] \in Services
        /\ new.targets = [old.targets EXCEPT ![svc[i]] = t]
    BY <1>1, <1>2, <1>4, <2>1 DEF Configs
  <2>3. Names(new.targets) = Names(old.targets) \cup {svc[i]}
    BY <1>1, <2>2, NoneAssumption DEF Names, Configs, Maps
  <2>4. C!Add(svc[i], t)
    BY <1>1, <1>2, <1>4, <2>2, <2>3, NoneAssumption DEF C!Add, old
  <2>5. QED BY <2>2, <2>4 DEF C!CatalogNext
<1>5. CASE op[i] = "remove"
  <2>1. /\ new.discovery = old.discovery /\ svc[i] \in Services
        /\ new.targets = [old.targets EXCEPT ![svc[i]] = None]
    BY <1>1, <1>2, <1>5 DEF RemoveEdits, Configs
  <2>2. Names(new.targets) = Names(old.targets) \ {svc[i]}
    BY <1>1, <2>1 DEF Names, Configs, Maps
  <2>3. C!Remove(svc[i])
    BY <1>1, <1>2, <1>5, <2>1, <2>2 DEF C!Remove, old
  <2>4. QED BY <2>1, <2>3 DEF C!CatalogNext
<1>6. CASE op[i] = "start"
  <2>1. new.discovery = old.discovery /\ Names(new.targets) = Names(old.targets)
    BY <1>2, <1>6 DEF StartEdits
  <2>2. new.targets \in [Services -> Targets \cup {None}]
    BY <1>1 DEF Configs, Maps
  <2>3. \A s \in Services : new.targets[s] # None <=> s \in Names(old.targets)
    BY <2>1 DEF Names
  <2>4. C!Refresh
    BY <1>1, <1>2, <1>6, <2>1, <2>2, <2>3, NoneAssumption DEF C!Refresh, old
  <2>5. QED BY <2>4 DEF C!CatalogNext
<1>7. QED BY <1>2, <1>3, <1>4, <1>5, <1>6

\* Nothing but a save changes the last configuration written in full.
LEMMA OnlySaves ==
  ASSUME [Next]_vars
  PROVE  lastConfig' = lastConfig \/ \E i \in Clis : SaveWrites(i)
<1>1. ASSUME NEW i \in Clis, Step(i) PROVE lastConfig' = lastConfig \/ SaveWrites(i)
  BY <1>1 DEF Step, LoadRefuses, LoadNothingToDo, Load, EditFails, Edit, SaveTruncates,
    RoutesTruncate, RoutesWrite, CheckRunning, Ensure, Kill, CleanPid, CleanMeta, DropRoutes,
    Spawn, SpawnFails, Ready, NotReady, RecordTruncates, RecordPid, RecordMetaTruncates, RecordMeta, history
<1>2. QED
  BY <1>1 DEF Next, Invoke, Bind, BindFails, Environment, Reboot, CommandCrashes, DaemonDies,
    ForeignStarts, ForeignExits, PortTaken, PortReleased, Disturb, history, vars

\* With one command line the commands, with all their steps, their files and the
\* daemon, implement the catalog of services: each adds, removes or refreshes what
\* it was asked to and forgets nothing, unless it was interrupted while it wrote.
THEOREM CommandsKeepTheCatalog ==
  ASSUME OneCommandLine
  PROVE  Spec => CatalogFollowed
<1>1. ASSUME FilesInv, [Next]_vars, Without({"crash", "reboot"}), lastConfig' # lastConfig
      PROVE  C!CatalogNext
  BY <1>1, OnlySaves, SaveIsAnOperation DEF FilesInv
<1>2. FilesInv /\ [Next]_vars => [Without({"crash", "reboot"}) => C!CatalogNext]_C!catalog
  BY <1>1 DEF C!catalog
<1>3. FilesInv /\ [Next]_vars => FilesInv'
  BY FilesInvKept
<1>4. QED BY <1>2, <1>3, InitFiles, InitCatalog, PTL DEF Spec, CatalogFollowed

-----------------------------------------------------------------------------
(* The daemon a command leaves behind                                       *)

\* The worlds in which only the daemon and the machine may fail.
Tame == Without({"crash", "slow", "foreign", "occupied"})

\* The steps of a command that has a daemon in hand.
Handing == {"record", "recordPid", "recordMeta", "recordMetaWrite"}

\* Other programs neither run nor listen.  Outside of the steps that start and
\* record a daemon, the one that runs listens where the file says; within them,
\* there is at most the one in hand, and it has the port of the configuration.
Served(i) ==
  /\ busy = {}
  /\ pc[i] \notin Handing \cup {"ready"} =>
       \A p \in Pids : /\ kind[p] \in {"free", "proxy"} /\ parent[p] = None
                       /\ kind[p] = "proxy" => port[p] = metaFile
  /\ pc[i] \in Handing \cup {"ready"} =>
       /\ child[i] \in Pids
       /\ \A p \in Pids \ {child[i]} : kind[p] = "free" /\ parent[p] = None
       /\ kind[child[i]] # "foreign"
       /\ IsDaemon(child[i]) => port[child[i]] = cfg[i].port
       /\ kind[child[i]] = "dead" => parent[child[i]] = i
  /\ pc[i] = "ready" => parent[child[i]] = i
  /\ pc[i] \in Handing => kind[child[i]] # "starting"
  /\ pc[i] \in Handing /\ calm[i] => kind[child[i]] = "proxy"

ServedInv == DaemonInv /\ (Tame => \A i \in Clis : Served(i))

\* The invariant on the ports holds before the first command.
LEMMA InitServed == Init => ServedInv
BY InitDaemonInv DEF Init, ServedInv, Served, Handing

\* A step of the only command keeps track of the port of the daemon.
LEMMA StepServed ==
  ASSUME TypeOK, Tame, NEW i \in Clis, Clis = {i}, Known(i), Served(i), Step(i)
  PROVE  Served(i)'
<1> USE DEF files, procs, locals, history
<1>1. CASE LoadRefuses(i)
  BY <1>1 DEF TypeOK, Served, Handing, LoadRefuses, Exit, Goto
<1>2. CASE LoadNothingToDo(i)
  BY <1>2 DEF TypeOK, Served, Handing, LoadNothingToDo, Exit, Goto
<1>3. CASE Load(i)
  BY <1>3 DEF TypeOK, Served, Handing, Load, Goto
<1>4. CASE EditFails(i)
  BY <1>4 DEF TypeOK, Served, Handing, EditFails, Exit, Goto
<1>5. CASE Edit(i)
  BY <1>5 DEF TypeOK, Served, Handing, Edit, Goto
<1>6. CASE SaveTruncates(i)
  BY <1>6 DEF TypeOK, Served, Handing, SaveTruncates, Goto
<1>7. CASE SaveWrites(i)
  BY <1>7 DEF TypeOK, Served, Handing, SaveWrites, Exit, Goto
<1>8. CASE RoutesTruncate(i)
  BY <1>8 DEF TypeOK, Served, Handing, RoutesTruncate, Goto
<1>9. CASE RoutesWrite(i)
  BY <1>9 DEF TypeOK, Served, Handing, RoutesWrite, Goto
<1>10. CASE CheckRunning(i)
  BY <1>10 DEF TypeOK, Served, Handing, CheckRunning, Exit, Goto
<1>11. CASE Ensure(i)
  <2>1. pc[i] = "ensure" /\ UNCHANGED <<kind, port, parent, metaFile, cfg, busy, calm>>
    BY <1>11 DEF Ensure
  <2>2. \A p \in Pids : /\ kind[p] \in {"free", "proxy"} /\ parent[p] = None
                        /\ kind[p] = "proxy" => port[p] = metaFile /\ p = pidFile
    BY <2>1 DEF Served, Handing, Known, Recording, IsDaemon
  <2>3. CASE IsProxyRunning /\ metaFile = cfg[i].port
    <3>1. pc'[i] = "record" /\ child'[i] = pidFile /\ pidFile \in Pids
      BY <1>11, <2>3 DEF TypeOK, Ensure, Goto, IsProxyRunning
    <3>2. kind[pidFile] = "proxy" /\ port[pidFile] = cfg[i].port
      BY <2>2, <2>3, <3>1 DEF IsProxyRunning
    <3>3. \A p \in Pids \ {pidFile} : kind[p] = "free" /\ parent[p] = None
      BY <2>2
    <3>4. QED BY <2>1, <3>1, <3>2, <3>3 DEF Served, Handing, IsDaemon
  <2>4. CASE ~(IsProxyRunning /\ metaFile = cfg[i].port)
    <3>1. pc'[i] \in {"kill", "spawn"}
      BY <1>11, <2>4 DEF TypeOK, Ensure, Goto
    <3>2. QED BY <2>1, <2>2, <3>1 DEF Served, Handing
  <2>5. QED BY <2>3, <2>4
<1>12. CASE Kill(i)
  BY <1>12 DEF TypeOK, Served, Handing, Kill, Goto, Gone, IsProxyRunning
<1>13. CASE CleanPid(i)
  BY <1>13 DEF TypeOK, Served, Handing, CleanPid, Goto
<1>14. CASE CleanMeta(i)
  <2>1. \A p \in Pids : kind[p] = "free" /\ parent[p] = None
    BY <1>14 DEF CleanMeta, Served, Handing, Known, Quiet, IsDaemon
  <2>2. \A p \in Pids : kind'[p] = "free" /\ parent'[p] = None
    BY <1>14, <2>1 DEF TypeOK, CleanMeta, Exit
  <2>3. pc'[i] \in {"idle", "dropRoutes", "spawn"} /\ busy' = busy
    BY <1>14 DEF TypeOK, CleanMeta, Exit, Goto
  <2>4. QED BY <2>2, <2>3 DEF Served, Handing
<1>15. CASE DropRoutes(i)
  BY <1>15 DEF TypeOK, Served, Handing, DropRoutes, Exit, Goto
<1>16. CASE (\E p \in Pids : Spawn(i, p))
  <2>1. PICK q \in Pids : Spawn(i, q)
    BY <1>16
  <2>2. \A p \in Pids : kind[p] = "free" /\ parent[p] = None
    BY <2>1 DEF Spawn, Served, Handing, Known, Quiet, IsDaemon
  <2>3. /\ pc'[i] = "ready" /\ child'[i] = q /\ busy' = busy /\ cfg' = cfg
        /\ kind'[q] = "starting" /\ port'[q] = cfg[i].port /\ parent'[q] = i
        /\ \A p \in Pids \ {q} : kind'[p] = kind[p] /\ parent'[p] = parent[p]
    BY <2>1 DEF TypeOK, Spawn, Goto
  <2>4. QED BY <2>2, <2>3 DEF Served, Handing
<1>17. CASE SpawnFails(i)
  BY <1>17 DEF TypeOK, Served, Handing, SpawnFails, Exit, Goto
<1>18. CASE Ready(i)
  <2>1. kind[child[i]] = "proxy"
    BY <1>18 DEF Ready, Served, Listening
  <2>2. QED BY <1>18, <2>1 DEF TypeOK, Served, Handing, Ready, Goto, IsDaemon
<1>19. CASE NotReady(i)
  <2>1. kind[child[i]] = "dead" /\ child[i] \in Pids /\ parent[child[i]] = i
    BY <1>19 DEF NotReady, Served, Tame, Without
  <2>2. \A p \in Pids \ {child[i]} : kind[p] = "free" /\ parent[p] = None
    BY <1>19 DEF NotReady, Served
  <2>3. \A p \in Pids : kind'[p] = "free" /\ parent'[p] = None
    BY <1>19, <2>1, <2>2 DEF TypeOK, NotReady, Exit
  <2>4. pc'[i] = "idle" /\ busy' = busy
    BY <1>19 DEF TypeOK, NotReady, Exit, Goto
  <2>5. QED BY <1>19, <2>3, <2>4 DEF Served, Handing, NotReady
<1>20. CASE RecordTruncates(i)
  BY <1>20 DEF TypeOK, Served, Handing, RecordTruncates, Goto, IsDaemon
<1>21. CASE RecordPid(i)
  BY <1>21 DEF TypeOK, Served, Handing, RecordPid, Goto, IsDaemon
<1>22. CASE RecordMetaTruncates(i)
  BY <1>22 DEF TypeOK, Served, Handing, RecordMetaTruncates, Goto, IsDaemon
<1>23. CASE RecordMeta(i)
  <2>1. /\ pc'[i] = "idle" /\ metaFile' = cfg[i].port /\ busy' = busy /\ port' = port
        /\ kind' = [p \in Pids |-> IF parent[p] = i /\ kind[p] = "dead" THEN "free" ELSE kind[p]]
        /\ parent' = [p \in Pids |-> IF parent[p] = i THEN None ELSE parent[p]]
    BY <1>23 DEF TypeOK, RecordMeta, Exit, Goto
  <2>2. /\ child[i] \in Pids
        /\ \A p \in Pids \ {child[i]} : kind[p] = "free" /\ parent[p] = None
        /\ kind[child[i]] \in {"free", "proxy", "dead"} /\ parent[child[i]] \in {i, None}
        /\ kind[child[i]] = "proxy" => port[child[i]] = cfg[i].port
        /\ kind[child[i]] = "dead" => parent[child[i]] = i
    BY <1>23 DEF TypeOK, RecordMeta, Served, Handing, IsDaemon
  <2>3. \A p \in Pids : /\ kind'[p] \in {"free", "proxy"} /\ parent'[p] = None
                        /\ kind'[p] = "proxy" => port'[p] = metaFile'
    BY <2>1, <2>2
  <2>4. QED BY <1>23, <2>1, <2>3 DEF Served, Handing
<1>24. QED
  BY <1>1, <1>2, <1>3, <1>4, <1>5, <1>6, <1>7, <1>8, <1>9, <1>10, <1>11, <1>12, <1>13, <1>14,
    <1>15, <1>16, <1>17, <1>18, <1>19, <1>20, <1>21, <1>22, <1>23 DEF Step

\* A command that begins has started no daemon.
LEMMA InvokeServed ==
  ASSUME TypeOK, NEW i \in Clis, Served(i), NEW o \in Commands, NEW s, Invoke(i, o, s)
  PROVE  Served(i)'
<1>1. /\ pc[i] = "idle" /\ pc'[i] \in {"load", "kill", "cleanPid"}
      /\ UNCHANGED <<busy, kind, port, parent, metaFile>>
  BY DEF TypeOK, Invoke, Goto, procs, files
<1>2. QED BY <1>1 DEF Served, Handing

\* The daemon in hand finds its port free.
LEMMA BindServed ==
  ASSUME TypeOK, NEW i \in Clis, Served(i), NEW q \in Pids, Bind(q) \/ BindFails(q)
  PROVE  Served(i)'
<1>1. kind[q] = "starting" /\ pc' = pc /\ child' = child
  BY DEF Bind, BindFails, locals
<1>2. pc[i] = "ready" /\ q = child[i]
  BY <1>1 DEF Served, Handing
<1>3. \A r \in Ports : ~Listening(r)
  BY <1>1, <1>2 DEF Served, Listening
<1>4. ~BindFails(q)
  BY <1>1, <1>2, <1>3 DEF BindFails, Served, IsDaemon, TypeOK, Listening
<1>5. /\ kind'[q] = "proxy" /\ \A p \in Pids \ {q} : kind'[p] = kind[p]
      /\ UNCHANGED <<busy, port, parent, cfg>>
  BY <1>4 DEF TypeOK, Bind, locals
<1>6. QED BY <1>1, <1>2, <1>5 DEF Served, Handing, IsDaemon

\* The end of the daemon, or of the machine, leaves no port that is thought served.
LEMMA EnvironmentServed ==
  ASSUME TypeOK, Tame, NEW i \in Clis, Clis = {i}, Served(i), Environment
  PROVE  Served(i)'
<1>1. CASE Reboot
  BY <1>1 DEF TypeOK, Reboot, Served, Handing
<1>2. ASSUME NEW j \in Clis, CommandCrashes(j) PROVE FALSE
  BY <1>2 DEF CommandCrashes, Tame, Without
<1>3. ASSUME NEW q \in Pids, DaemonDies(q) PROVE Served(i)'
  <2>1. /\ IsDaemon(q)
        /\ kind' = [kind EXCEPT ![q] = IF parent[q] = None THEN "free" ELSE "dead"]
        /\ port' = [port EXCEPT ![q] = None] /\ calm'[i] = FALSE
        /\ UNCHANGED <<pc, cfg, child, metaFile, parent, busy>>
    BY <1>3 DEF DaemonDies, Gone, Disturb, files, locals
  <2>2. CASE pc[i] \notin Handing \cup {"ready"}
    <3>1. \A p \in Pids : /\ kind'[p] \in {"free", "proxy"} /\ parent'[p] = None
                          /\ kind'[p] = "proxy" => port'[p] = metaFile'
      BY <2>1, <2>2 DEF TypeOK, Served
    <3>2. QED BY <2>1, <2>2, <3>1 DEF Served, Handing
  <2>3. CASE pc[i] \in Handing \cup {"ready"}
    <3>1. q = child[i]
      BY <2>1, <2>3 DEF Served, IsDaemon
    <3>2. /\ kind'[q] = IF parent[q] = None THEN "free" ELSE "dead"
          /\ \A p \in Pids \ {q} : kind'[p] = kind[p]
          /\ parent[q] \in {None, i}
      BY <2>1 DEF TypeOK
    <3>3. QED BY <2>1, <2>3, <3>1, <3>2 DEF Served, Handing, IsDaemon
  <2>4. QED BY <2>2, <2>3
<1>4. ASSUME NEW q \in Pids, ForeignStarts(q) \/ ForeignExits(q) PROVE FALSE
  BY <1>4 DEF ForeignStarts, ForeignExits, Tame, Without
<1>5. ASSUME NEW q \in Ports, PortTaken(q) \/ PortReleased(q) PROVE FALSE
  BY <1>5 DEF PortTaken, PortReleased, Tame, Without, Served
<1>6. QED BY <1>1, <1>2, <1>3, <1>4, <1>5 DEF Environment

\* The invariant on the ports is inductive.
LEMMA ServedInvKept ==
  ASSUME OneCommandLine
  PROVE  ServedInv /\ [Next]_vars => ServedInv'
<1> SUFFICES ASSUME ServedInv, [Next]_vars, NEW i \in Clis, Clis = {i} PROVE ServedInv'
  BY DEF OneCommandLine
<1>1. DaemonInv' /\ faults' = faults /\ TypeOK
  BY DaemonInvKept, SameFaults DEF ServedInv, DaemonInv
<1>2. SUFFICES ASSUME Tame PROVE Served(i)'
  BY <1>1 DEF ServedInv, Tame, Without
<1>3. Served(i) /\ Known(i)
  BY <1>2 DEF ServedInv, DaemonInv, DaemonKnown, Tame, Without
<1>4. ASSUME NEW o \in Commands, NEW s \in Services \cup {None}, Invoke(i, o, s) PROVE Served(i)'
  BY <1>1, <1>3, <1>4, InvokeServed
<1>5. CASE Step(i)
  BY <1>1, <1>2, <1>3, <1>5, StepServed
<1>6. ASSUME NEW p \in Pids, Bind(p) \/ BindFails(p) PROVE Served(i)'
  BY <1>1, <1>3, <1>6, BindServed
<1>7. CASE Environment
  BY <1>1, <1>2, <1>3, <1>7, EnvironmentServed
<1>8. CASE UNCHANGED vars
  BY <1>3, <1>8 DEF Served, IsDaemon, vars
<1>9. QED BY <1>4, <1>5, <1>6, <1>7, <1>8 DEF Next

\* With one command line, and as long as no command is killed, no daemon is slow and
\* no other program takes a pid or a port, a `db add` or `db start` that succeeds
\* leaves its own daemon listening on the configured port.
THEOREM SuccessServes ==
  ASSUME OneCommandLine
  PROVE  Spec => SuccessMeansServing
<1>1. ASSUME ServedInv, FilesInv, [Next]_vars, NEW i \in Clis, Tame,
             op[i] \in {"add", "start"}, Succeeds(i), calm[i]
      PROVE  pidFile' # None /\ kind'[pidFile'] = "proxy" /\ port'[pidFile'] = cfg[i].port
  <2>1. \/ LoadNothingToDo(i) \/ SaveWrites(i) \/ CheckRunning(i) \/ CleanMeta(i)
        \/ DropRoutes(i) \/ RecordMeta(i)
    BY <1>1, SuccessIsAStep DEF FilesInv
  <2>2. RecordMeta(i)
    BY <1>1, <2>1 DEF FilesInv, TypeOK, Filed, Succeeds, LoadNothingToDo, SaveWrites,
      CheckRunning, CleanMeta, DropRoutes, Goto, Stopping
  <2>3. pc[i] = "recordMetaWrite" /\ pidFile' = pidFile /\ port' = port
    BY <2>2 DEF RecordMeta, Exit
  <2>4. Served(i) /\ Known(i)
    BY <1>1 DEF ServedInv, DaemonInv, DaemonKnown, Tame, Without
  <2>5. /\ child[i] \in Pids /\ kind[child[i]] = "proxy"
        /\ port[child[i]] = cfg[i].port
    BY <1>1, <2>3, <2>4 DEF Served, Handing, IsDaemon
  <2>6. pidFile = child[i]
    BY <2>3, <2>4, <2>5 DEF Known, Recording, IsDaemon
  <2>7. kind'[pidFile] = "proxy"
    BY <2>2, <2>5, <2>6 DEF RecordMeta, Exit
  <2>8. QED BY <2>3, <2>5, <2>6, <2>7, NoneAssumption
<1>2. ServedInv /\ FilesInv /\ [Next]_vars =>
        [\A i \in Clis :
           /\ Without({"crash", "slow", "foreign", "occupied"})
           /\ op[i] \in {"add", "start"} /\ Succeeds(i) /\ calm[i]
           => pidFile' # None /\ kind'[pidFile'] = "proxy" /\ port'[pidFile'] = cfg[i].port]_vars
  BY <1>1 DEF Tame
<1>3. ServedInv /\ [Next]_vars => ServedInv'
  BY ServedInvKept
<1>4. FilesInv /\ [Next]_vars => FilesInv'
  BY FilesInvKept
<1>5. QED BY <1>2, <1>3, <1>4, InitServed, InitFiles, PTL DEF Spec, SuccessMeansServing
=============================================================================
