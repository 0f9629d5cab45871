------------------------------ MODULE DbCommands ------------------------------
(***************************************************************************)
(* The `db` commands (src/internal/db/service.go) and the life of the      *)
(* proxy daemon they manage (src/internal/db/proxy.go): config.yaml,       *)
(* db-routes.json, db-proxy.pid and db-proxy.json, the processes those     *)
(* files speak of, and what can happen to them between two steps.          *)
(*                                                                         *)
(* Each command is a process that runs one step at a time.  A file is      *)
(* written the way os.WriteFile does it: truncated, then filled.           *)
(*                                                                         *)
(* What is abstracted:                                                     *)
(*  - the configuration is whether service discovery is configured, the    *)
(*    target of each service and the local port; a truncated or missing    *)
(*    file loads as the zero configuration;                                *)
(*  - service discovery and the connectivity check answer a target or      *)
(*    fail; a write of a file does not fail, a crash may interrupt it;     *)
(*  - `kill`, the wait of two seconds and `kill -9` are one step: the      *)
(*    process is gone afterwards;                                          *)
(*  - a program that is not the proxy may have any free pid, belongs to    *)
(*    the same user, and may hold a port and answer on it.                 *)
(***************************************************************************)
EXTENDS Naturals

CONSTANTS Clis,         \* command-line processes that may run at once
          Services,     \* database services, by the key that identifies them
          Targets,      \* upstream addresses service discovery may answer
          Ports,        \* local ports the proxy may be given
          DefaultPort,  \* the port of a configuration that names none
          Pids,         \* process identifiers of the machine
          Worlds,       \* the environments to consider, each a set of faults
          None,         \* no value
          Unreadable    \* routes file missing or truncated

AllFaults == {"die",       \* the daemon dies by itself
              "slow",      \* the daemon needs more than two seconds to listen
              "crash",     \* a command is killed between two steps
              "reboot",    \* the machine restarts: no process survives
              "foreign",   \* other programs of the user come and go
              "occupied"}  \* other programs take and release local ports

ASSUME WorldsAssumption == Worlds \subseteq SUBSET AllFaults
ASSUME PortAssumption == DefaultPort \in Ports
ASSUME NoneAssumption ==
  None \notin Clis \cup Services \cup Targets \cup Ports \cup Pids \cup BOOLEAN

VARIABLES
  config,    \* config.yaml
  routes,    \* db-routes.json: the target of each service, or Unreadable
  pidFile,   \* db-proxy.pid: a pid, or None when missing or empty
  metaFile,  \* db-proxy.json: the port it names, or None when missing
  kind,      \* what runs under a pid: "free", "starting" (a daemon that does
             \* not listen yet), "proxy", "dead" (a zombie), "foreign"
  port,      \* the port a daemon was started with
  parent,    \* the command that started a daemon, while it runs
  busy,      \* ports held by other programs
  pc,        \* the next step of each command, "idle" when none runs
  op, svc,   \* the command and its argument
  cfg,       \* the configuration in the command's memory
  child,     \* the pid it started or found
  result,    \* how its last run ended
  calm,      \* history: no fault has happened since the command began
  lastConfig, \* history: the last configuration written in full
  faults     \* what the environment may do, the same for a whole behaviour

files == <<config, routes, pidFile, metaFile>>
procs == <<kind, port, parent>>
locals == <<op, svc, cfg, child>>
history == <<calm, lastConfig, faults>>
vars == <<config, routes, pidFile, metaFile, kind, port, parent, busy, pc, op, svc,
          cfg, child, result, calm, lastConfig, faults>>

Maps == [Services -> Targets \cup {None}]
Configs == [discovery : BOOLEAN, targets : Maps, port : Ports]
ZeroConfig == [discovery |-> FALSE, targets |-> [s \in Services |-> None],
               port |-> DefaultPort]

Commands == {"init", "add", "remove", "start", "stop"}
Steps == {"load", "edit", "save", "saveWrite", "routes", "routesWrite", "check", "ensure",
          "kill", "cleanPid", "cleanMeta", "dropRoutes", "spawn", "ready",
          "record", "recordPid", "recordMeta", "recordMetaWrite"}

\* Every variable has a value of the kind the code gives it.
TypeOK ==
  /\ config \in Configs
  /\ routes \in Maps \cup {Unreadable}
  /\ pidFile \in Pids \cup {None}
  /\ metaFile \in Ports \cup {None}
  /\ kind \in [Pids -> {"free", "starting", "proxy", "dead", "foreign"}]
  /\ port \in [Pids -> Ports \cup {None}]
  /\ parent \in [Pids -> Clis \cup {None}]
  /\ busy \subseteq Ports
  /\ pc \in [Clis -> Steps \cup {"idle"}]
  /\ op \in [Clis -> Commands \cup {None}]
  /\ svc \in [Clis -> Services \cup {None}]
  /\ cfg \in [Clis -> Configs]
  /\ child \in [Clis -> Pids \cup {None}]
  /\ result \in [Clis -> {"none", "ok", "failed"}]
  /\ calm \in [Clis -> BOOLEAN]
  /\ lastConfig \in Configs
  /\ faults \in Worlds

Init ==
  /\ config = ZeroConfig
  /\ routes = Unreadable
  /\ pidFile = None
  /\ metaFile = None
  /\ kind = [p \in Pids |-> "free"]
  /\ port = [p \in Pids |-> None]
  /\ parent = [p \in Pids |-> None]
  /\ busy = {}
  /\ pc = [i \in Clis |-> "idle"]
  /\ op = [i \in Clis |-> None]
  /\ svc = [i \in Clis |-> None]
  /\ cfg = [i \in Clis |-> ZeroConfig]
  /\ child = [i \in Clis |-> None]
  /\ result = [i \in Clis |-> "none"]
  /\ calm = [i \in Clis |-> TRUE]
  /\ lastConfig = ZeroConfig
  /\ faults \in Worlds

-----------------------------------------------------------------------------
(* Helpers                                                                  *)

\* The services a map or a configuration's targets name.
Names(m) == {s \in Services : m[s] # None}

IsDaemon(p) == kind[p] \in {"starting", "proxy"}
Listening(q) == \E p \in Pids : kind[p] = "proxy" /\ port[p] = q

\* readPID and kill -0: anything that has the pid answers, a zombie included.
IsProxyRunning == pidFile # None /\ kind[pidFile] # "free"

\* The process under p is gone; its parent, if it still runs, does not wait
\* for it, so it stays as a zombie.
Gone(p) ==
  /\ kind' = [kind EXCEPT ![p] = IF parent[p] = None THEN "free" ELSE "dead"]
  /\ port' = [port EXCEPT ![p] = None]

Goto(i, step) == pc' = [pc EXCEPT ![i] = step]

\* The command exits; what it started belongs to init from now on.
Exit(i, how) ==
  /\ Goto(i, "idle")
  /\ result' = [result EXCEPT ![i] = how]
  /\ op' = [op EXCEPT ![i] = None]
  /\ svc' = [svc EXCEPT ![i] = None]
  /\ cfg' = [cfg EXCEPT ![i] = ZeroConfig]
  /\ child' = [child EXCEPT ![i] = None]
  /\ kind' = [p \in Pids |-> IF parent[p] = i /\ kind[p] = "dead" THEN "free" ELSE kind[p]]
  /\ parent' = [p \in Pids |-> IF parent[p] = i THEN None ELSE parent[p]]
  /\ UNCHANGED port

-----------------------------------------------------------------------------
(* Reading and editing the configuration                                    *)

\* The user runs a command; `db stop` reads no configuration.
Invoke(i, o, s) ==
  /\ pc[i] = "idle"
  /\ s = None <=> o \notin {"add", "remove"}
  /\ Goto(i, IF o # "stop" THEN "load"
             ELSE IF IsProxyRunning THEN "kill" ELSE "cleanPid")
  /\ op' = [op EXCEPT ![i] = o]
  /\ svc' = [svc EXCEPT ![i] = s]
  /\ result' = [result EXCEPT ![i] = "none"]
  /\ calm' = [calm EXCEPT ![i] = TRUE]
  /\ UNCHANGED <<files, procs, busy, cfg, child, lastConfig, faults>>

\* `add` and `start` want a configured discovery, `start` a service as well.
LoadRefuses(i) ==
  /\ pc[i] = "load"
  /\ op[i] \in {"add", "start"}
  /\ config.discovery => op[i] = "start" /\ Names(config.targets) = {}
  /\ Exit(i, "failed")
  /\ UNCHANGED <<files, busy, history>>

\* `remove` of an unknown service, and `init` without --force when discovery is
\* configured, have nothing to do.
LoadNothingToDo(i) ==
  /\ pc[i] = "load"
  /\ \/ op[i] = "remove" /\ config.targets[svc[i]] = None
     \/ op[i] = "init" /\ config.discovery
  /\ Exit(i, "ok")
  /\ UNCHANGED <<files, busy, history>>

Load(i) ==
  /\ pc[i] = "load"
  /\ op[i] \in {"add", "start"} => config.discovery
  /\ op[i] = "start" => Names(config.targets) # {}
  /\ op[i] = "remove" => config.targets[svc[i]] # None
  /\ cfg' = [cfg EXCEPT ![i] = config]
  /\ Goto(i, "edit")
  /\ UNCHANGED <<files, procs, busy, op, svc, child, result, history>>

\* A prompt is abandoned, discovery fails or an endpoint does not answer.
EditFails(i) ==
  /\ pc[i] = "edit"
  /\ op[i] # "remove"
  /\ Exit(i, "failed")
  /\ UNCHANGED <<files, busy, history>>

\* `init` asks for the discovery and the port.
InitEdits(c) == {[c EXCEPT !.discovery = TRUE, !.port = q] : q \in Ports}

\* Mutant of AddEdits: `db add` forgets the services added before.
AddEditsReplace(c, s) ==
  {[c EXCEPT !.targets = [ZeroConfig.targets EXCEPT ![s] = t]] : t \in Targets}

\* `add` resolves the service and appends it, or refreshes its target.
AddEdits(c, s) == {[c EXCEPT !.targets[s] = t] : t \in Targets}

RemoveEdits(c, s) == {[c EXCEPT !.targets[s] = None]}

\* `start` resolves every service again; with --force it also asks for the port.
StartEdits(c) ==
  {d \in Configs : d.discovery = c.discovery /\ Names(d.targets) = Names(c.targets)}

\* What the command makes of the configuration it loaded.
Edited(i) ==
  CASE op[i] = "init" -> InitEdits(cfg[i])
    [] op[i] = "add" -> AddEdits(cfg[i], svc[i])
    [] op[i] = "remove" -> RemoveEdits(cfg[i], svc[i])
    [] op[i] = "start" -> StartEdits(cfg[i])

Edit(i) ==
  /\ pc[i] = "edit"
  /\ \E c \in Edited(i) : cfg' = [cfg EXCEPT ![i] = c]
  /\ Goto(i, "save")
  /\ UNCHANGED <<files, procs, busy, op, svc, child, result, history>>

-----------------------------------------------------------------------------
(* Writing the configuration and the routes                                 *)

SaveTruncates(i) ==
  /\ pc[i] = "save"
  /\ config' = ZeroConfig
  /\ Goto(i, "saveWrite")
  /\ UNCHANGED <<routes, pidFile, metaFile, procs, busy, locals, result, history>>

\* Mutant of SaveWrites: without a service left the daemon stays, without routes.
SaveWritesKeepsDaemon(i) ==
  /\ pc[i] = "saveWrite"
  /\ config' = cfg[i]
  /\ lastConfig' = cfg[i]
  /\ IF op[i] = "init"
     THEN Exit(i, "ok")
     ELSE Goto(i, "routes") /\ UNCHANGED <<procs, locals, result>>
  /\ UNCHANGED <<routes, pidFile, metaFile, busy, calm, faults>>

\* The file is complete.  `init` is done; removing the last service stops the
\* daemon; everything else rewrites the routes.
SaveWrites(i) ==
  /\ pc[i] = "saveWrite"
  /\ config' = cfg[i]
  /\ lastConfig' = cfg[i]
  /\ IF op[i] = "init"
     THEN Exit(i, "ok")
     ELSE /\ Goto(i, IF Names(cfg[i].targets) = {} THEN "kill" ELSE "routes")
          /\ UNCHANGED <<procs, locals, result>>
  /\ UNCHANGED <<routes, pidFile, metaFile, busy, calm, faults>>

\* Mutant of RoutesTruncate: a routes file that is there is taken for current.
RoutesTruncateOnce(i) ==
  /\ pc[i] = "routes"
  /\ Goto(i, IF routes = Unreadable THEN "routesWrite" ELSE "ensure")
  /\ UNCHANGED <<files, procs, busy, locals, result, history>>

RoutesTruncate(i) ==
  /\ pc[i] = "routes"
  /\ routes' = Unreadable
  /\ Goto(i, "routesWrite")
  /\ UNCHANGED <<config, pidFile, metaFile, procs, busy, locals, result, history>>

RoutesWrite(i) ==
  /\ pc[i] = "routesWrite"
  /\ routes' = cfg[i].targets
  /\ Goto(i, IF op[i] = "remove" THEN "check" ELSE "ensure")
  /\ UNCHANGED <<config, pidFile, metaFile, procs, busy, locals, result, history>>

\* Mutant of DropRoutes: the file outlives the last service.
DropRoutesKeeps(i) ==
  /\ pc[i] = "dropRoutes"
  /\ Exit(i, "ok")
  /\ UNCHANGED <<files, busy, history>>

\* After the daemon has been stopped for the last service.
DropRoutes(i) ==
  /\ pc[i] = "dropRoutes"
  /\ routes' = Unreadable
  /\ Exit(i, "ok")
  /\ UNCHANGED <<config, pidFile, metaFile, busy, history>>

-----------------------------------------------------------------------------
(* The daemon: ensureProxyRunning, StartProxyDaemon, StopProxyDaemon        *)

\* `remove` goes on only with a daemon that runs; what it has seen may be out of
\* date at the next step.
CheckRunning(i) ==
  /\ pc[i] = "check"
  /\ IF IsProxyRunning
     THEN Goto(i, "ensure") /\ UNCHANGED <<procs, locals, result>>
     ELSE Exit(i, "ok")
  /\ UNCHANGED <<files, busy, history>>

\* Mutant of Ensure: a running daemon is always replaced, to reload its routes.
EnsureReplaces(i) ==
  /\ pc[i] = "ensure"
  /\ Goto(i, IF IsProxyRunning THEN "kill" ELSE "spawn")
  /\ UNCHANGED <<files, procs, busy, locals, result, history>>

\* Mutant of Ensure: a running daemon is kept whatever its port.
EnsureKeepsAny(i) ==
  /\ pc[i] = "ensure"
  /\ IF IsProxyRunning
     THEN /\ Goto(i, "record")
          /\ child' = [child EXCEPT ![i] = pidFile]
     ELSE Goto(i, "spawn") /\ UNCHANGED child
  /\ UNCHANGED <<files, procs, busy, op, svc, cfg, result, history>>

\* Mutant of Ensure: the new daemon is started beside the old one.
EnsureAddsAnother(i) ==
  /\ pc[i] = "ensure"
  /\ IF IsProxyRunning /\ metaFile = cfg[i].port
     THEN /\ Goto(i, "record")
          /\ child' = [child EXCEPT ![i] = pidFile]
     ELSE /\ Goto(i, "spawn")
          /\ UNCHANGED child
  /\ UNCHANGED <<files, procs, busy, op, svc, cfg, result, history>>

\* A running daemon with the wanted port is kept, one with another port is
\* replaced, and without one a new one is started.
Ensure(i) ==
  /\ pc[i] = "ensure"
  /\ IF IsProxyRunning
     THEN IF metaFile = cfg[i].port
          THEN /\ Goto(i, "record")
               /\ child' = [child EXCEPT ![i] = pidFile]
          ELSE /\ Goto(i, "kill")
               /\ UNCHANGED child
     ELSE Goto(i, "spawn") /\ UNCHANGED child
  /\ UNCHANGED <<files, procs, busy, op, svc, cfg, result, history>>

\* Mutant of Kill: the files go, the process stays.
KillNothing(i) ==
  /\ pc[i] = "kill"
  /\ Goto(i, "cleanPid")
  /\ UNCHANGED <<files, procs, busy, locals, result, history>>

\* kill, wait, kill -9: whatever has the pid of the pid file goes.
Kill(i) ==
  /\ pc[i] = "kill"
  /\ IF IsProxyRunning THEN Gone(pidFile) ELSE UNCHANGED <<kind, port>>
  /\ Goto(i, "cleanPid")
  /\ UNCHANGED <<files, parent, busy, locals, result, history>>

CleanPid(i) ==
  /\ pc[i] = "cleanPid"
  /\ pidFile' = None
  /\ Goto(i, "cleanMeta")
  /\ UNCHANGED <<config, routes, metaFile, procs, busy, locals, result, history>>

\* `stop` is done; removing the last service goes on to drop the routes; a
\* replacement goes on to start the new daemon.
CleanMeta(i) ==
  /\ pc[i] = "cleanMeta"
  /\ metaFile' = None
  /\ IF op[i] = "stop"
     THEN Exit(i, "ok")
     ELSE /\ Goto(i, IF Names(cfg[i].targets) = {} THEN "dropRoutes" ELSE "spawn")
          /\ UNCHANGED <<procs, locals, result>>
  /\ UNCHANGED <<config, routes, pidFile, busy, history>>

Spawn(i, p) ==
  /\ pc[i] = "spawn"
  /\ kind[p] = "free"
  /\ kind' = [kind EXCEPT ![p] = "starting"]
  /\ port' = [port EXCEPT ![p] = cfg[i].port]
  /\ parent' = [parent EXCEPT ![p] = i]
  /\ child' = [child EXCEPT ![i] = p]
  /\ Goto(i, "ready")
  /\ UNCHANGED <<files, busy, op, svc, cfg, result, history>>

\* The system has no pid left.
SpawnFails(i) ==
  /\ pc[i] = "spawn"
  /\ \A p \in Pids : kind[p] # "free"
  /\ Exit(i, "failed")
  /\ UNCHANGED <<files, busy, history>>

\* waitPID sees the child, zombie or not, and waitListenReady reaches a
\* listener, the child or another.
Ready(i) ==
  /\ pc[i] = "ready"
  /\ Listening(cfg[i].port) \/ cfg[i].port \in busy
  /\ Goto(i, "record")
  /\ UNCHANGED <<files, procs, busy, locals, result, history>>

\* Two seconds pass without a listener: the child has died or, when daemons
\* may be slow, does not listen yet.  The child is not killed.
NotReady(i) ==
  /\ pc[i] = "ready"
  /\ ~Listening(cfg[i].port) /\ cfg[i].port \notin busy
  /\ "slow" \in faults \/ kind[child[i]] = "dead"
  /\ Exit(i, "failed")
  /\ UNCHANGED <<files, busy, history>>

RecordTruncates(i) ==
  /\ pc[i] = "record"
  /\ pidFile' = None
  /\ Goto(i, "recordPid")
  /\ UNCHANGED <<config, routes, metaFile, procs, busy, locals, result, history>>

RecordPid(i) ==
  /\ pc[i] = "recordPid"
  /\ pidFile' = child[i]
  /\ Goto(i, "recordMeta")
  /\ UNCHANGED <<config, routes, metaFile, procs, busy, locals, result, history>>

RecordMetaTruncates(i) ==
  /\ pc[i] = "recordMeta"
  /\ metaFile' = None
  /\ Goto(i, "recordMetaWrite")
  /\ UNCHANGED <<config, routes, pidFile, procs, busy, locals, result, history>>

\* Mutant of RecordMeta: the pid is written where the port belongs.
RecordMetaPid(i) ==
  /\ pc[i] = "recordMetaWrite"
  /\ metaFile' = child[i]
  /\ Exit(i, "ok")
  /\ UNCHANGED <<config, routes, pidFile, busy, history>>

RecordMeta(i) ==
  /\ pc[i] = "recordMetaWrite"
  /\ metaFile' = cfg[i].port
  /\ Exit(i, "ok")
  /\ UNCHANGED <<config, routes, pidFile, busy, history>>

-----------------------------------------------------------------------------
(* The daemon itself                                                        *)

\* runTCPProxy listens.
Bind(p) ==
  /\ kind[p] = "starting"
  /\ ~Listening(port[p]) /\ port[p] \notin busy
  /\ kind' = [kind EXCEPT ![p] = "proxy"]
  /\ UNCHANGED <<files, port, parent, busy, pc, locals, result, history>>

\* The port is taken: the daemon logs the error and exits.
BindFails(p) ==
  /\ kind[p] = "starting"
  /\ Listening(port[p]) \/ port[p] \in busy
  /\ Gone(p)
  /\ UNCHANGED <<files, parent, busy, pc, locals, result, history>>

-----------------------------------------------------------------------------
(* What the environment may do                                              *)

Disturb == calm' = [i \in Clis |-> FALSE] /\ UNCHANGED <<lastConfig, faults>>

DaemonDies(p) ==
  /\ "die" \in faults
  /\ IsDaemon(p)
  /\ Gone(p)
  /\ Disturb
  /\ UNCHANGED <<files, parent, busy, pc, locals, result>>

CommandCrashes(i) ==
  /\ "crash" \in faults
  /\ pc[i] # "idle"
  /\ Exit(i, "failed")
  /\ UNCHANGED <<files, busy, history>>

Reboot ==
  /\ "reboot" \in faults
  /\ kind' = [p \in Pids |-> "free"]
  /\ port' = [p \in Pids |-> None]
  /\ parent' = [p \in Pids |-> None]
  /\ pc' = [i \in Clis |-> "idle"]
  /\ op' = [i \in Clis |-> None]
  /\ svc' = [i \in Clis |-> None]
  /\ cfg' = [i \in Clis |-> ZeroConfig]
  /\ child' = [i \in Clis |-> None]
  /\ result' = [i \in Clis |-> "none"]
  /\ Disturb
  /\ UNCHANGED <<files, busy>>

ForeignStarts(p) ==
  /\ "foreign" \in faults
  /\ kind[p] = "free"
  /\ kind' = [kind EXCEPT ![p] = "foreign"]
  /\ Disturb
  /\ UNCHANGED <<files, port, parent, busy, pc, locals, result>>

ForeignExits(p) ==
  /\ "foreign" \in faults
  /\ kind[p] = "foreign"
  /\ kind' = [kind EXCEPT ![p] = "free"]
  /\ Disturb
  /\ UNCHANGED <<files, port, parent, busy, pc, locals, result>>

PortTaken(q) ==
  /\ "occupied" \in faults
  /\ q \notin busy /\ ~Listening(q)
  /\ busy' = busy \cup {q}
  /\ Disturb
  /\ UNCHANGED <<files, procs, pc, locals, result>>

PortReleased(q) ==
  /\ q \in busy
  /\ busy' = busy \ {q}
  /\ Disturb
  /\ UNCHANGED <<files, procs, pc, locals, result>>

-----------------------------------------------------------------------------

Step(i) ==
  \/ LoadRefuses(i) \/ LoadNothingToDo(i) \/ Load(i) \/ EditFails(i) \/ Edit(i)
  \/ SaveTruncates(i) \/ SaveWrites(i) \/ RoutesTruncate(i) \/ RoutesWrite(i)
  \/ CheckRunning(i) \/ Ensure(i) \/ Kill(i) \/ CleanPid(i) \/ CleanMeta(i)
  \/ DropRoutes(i) \/ (\E p \in Pids : Spawn(i, p)) \/ SpawnFails(i) \/ Ready(i) \/ NotReady(i)
  \/ RecordTruncates(i) \/ RecordPid(i) \/ RecordMetaTruncates(i) \/ RecordMeta(i)

Environment ==
  \/ Reboot
  \/ \E i \in Clis : CommandCrashes(i)
  \/ \E p \in Pids : DaemonDies(p) \/ ForeignStarts(p) \/ ForeignExits(p)
  \/ \E q \in Ports : PortTaken(q) \/ PortReleased(q)

Next ==
  \/ \E i \in Clis, o \in Commands, s \in Services \cup {None} : Invoke(i, o, s)
  \/ \E i \in Clis : Step(i)
  \/ \E p \in Pids : Bind(p) \/ BindFails(p)
  \/ Environment

Spec == Init /\ [][Next]_vars

-----------------------------------------------------------------------------
(* Properties of one command at a time.  A property that some faults defeat *)
(* says which.                                                              *)

\* The world has none of these faults.
Without(bad) == faults \cap bad = {}

\* The command of i ends here, without an error.
Succeeds(i) == pc[i] # "idle" /\ pc'[i] = "idle" /\ result'[i] = "ok"

\* No daemon is ever out of reach: the pid file names it, or the command that
\* has just started or found it is about to record it.  (A command killed before
\* it records, or one that does not wait long enough, leaves an orphan.)
NoOrphan ==
  Without({"crash", "slow"}) =>
    \A p \in Pids : IsDaemon(p) =>
      \/ pidFile = p
      \/ \E i \in Clis : child[i] = p /\ pc[i] \in {"ready", "record", "recordPid"}

\* There are never two daemons, not even while one replaces the other.
OneDaemon ==
  Without({"crash", "slow"}) =>
    \A p, q \in Pids : IsDaemon(p) /\ IsDaemon(q) => p = q

\* `db stop` leaves no daemon behind ("Stop stops local proxy daemon").
StopLeavesNoDaemon ==
  [][\A i \in Clis :
       Without({"crash", "slow"}) /\ op[i] = "stop" /\ Succeeds(i) =>
         \A p \in Pids : ~IsDaemon(p)]_vars

\* After a successful `db add` or `db start` that no fault disturbed, the daemon
\* of the pid file listens on the configured port.  (Not so when another program
\* has the recorded pid or the port, or an orphan has the port.)
SuccessMeansServing ==
  [][\A i \in Clis :
       /\ Without({"crash", "slow", "foreign", "occupied"})
       /\ op[i] \in {"add", "start"} /\ Succeeds(i) /\ calm[i]
       => pidFile' # None /\ kind'[pidFile'] = "proxy" /\ port'[pidFile'] = cfg[i].port]_vars

\* Whatever crashed before, a successful `db add` or `db start` leaves the
\* configuration of the command on disk, in full, and its routes.
SuccessRepairsFiles ==
  [][\A i \in Clis :
       op[i] \in {"add", "start"} /\ Succeeds(i) =>
         config' = cfg[i] /\ routes' = cfg[i].targets]_vars

\* While no command runs, the proxy routes exactly the configured services to
\* the configured targets, unless a command was interrupted.
RoutesFollowConfig ==
  Without({"crash", "reboot"}) /\ (\A i \in Clis : pc[i] = "idle") =>
    routes = IF Names(config.targets) = {} THEN Unreadable ELSE config.targets

\* However the commands write the configuration, it is a catalog of services that
\* they keep: one command adds, removes or refreshes what it was asked to and
\* forgets nothing, unless a command was interrupted while it wrote the file.
C == INSTANCE Catalog WITH
  Keys <- Services, Endpoints <- Targets, Sources <- {TRUE},
  source <- IF lastConfig.discovery THEN TRUE ELSE None,
  services <- Names(lastConfig.targets),
  endpoint <- lastConfig.targets
CatalogFollowed ==
  C!CatalogInit /\ [][Without({"crash", "reboot"}) => C!CatalogNext]_C!catalog

\* A successful `db start` leaves a proxy listening ("Start resolves all
\* configured services and starts local proxy for them").
StartServes ==
  [][\A i \in Clis :
       op[i] = "start" /\ Succeeds(i) /\ calm[i] =>
         \E p \in Pids : kind'[p] = "proxy" /\ port'[p] = cfg[i].port]_vars

\* A successful `db add` leaves a proxy listening ("AddService appends a
\* database service name, validates endpoint, and makes it available
\* immediately").
AddServes ==
  [][\A i \in Clis :
       op[i] = "add" /\ Succeeds(i) /\ calm[i] =>
         \E p \in Pids : kind'[p] = "proxy" /\ port'[p] = cfg[i].port]_vars

=============================================================================
