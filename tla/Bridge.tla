-------------------------------- MODULE Bridge --------------------------------
(***************************************************************************)
(* `wslbridge init` and `wslbridge stop` on Ubuntu/WSL                     *)
(* (src/internal/commands/init-ubuntu, src/internal/tun2socks): the        *)
(* default route and its backup, the tun device, the tun2socks processes   *)
(* and their pid file, /etc/wsl.conf and /etc/resolv.conf and their        *)
(* backups.                                                                *)
(*                                                                         *)
(* One command runs at a time, one external command or file at a step.     *)
(*                                                                         *)
(* What is abstracted:                                                     *)
(*  - the machine is on one network at a time, whose gateway is on its own *)
(*    subnet and runs the SOCKS proxy: a gateway is named by its network;   *)
(*  - it has one default route, through that network's gateway or through  *)
(*    the tun device; it carries no metric, so that `ip route replace`     *)
(*    replaces it;                                                         *)
(*  - config.yaml never names another tun device, and of the SOCKS endpoint *)
(*    it holds the host;                                                   *)
(*  - flag parsing and the installation of packages change no state here;  *)
(*  - the machine is a WSL one: on another Ubuntu the files under /etc are *)
(*    left alone and the rest is the same;                                 *)
(*  - the user edits the files under /etc between commands, not during one; *)
(*  - a tun2socks that starts after `stop` has removed the device makes one *)
(*    of its own: it counts as running, and that device is left out.        *)
(***************************************************************************)
EXTENDS Naturals

CONSTANTS Pids,    \* process identifiers of the machine
          Files,   \* the files under /etc, configured in a fixed order
          First,   \* the file configured first, /etc/wsl.conf
          Versions, \* what the user may write to a file under /etc
          Uplinks, \* the networks the machine may be on
          Worlds,  \* the environments to consider, each a set of faults
          None,    \* no value
          Empty    \* a file that has been created and not written

AllFaults == {"dies",     \* tun2socks exits by itself
              "lingers",  \* a killed tun2socks needs time to exit
              "fails",    \* a command or a file operation of a workflow fails
              "edits",    \* the user edits the files under /etc
              "crash",    \* a command is killed between two steps
              "reboot",   \* the machine restarts
              "reset",    \* the network puts the uplink's default route back
              "foreign",  \* other programs of the user come and go
              "roam"}     \* the machine moves to another network

ASSUME WorldsAssumption == Worlds \subseteq SUBSET AllFaults
ASSUME UplinksAssumption == Uplinks # {} /\ "tun" \notin Uplinks
ASSUME FilesAssumption == First \in Files /\ \A f, g \in Files \ {First} : f = g
ASSUME NoneAssumption ==
  /\ None \notin Uplinks \cup Files \cup Pids \cup Versions \cup {"tun", "bridge", "absent", Empty}
  /\ Empty \notin Pids
ASSUME VersionsAssumption == Versions \cap {"bridge", "absent", Empty} = {}

VARIABLES
  uplink,     \* the network the machine is on
  route,      \* the default route: through an uplink, "tun" or None
  routeFile,  \* default_route.txt: the route it holds, None when missing or empty
  socks,      \* config.yaml: the SOCKS host, None when missing or truncated
  link,       \* the tun device: "absent", "down" or "up"
  proc,       \* what runs under a pid: "free", "launching" (sudo has not yet
              \* executed tun2socks), "starting" (tun2socks without the device),
              \* "running" (attached to it), "dying" (killed), "foreign"
  via,        \* the SOCKS host a tun2socks was started with
  pidFile,    \* tun2socks.pid: a pid, Empty, or None when missing
  etc,        \* the files under /etc: a version of the user's, "bridge", Empty or
              \* "absent"
  saved,      \* their backups, None when missing
  pc,         \* the next step of the command, "idle" when none runs
  about,      \* the file under /etc that the step is about, None for the others
  op,         \* the command: "init" or "stop"
  force,      \* whether init was given --force
  line,       \* the default route init read
  host,       \* the SOCKS host init has detected
  found,      \* the pid init's wait returned
  result,     \* how the last command ended
  calm,       \* history: no fault has happened since the command began
  restarted,  \* history: the command has launched a tun2socks
  own,        \* history: the user's version of each file, or "absent"
  edited,     \* history: the files the user has edited since they have a backup
  faults      \* what the environment may do, the same for a whole behaviour

disk == <<routeFile, socks, pidFile, etc, saved>>
network == <<uplink, route, link>>
processes == <<proc, via>>
locals == <<op, force, line, host, found>>
control == <<pc, about>>
history == <<calm, restarted, own, edited, faults>>
vars == <<uplink, route, routeFile, socks, link, proc, via, pidFile, etc, saved, pc, about,
          op, force, line, host, found, result, calm, restarted, own, edited, faults>>

Routes == Uplinks \cup {"tun", None}
Contents == Versions \cup {"bridge", Empty, "absent"}
InitSteps == {"prepare", "check", "sudo", "backup", "backupWrite", "configure",
              "saveRoute", "saveRouteWrite", "gateway", "save", "saveWrite", "bin",
              "tunAdd", "tunUp", "tunRoute", "running", "launch", "wait", "record",
              "recordWrite"}
StopSteps == {"restoreRoute", "stopTun", "linkDown", "tunDel", "restore"}

\* The step a command is about to take, and the file it is about, if any.
At(step) == pc = step /\ about = None
AtFile(step, f) == pc = step /\ about = f

\* Every variable has a value of the kind the code gives it.
TypeOK ==
  /\ uplink \in Uplinks
  /\ route \in Routes
  /\ routeFile \in Routes
  /\ socks \in Uplinks \cup {None}
  /\ link \in {"absent", "down", "up"}
  /\ proc \in [Pids -> {"free", "launching", "starting", "running", "dying", "foreign"}]
  /\ via \in [Pids -> Uplinks \cup {None}]
  /\ pidFile \in Pids \cup {None, Empty}
  /\ etc \in [Files -> Contents]
  /\ saved \in [Files -> Contents \cup {None}]
  /\ pc \in InitSteps \cup StopSteps \cup {"idle"}
  /\ about \in Files \cup {None}
  /\ op \in {"init", "stop", None}
  /\ force \in BOOLEAN
  /\ line \in Routes
  /\ host \in Uplinks \cup {None}
  /\ found \in Pids \cup {None}
  /\ result \in {"none", "ok", "failed"}
  /\ calm \in BOOLEAN
  /\ restarted \in BOOLEAN
  /\ own \in [Files -> Versions \cup {"absent"}]
  /\ edited \subseteq Files
  /\ faults \in Worlds

Init ==
  /\ uplink \in Uplinks
  /\ route = uplink
  /\ routeFile = None
  /\ socks = None
  /\ link = "absent"
  /\ proc = [p \in Pids |-> "free"]
  /\ via = [p \in Pids |-> None]
  /\ pidFile = None
  /\ own \in [Files -> Versions \cup {"absent"}]
  /\ edited = {}
  /\ etc = own
  /\ saved = [f \in Files |-> None]
  /\ pc = "idle"
  /\ about = None
  /\ op = None
  /\ force = FALSE
  /\ line = None
  /\ host = None
  /\ found = None
  /\ result = "none"
  /\ calm = TRUE
  /\ restarted = FALSE
  /\ faults \in Worlds

-----------------------------------------------------------------------------
(* Helpers                                                                  *)

\* pgrep -x tun2socks: a process that is being killed is still listed.
Listed == {p \in Pids : proc[p] \in {"starting", "running", "dying"}}

\* The device takes one process.
Attached == {p \in Pids : proc[p] \in {"running", "dying"}}

\* Without a pid file any tun2socks counts; with one, whatever answers kill -0
\* (a foreign process of the same user) or is listed under that pid.
IsRunning ==
  IF pidFile = None
  THEN Listed # {}
  ELSE pidFile # Empty /\ (proc[pidFile] = "foreign" \/ pidFile \in Listed)

\* The processes become what ps says; one that is gone has no SOCKS host.
Become(ps) ==
  /\ proc' = ps
  /\ via' = [p \in Pids |-> IF ps[p] \in {"free", "foreign"} THEN None ELSE via[p]]

\* sudo kill, without waiting for the process to exit.
Killed(ps) ==
  [p \in Pids |->
     IF p \notin ps \/ proc[p] = "free" THEN proc[p]
     ELSE IF "lingers" \in faults /\ p \in Listed THEN "dying" ELSE "free"]

\* The pid file's process is killed and the file removed; without a readable
\* pid every tun2socks is killed.  That a `sudo kill` or the removal fails is
\* ignored.
StopIfRunning ==
  LET told == IF pidFile \in Pids THEN {pidFile} ELSE Listed IN
  /\ \E reached \in IF "fails" \in faults THEN SUBSET told ELSE {told} : Become(Killed(reached))
  /\ \/ pidFile' = IF pidFile \in Pids THEN None ELSE pidFile
     \/ "fails" \in faults /\ UNCHANGED pidFile

Goto(step) == pc' = step /\ about' = None
GotoFile(step, f) == pc' = step /\ about' = f

IsLast(f) == f # First \/ Files = {First}
FileAfter(f) == CHOOSE g \in Files : g # f

\* The command returns.
Exit(how) ==
  /\ Goto("idle")
  /\ result' = how
  /\ op' = None
  /\ force' = FALSE
  /\ line' = None
  /\ host' = None
  /\ found' = None

-----------------------------------------------------------------------------
(* init: prepare and configureNetworkInputs                                 *)

Invoke(o, f) ==
  /\ At("idle")
  /\ o = "stop" => ~f
  /\ Goto(IF o = "init" THEN "prepare" ELSE "restoreRoute")
  /\ op' = o
  /\ force' = f
  /\ result' = "none"
  /\ calm' = TRUE
  /\ restarted' = FALSE
  /\ UNCHANGED <<disk, network, processes, line, host, found, own, edited, faults>>

\* Reads the configuration and the default route.
Prepare ==
  /\ At("prepare")
  /\ line' = route
  /\ Goto("check")
  /\ UNCHANGED <<disk, network, processes, op, force, host, found, result, history>>

\* Mutant of AlreadyEnabled: the route alone tells.
AlreadyEnabledByRoute ==
  /\ At("check")
  /\ line = "tun"
  /\ Exit("ok")
  /\ UNCHANGED <<disk, network, processes, history>>

\* The route already is on the tun device and tun2socks runs, --force or not.
AlreadyEnabled ==
  /\ At("check")
  /\ line = "tun" /\ IsRunning
  /\ Exit("ok")
  /\ UNCHANGED <<disk, network, processes, history>>

NotYetEnabled ==
  /\ At("check")
  /\ ~(line = "tun" /\ IsRunning)
  /\ Goto("sudo")
  /\ UNCHANGED <<disk, network, processes, locals, result, history>>

\* sudo -v, and the question for the name server.
EnsureSudo ==
  /\ At("sudo")
  /\ GotoFile("backup", First)
  /\ UNCHANGED <<disk, network, processes, locals, result, history>>

\* Mutant of BackupFile: every init takes a new backup.
BackupFileAgain(f) ==
  /\ AtFile("backup", f)
  /\ IF etc[f] = "absent"
     THEN GotoFile("configure", f) /\ UNCHANGED saved
     ELSE GotoFile("backupWrite", f) /\ saved' = [saved EXCEPT ![f] = Empty]
  /\ UNCHANGED <<routeFile, socks, pidFile, etc, network, processes, locals, result, history>>

\* backupFileOnce: an existing backup and a missing source are left alone.
BackupFile(f) ==
  /\ AtFile("backup", f)
  /\ IF saved[f] # None \/ etc[f] = "absent"
     THEN GotoFile("configure", f) /\ UNCHANGED saved
     ELSE GotoFile("backupWrite", f) /\ saved' = [saved EXCEPT ![f] = Empty]
  /\ UNCHANGED <<routeFile, socks, pidFile, etc, network, processes, locals, result, history>>

BackupWrites(f) ==
  /\ AtFile("backupWrite", f)
  /\ saved' = [saved EXCEPT ![f] = etc[f]]
  /\ GotoFile("configure", f)
  /\ UNCHANGED <<routeFile, socks, pidFile, etc, network, processes, locals, result, history>>

\* The new content is moved into place, for /etc/wsl.conf and then for
\* /etc/resolv.conf.
ConfigureFile(f) ==
  /\ AtFile("configure", f)
  /\ etc' = [etc EXCEPT ![f] = "bridge"]
  /\ IF IsLast(f) THEN Goto("saveRoute") ELSE GotoFile("backup", FileAfter(f))
  /\ UNCHANGED <<routeFile, socks, pidFile, saved, network, processes, locals, result, history>>

\* Whatever default route was read is saved, the tun device's too.
SaveDefaultRoute ==
  /\ At("saveRoute")
  /\ IF line # None
     THEN routeFile' = None /\ Goto("saveRouteWrite")
     ELSE UNCHANGED routeFile /\ Goto("gateway")
  /\ UNCHANGED <<socks, pidFile, etc, saved, network, processes, locals, result, history>>

\* Mutant of SaveRouteWrites: the file keeps what os.Create left in it.
SaveRouteWritesNothing ==
  /\ At("saveRouteWrite")
  /\ routeFile' = Empty
  /\ Goto("gateway")
  /\ UNCHANGED <<socks, pidFile, etc, saved, network, processes, locals, result, history>>

SaveRouteWrites ==
  /\ At("saveRouteWrite")
  /\ routeFile' = line
  /\ Goto("gateway")
  /\ UNCHANGED <<socks, pidFile, etc, saved, network, processes, locals, result, history>>

\* Mutant of DetectGateway: the host of config.yaml comes first.
DetectGatewayConfigured ==
  /\ At("gateway")
  /\ host' = IF socks # None THEN socks ELSE IF line \in Uplinks THEN line ELSE uplink
  /\ Goto("save")
  /\ UNCHANGED <<disk, network, processes, op, force, line, found, result, history>>

\* The gateway of the route that was read, of the saved one, the host of
\* config.yaml, or what eth0 suggests (module Gateway).
DetectGateway ==
  /\ At("gateway")
  /\ host' = CASE line \in Uplinks -> line
               [] line \notin Uplinks /\ routeFile \in Uplinks -> routeFile
               [] line \notin Uplinks /\ routeFile \notin Uplinks ->
                    IF socks # None THEN socks ELSE uplink
  /\ Goto("save")
  /\ UNCHANGED <<disk, network, processes, op, force, line, found, result, history>>

\* The SOCKS port, and config.yaml.
SaveConfig ==
  /\ At("save")
  /\ socks' = None
  /\ Goto("saveWrite")
  /\ UNCHANGED <<routeFile, pidFile, etc, saved, network, processes, locals, result, history>>

SaveConfigWrites ==
  /\ At("saveWrite")
  /\ socks' = host
  /\ Goto("bin")
  /\ UNCHANGED <<routeFile, pidFile, etc, saved, network, processes, locals, result, history>>

-----------------------------------------------------------------------------
(* init: enableTrafficBridge                                                *)

EnsureBin ==
  /\ At("bin")
  /\ Goto("tunAdd")
  /\ UNCHANGED <<disk, network, processes, locals, result, history>>

TunAdd ==
  /\ At("tunAdd")
  /\ link' = IF link = "absent" THEN "down" ELSE link
  /\ Goto("tunUp")
  /\ UNCHANGED <<disk, uplink, route, processes, locals, result, history>>

TunUp ==
  /\ At("tunUp")
  /\ link' = "up"
  /\ Goto("tunRoute")
  /\ UNCHANGED <<disk, uplink, route, processes, locals, result, history>>

TunRoute ==
  /\ At("tunRoute")
  /\ route' = "tun"
  /\ Goto("running")
  /\ UNCHANGED <<disk, uplink, link, processes, locals, result, history>>

\* Without --force a running tun2socks is kept and init is done.
KeepRunning ==
  /\ At("running")
  /\ IsRunning /\ ~force
  /\ Exit("ok")
  /\ UNCHANGED <<disk, network, processes, history>>

\* Mutant of Replace: the old process is not stopped.
ReplaceWithoutStop ==
  /\ At("running")
  /\ IsRunning /\ force
  /\ Goto("launch")
  /\ UNCHANGED <<disk, network, processes, locals, result, history>>

\* With it the process is told to stop, and init goes on at once.
Replace ==
  /\ At("running")
  /\ IsRunning /\ force
  /\ StopIfRunning
  /\ Goto("launch")
  /\ UNCHANGED <<routeFile, socks, etc, saved, network, locals, result, history>>

NotRunning ==
  /\ At("running")
  /\ ~IsRunning
  /\ Goto("launch")
  /\ UNCHANGED <<disk, network, processes, locals, result, history>>

Launch(p) ==
  /\ At("launch")
  /\ proc[p] = "free"
  /\ proc' = [proc EXCEPT ![p] = "launching"]
  /\ via' = [via EXCEPT ![p] = host]
  /\ restarted' = TRUE
  /\ Goto("wait")
  /\ UNCHANGED <<disk, network, locals, result, calm, own, edited, faults>>

\* waitForPID takes the first tun2socks that pgrep lists, whoever started it.
WaitForPid(p) ==
  /\ At("wait")
  /\ p \in Listed
  /\ found' = p
  /\ Goto("record")
  /\ UNCHANGED <<disk, network, processes, op, force, line, host, result, history>>

\* Ten seconds without one: the process launched is gone, or is slow.
WaitTimesOut ==
  /\ At("wait")
  /\ Listed = {}
  /\ "fails" \in faults \/ \A p \in Pids : proc[p] # "launching"
  /\ Exit("failed")
  /\ UNCHANGED <<disk, network, processes, history>>

RecordTruncates ==
  /\ At("record")
  /\ pidFile' = Empty
  /\ Goto("recordWrite")
  /\ UNCHANGED <<routeFile, socks, etc, saved, network, processes, locals, result, history>>

RecordWrites ==
  /\ At("recordWrite")
  /\ pidFile' = found
  /\ Exit("ok")
  /\ UNCHANGED <<routeFile, socks, etc, saved, network, processes, history>>

-----------------------------------------------------------------------------
(* stop                                                                     *)

\* Mutant of RestoreRoute: the backup is not replayed.
RestoreRouteSkipped ==
  /\ At("restoreRoute")
  /\ Goto("stopTun")
  /\ UNCHANGED <<disk, network, processes, locals, result, history>>

\* A route can be set while its device is up and its gateway on the subnet.
CanSet(r) == IF r = "tun" THEN link = "up" ELSE r = uplink

\* Without a backup the route is left alone.
RestoreRoute ==
  /\ At("restoreRoute")
  /\ routeFile # None => CanSet(routeFile)
  /\ route' = IF routeFile # None THEN routeFile ELSE route
  /\ Goto("stopTun")
  /\ UNCHANGED <<disk, uplink, link, processes, locals, result, history>>

\* `ip route replace` fails, and stop returns before it has stopped anything.
RestoreRouteFails ==
  /\ At("restoreRoute")
  /\ routeFile # None /\ ~CanSet(routeFile)
  /\ Exit("failed")
  /\ UNCHANGED <<disk, network, processes, history>>

StopTun2Socks ==
  /\ At("stopTun")
  /\ StopIfRunning
  /\ Goto("linkDown")
  /\ UNCHANGED <<routeFile, socks, etc, saved, network, locals, result, history>>

\* The kernel drops the routes of a device that goes down.
LinkDown ==
  /\ At("linkDown")
  /\ link' = IF link = "up" THEN "down" ELSE link
  /\ route' = IF route = "tun" THEN None ELSE route
  /\ Goto("tunDel")
  /\ UNCHANGED <<disk, uplink, processes, locals, result, history>>

\* The device cannot be removed while a process holds it; the error is ignored.  A
\* route through it goes with it.
TunDel ==
  /\ At("tunDel")
  /\ link' = IF Attached = {} THEN "absent" ELSE link
  /\ route' = IF Attached = {} /\ route = "tun" THEN None ELSE route
  /\ GotoFile("restore", First)
  /\ UNCHANGED <<disk, uplink, processes, locals, result, history>>

\* A file without a backup is left alone; the backups stay.
RestoreFile(f) ==
  /\ AtFile("restore", f)
  /\ etc' = [etc EXCEPT ![f] = IF saved[f] # None THEN saved[f] ELSE etc[f]]
  /\ IF IsLast(f)
     THEN Exit("ok")
     ELSE GotoFile("restore", FileAfter(f)) /\ UNCHANGED <<locals, result>>
  /\ UNCHANGED <<routeFile, socks, pidFile, saved, network, processes, history>>

-----------------------------------------------------------------------------
(* tun2socks and the environment                                            *)

\* sudo has asked nothing and executes tun2socks.
Executes(p) ==
  /\ proc[p] = "launching"
  /\ Become([proc EXCEPT ![p] = "starting"])
  /\ UNCHANGED <<disk, network, control, locals, result, history>>

\* It opens the device, or exits because another process holds it.
Attach(p) ==
  /\ proc[p] = "starting"
  /\ Become([proc EXCEPT ![p] = IF Attached = {} THEN "running" ELSE "free"])
  /\ UNCHANGED <<disk, network, control, locals, result, history>>

\* A killed process has exited.
Exits(p) ==
  /\ proc[p] = "dying"
  /\ Become([proc EXCEPT ![p] = "free"])
  /\ UNCHANGED <<disk, network, control, locals, result, history>>

Disturb == calm' = FALSE /\ UNCHANGED <<restarted, own, edited, faults>>

Dies(p) ==
  /\ "dies" \in faults
  /\ proc[p] \in {"launching", "starting", "running"}
  /\ Become([proc EXCEPT ![p] = "free"])
  /\ Disturb
  /\ UNCHANGED <<disk, network, control, locals, result>>

\* An external command or a file operation fails and the command returns its
\* error, with what it has done so far left as it is.
StepFails ==
  /\ "fails" \in faults
  /\ \/ \E step \in {"prepare", "sudo", "gateway", "save", "saveWrite", "bin", "tunAdd",
                     "tunUp", "tunRoute", "launch", "record", "recordWrite",
                     "restoreRoute"} : At(step)
     \/ \E f \in Files, step \in {"backup", "backupWrite", "configure", "restore"} :
          AtFile(step, f)
  /\ Exit("failed")
  /\ UNCHANGED <<disk, network, processes, history>>

\* A file has been moved into place, and setting its mode fails.
ChmodFails(f) ==
  /\ "fails" \in faults
  /\ \/ AtFile("configure", f) /\ etc' = [etc EXCEPT ![f] = "bridge"]
     \/ AtFile("restore", f) /\ saved[f] # None /\ etc' = [etc EXCEPT ![f] = saved[f]]
  /\ Exit("failed")
  /\ UNCHANGED <<routeFile, socks, pidFile, saved, network, processes, history>>

\* A step fails and the command goes on as if it had not: saving the route, which
\* may leave its file empty, and taking down and removing the device.
FailureIgnored ==
  /\ "fails" \in faults
  /\ \/ At("saveRoute") /\ line # None /\ Goto("gateway")
     \/ At("saveRouteWrite") /\ Goto("gateway")
     \/ At("linkDown") /\ Goto("tunDel")
     \/ At("tunDel") /\ GotoFile("restore", First)
  /\ UNCHANGED <<disk, network, processes, locals, result, history>>

CommandCrashes ==
  /\ "crash" \in faults
  /\ ~At("idle")
  /\ Exit("failed")
  /\ UNCHANGED <<disk, network, processes, history>>

Reboot ==
  /\ "reboot" \in faults
  /\ route' = uplink
  /\ link' = "absent"
  /\ Become([p \in Pids |-> "free"])
  /\ Exit("none")
  /\ Disturb
  /\ UNCHANGED <<disk, uplink>>

NetworkResets ==
  /\ "reset" \in faults
  /\ route' = uplink
  /\ Disturb
  /\ UNCHANGED <<disk, uplink, link, processes, control, locals, result>>

\* The machine is on another network; a default route through the old one gives
\* way to the new one's, the tun device's may stay.
Roams(u) ==
  /\ "roam" \in faults
  /\ u # uplink
  /\ uplink' = u
  /\ \/ route' = u
     \/ route = "tun" /\ UNCHANGED route
  /\ Disturb
  /\ UNCHANGED <<disk, link, processes, control, locals, result>>

ForeignStarts(p) ==
  /\ "foreign" \in faults
  /\ proc[p] = "free"
  /\ Become([proc EXCEPT ![p] = "foreign"])
  /\ Disturb
  /\ UNCHANGED <<disk, network, control, locals, result>>

ForeignExits(p) ==
  /\ proc[p] = "foreign"
  /\ Become([proc EXCEPT ![p] = "free"])
  /\ Disturb
  /\ UNCHANGED <<disk, network, control, locals, result>>

\* The user changes a file, whatever it holds.
UserEdits(f, v) ==
  /\ "edits" \in faults
  /\ At("idle")
  /\ v # etc[f]
  /\ etc' = [etc EXCEPT ![f] = v]
  /\ own' = [own EXCEPT ![f] = v]
  /\ edited' = IF saved[f] = None THEN edited ELSE edited \cup {f}
  /\ UNCHANGED <<routeFile, socks, pidFile, saved, network, processes, control, locals,
                 result, calm, restarted, faults>>

-----------------------------------------------------------------------------

InitCommand ==
  \/ Prepare \/ AlreadyEnabled \/ NotYetEnabled \/ EnsureSudo
  \/ \E f \in Files : BackupFile(f) \/ BackupWrites(f) \/ ConfigureFile(f)
  \/ SaveDefaultRoute \/ SaveRouteWrites \/ DetectGateway \/ SaveConfig \/ SaveConfigWrites
  \/ EnsureBin \/ TunAdd \/ TunUp \/ TunRoute
  \/ KeepRunning \/ Replace \/ NotRunning
  \/ \E p \in Pids : Launch(p) \/ WaitForPid(p)
  \/ WaitTimesOut \/ RecordTruncates \/ RecordWrites

StopCommand ==
  \/ RestoreRoute \/ RestoreRouteFails \/ StopTun2Socks \/ LinkDown \/ TunDel
  \/ \E f \in Files : RestoreFile(f)

Tun2Socks == \E p \in Pids : Executes(p) \/ Attach(p) \/ Exits(p)

Environment ==
  \/ StepFails \/ FailureIgnored \/ CommandCrashes \/ Reboot \/ NetworkResets
  \/ \E f \in Files : ChmodFails(f) \/ \E v \in Versions : UserEdits(f, v)
  \/ \E u \in Uplinks : Roams(u)
  \/ \E p \in Pids : Dies(p) \/ ForeignStarts(p) \/ ForeignExits(p)

Next ==
  \/ \E o \in {"init", "stop"}, f \in BOOLEAN : Invoke(o, f)
  \/ InitCommand
  \/ StopCommand
  \/ Tun2Socks
  \/ Environment

Spec == Init /\ [][Next]_vars

-----------------------------------------------------------------------------
(* Properties.  One that some faults defeat says which.                      *)

\* The world has none of these faults.
Without(bad) == faults \cap bad = {}

Returns(o) == op = o /\ pc # "idle" /\ pc' = "idle"
Succeeds(o) == Returns(o) /\ result' = "ok"

\* After a successful init that no fault disturbed, the default route goes
\* through the tun device, the device is up and a tun2socks serves it.  (Not so
\* when a program that is not tun2socks has the recorded pid, or a tun2socks that
\* is on its way out passes for its successor.)
InitMeansBridged ==
  [][Succeeds("init") /\ calm /\ Without({"lingers", "foreign"}) =>
       /\ route' = "tun" /\ link' = "up"
       /\ \E p \in Pids : proc'[p] \in {"starting", "running"}]_vars

\* After a successful init that found a network's default route and launched
\* tun2socks, there is no other tun2socks than one that proxies to the gateway of
\* that network, and config.yaml names the same: whatever network the machine was
\* on before, and whatever the saved route and the configuration said.
GatewayFollowsNetwork ==
  [][Succeeds("init") /\ calm /\ restarted /\ line \in Uplinks
     /\ Without({"lingers", "foreign", "fails", "crash"}) =>
       /\ socks' = uplink
       /\ \A p \in Pids : proc'[p] \in {"launching", "starting", "running"} =>
            via'[p] = uplink]_vars

\* After a successful stop the default route is that of the machine's network
\* ("Stop tun2socks and restore routes"), wherever the machine has been since init
\* saved its route, if tun2socks does not die by itself and no command fails
\* half-way.
StopRestoresRoute ==
  [][Succeeds("stop")
     /\ Without({"dies", "fails", "crash", "lingers", "foreign"}) => route' = uplink]_vars

\* After a successful stop no tun2socks runs or will run, but for one that is
\* exiting ("StopIfRunning stops tun2socks if it is running").
StopLeavesNoTun2Socks ==
  [][Succeeds("stop") /\ Without({"fails", "crash", "lingers", "foreign"}) =>
       \A p \in Pids : proc'[p] \notin {"launching", "starting", "running"}]_vars

\* However often init and stop were run, failed half-way or were interrupted, a
\* successful stop leaves each file under /etc as the user last had it, if the user
\* had one.  There are two exceptions, and in both stop puts the backup in the place
\* of the user's file: a backup that was cut short when it was written, and one that
\* was taken before the user edited the file (the first backup is kept for ever).
StopRestoresFiles ==
  [][Succeeds("stop") =>
       \A f \in Files : own[f] # "absent" =>
         etc'[f] = own[f] \/ saved[f] = Empty \/ f \in edited]_vars

\* A successful init --force has launched a tun2socks ("--force" restarts).
ForceRestarts == [][Succeeds("init") /\ force => restarted]_vars

\* A successful stop always gives the network's default route back ("Stop
\* tun2socks and restore routes").
StopAlwaysRestoresRoute == [][Succeeds("stop") => route' = uplink]_vars

\* A stop that nothing disturbs ends with tun2socks stopped ("Stop tun2socks and
\* restore routes").
StopStopsTun2Socks ==
  [][Returns("stop") /\ calm =>
       \A p \in Pids : proc'[p] \notin {"starting", "running"}]_vars
=============================================================================
