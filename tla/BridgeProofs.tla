----------------------------- MODULE BridgeProofs -----------------------------
(***************************************************************************)
(* Proofs about Bridge: every property its passing runs check, for any     *)
(* processes, networks, files, versions and worlds.                        *)
(*                                                                         *)
(* The inductive invariant is IInv, at the end.  Its parts are about the   *)
(* commands (Operation), the files under /etc (FilesKept), the route       *)
(* (RouteValid, Undisturbed), the tun2socks processes (NoOthers, OneTun,   *)
(* Found, ProxiedLive) and the way back (Reversible); those that some      *)
(* faults defeat are claimed for the worlds without them.                  *)
(***************************************************************************)
EXTENDS Bridge, TLAPS

\* There is a file to go on to.
LEMMA OtherFile ==
  ASSUME NEW f \in Files, ~IsLast(f)
  PROVE  FileAfter(f) \in Files \ {f}
<1>1. f = First /\ Files # {First}
  BY DEF IsLast
<1>2. \E g \in Files : g # f
  BY <1>1, FilesAssumption
<1>3. QED BY <1>2 DEF FileAfter

\* Whatever becomes of the processes.
LEMMA BecomeType ==
  ASSUME TypeOK, NEW ps,
         ps \in [Pids -> {"free", "launching", "starting", "running", "dying", "foreign"}],
         Become(ps)
  PROVE  /\ proc' \in [Pids -> {"free", "launching", "starting", "running", "dying", "foreign"}]
         /\ via' \in [Pids -> Uplinks \cup {None}]
BY DEF TypeOK, Become

\* Stopping a recorded tun2socks leaves processes and pid file what they are.
LEMMA StopIfRunningType ==
  ASSUME TypeOK, StopIfRunning
  PROVE  /\ proc' \in [Pids -> {"free", "launching", "starting", "running", "dying", "foreign"}]
         /\ via' \in [Pids -> Uplinks \cup {None}]
         /\ pidFile' \in Pids \cup {None, Empty}
<1>1. \A ps : Killed(ps) \in [Pids -> {"free", "launching", "starting", "running", "dying", "foreign"}]
  BY DEF TypeOK, Killed
<1>2. PICK ps : Become(Killed(ps))
  BY DEF StopIfRunning
<1>3. QED BY <1>1, <1>2, BecomeType DEF TypeOK, StopIfRunning

\* Every variable begins with a value of its type.
LEMMA InitTypeOK == Init => TypeOK
<1>1. ASSUME Init PROVE etc \in [Files -> Contents]
  BY <1>1 DEF Init, Contents
<1>2. QED BY <1>1 DEF Init, TypeOK, Routes, Contents, InitSteps, StopSteps

\* What disturbs a command leaves its variables and the files alone.
LEMMA DisturbedType ==
  ASSUME TypeOK, calm' \in BOOLEAN, uplink' \in Uplinks, route' \in Routes,
         proc' \in [Pids -> {"free", "launching", "starting", "running", "dying", "foreign"}],
         via' \in [Pids -> Uplinks \cup {None}],
         UNCHANGED <<disk, link, control, locals, result, restarted, own, edited, faults>>
  PROVE  TypeOK'
BY DEF TypeOK, disk, control, locals

\* No step leaves the types.
LEMMA NextTypeOK ==
  ASSUME TypeOK, [Next]_vars
  PROVE  TypeOK'
<1> USE NoneAssumption DEF TypeOK, disk, network, processes, control, locals, history,
        InitSteps, StopSteps, At, AtFile, Goto, GotoFile, Routes, Contents
<1>1. ASSUME NEW o \in {"init", "stop"}, NEW b \in BOOLEAN, Invoke(o, b) PROVE TypeOK'
  <2>1. /\ pc' \in {"prepare", "restoreRoute"} /\ about' = None /\ op' \in {"init", "stop"}
        /\ force' \in BOOLEAN /\ calm' \in BOOLEAN /\ restarted' \in BOOLEAN /\ result' = "none"
        /\ UNCHANGED <<disk, network, processes, line, host, found, own, edited, faults>>
    BY <1>1 DEF Invoke
  <2>2. QED BY <2>1
<1>2. CASE Prepare
  BY <1>2 DEF Prepare
<1>3. CASE AlreadyEnabled
  BY <1>3 DEF AlreadyEnabled, Exit
<1>4. CASE NotYetEnabled
  BY <1>4 DEF NotYetEnabled
<1>5. CASE EnsureSudo
  BY <1>5, FilesAssumption DEF EnsureSudo
<1>6. ASSUME NEW f \in Files, BackupFile(f) PROVE TypeOK'
  BY <1>6 DEF BackupFile
<1>7. ASSUME NEW f \in Files, BackupWrites(f) PROVE TypeOK'
  BY <1>7 DEF BackupWrites
<1>8. ASSUME NEW f \in Files, ConfigureFile(f) PROVE TypeOK'
  BY <1>8, OtherFile DEF ConfigureFile
<1>9. CASE SaveDefaultRoute
  BY <1>9 DEF SaveDefaultRoute
<1>10. CASE SaveRouteWrites
  BY <1>10 DEF SaveRouteWrites
<1>11. CASE DetectGateway
  BY <1>11 DEF DetectGateway
<1>12. CASE SaveConfig
  BY <1>12 DEF SaveConfig
<1>13. CASE SaveConfigWrites
  BY <1>13 DEF SaveConfigWrites
<1>14. CASE EnsureBin
  BY <1>14 DEF EnsureBin
<1>15. CASE TunAdd
  BY <1>15 DEF TunAdd
<1>16. CASE TunUp
  BY <1>16 DEF TunUp
<1>17. CASE TunRoute
  BY <1>17 DEF TunRoute
<1>18. CASE KeepRunning
  BY <1>18 DEF KeepRunning, Exit
<1>19. CASE Replace
  BY <1>19, StopIfRunningType DEF Replace
<1>20. CASE NotRunning
  BY <1>20 DEF NotRunning
<1>21. ASSUME NEW p \in Pids, Launch(p) PROVE TypeOK'
  BY <1>21 DEF Launch
<1>22. ASSUME NEW p \in Pids, WaitForPid(p) PROVE TypeOK'
  BY <1>22 DEF WaitForPid
<1>23. CASE WaitTimesOut
  BY <1>23 DEF WaitTimesOut, Exit
<1>24. CASE RecordTruncates
  BY <1>24 DEF RecordTruncates
<1>25. CASE RecordWrites
  BY <1>25 DEF RecordWrites, Exit
<1>26. CASE RestoreRoute
  BY <1>26 DEF RestoreRoute
<1>27. CASE RestoreRouteFails
  BY <1>27 DEF RestoreRouteFails, Exit
<1>28. CASE StopTun2Socks
  BY <1>28, StopIfRunningType DEF StopTun2Socks
<1>29. CASE LinkDown
  BY <1>29 DEF LinkDown
<1>30. CASE TunDel
  BY <1>30, FilesAssumption DEF TunDel
<1>31. ASSUME NEW f \in Files, RestoreFile(f) PROVE TypeOK'
  <2>1. etc' \in [Files -> Contents]
    BY <1>31 DEF RestoreFile
  <2>2. CASE IsLast(f)
    BY <1>31, <2>1, <2>2 DEF RestoreFile, Exit
  <2>3. CASE ~IsLast(f)
    BY <1>31, <2>1, <2>3, OtherFile DEF RestoreFile
  <2>4. QED BY <2>2, <2>3
<1>32. ASSUME NEW p \in Pids, Executes(p) PROVE TypeOK'
  BY <1>32 DEF Executes, Become
<1>33. ASSUME NEW p \in Pids, Attach(p) PROVE TypeOK'
  BY <1>33 DEF Attach, Become
<1>34. ASSUME NEW p \in Pids, Exits(p) PROVE TypeOK'
  BY <1>34 DEF Exits, Become
<1>35. CASE StepFails
  BY <1>35 DEF StepFails, Exit
<1>36. CASE CommandCrashes
  BY <1>36 DEF CommandCrashes, Exit
<1>37. CASE Reboot
  BY <1>37 DEF Reboot, Exit, Become, Disturb
<1>38. CASE NetworkResets
  <2>1. /\ calm' \in BOOLEAN /\ uplink' \in Uplinks /\ route' \in Routes
        /\ UNCHANGED <<disk, link, processes, control, locals, result, restarted, own, edited, faults>>
    BY <1>38 DEF NetworkResets, Disturb
  <2>2. QED BY <2>1, DisturbedType
<1>39. ASSUME NEW u \in Uplinks, Roams(u) PROVE TypeOK'
  <2>1. /\ calm' \in BOOLEAN /\ uplink' \in Uplinks /\ route' \in Routes
        /\ UNCHANGED <<disk, link, processes, control, locals, result, restarted, own, edited, faults>>
    BY <1>39 DEF Roams, Disturb
  <2>2. QED BY <2>1, DisturbedType
<1>40. ASSUME NEW p \in Pids, Dies(p) PROVE TypeOK'
  <2>1. Disturb /\ UNCHANGED <<disk, network, control, locals, result>>
    BY <1>40 DEF Dies
  <2>2. /\ proc' \in [Pids -> {"free", "launching", "starting", "running", "dying", "foreign"}]
        /\ via' \in [Pids -> Uplinks \cup {None}]
    BY <1>40, BecomeType DEF Dies
  <2>3. calm' \in BOOLEAN /\ uplink' \in Uplinks /\ route' \in Routes
    BY <2>1 DEF Disturb
  <2>4. UNCHANGED <<restarted, own, edited, faults>>
    BY <2>1 DEF Disturb
  <2>5. QED BY <2>1, <2>2, <2>3, <2>4, DisturbedType
<1>41. ASSUME NEW p \in Pids, ForeignStarts(p) PROVE TypeOK'
  <2>1. Disturb /\ UNCHANGED <<disk, network, control, locals, result>>
    BY <1>41 DEF ForeignStarts
  <2>2. /\ proc' \in [Pids -> {"free", "launching", "starting", "running", "dying", "foreign"}]
        /\ via' \in [Pids -> Uplinks \cup {None}]
    BY <1>41, BecomeType DEF ForeignStarts
  <2>3. calm' \in BOOLEAN /\ uplink' \in Uplinks /\ route' \in Routes
    BY <2>1 DEF Disturb
  <2>4. UNCHANGED <<restarted, own, edited, faults>>
    BY <2>1 DEF Disturb
  <2>5. QED BY <2>1, <2>2, <2>3, <2>4, DisturbedType
<1>42. ASSUME NEW p \in Pids, ForeignExits(p) PROVE TypeOK'
  <2>1. Disturb /\ UNCHANGED <<disk, network, control, locals, result>>
    BY <1>42 DEF ForeignExits
  <2>2. /\ proc' \in [Pids -> {"free", "launching", "starting", "running", "dying", "foreign"}]
        /\ via' \in [Pids -> Uplinks \cup {None}]
    BY <1>42, BecomeType DEF ForeignExits
  <2>3. calm' \in BOOLEAN /\ uplink' \in Uplinks /\ route' \in Routes
    BY <2>1 DEF Disturb
  <2>4. UNCHANGED <<restarted, own, edited, faults>>
    BY <2>1 DEF Disturb
  <2>5. QED BY <2>1, <2>2, <2>3, <2>4, DisturbedType
<1>43. ASSUME NEW f \in Files, ChmodFails(f) PROVE TypeOK'
  <2>1. etc' \in [Files -> Contents]
    BY <1>43 DEF ChmodFails
  <2>2. QED BY <1>43, <2>1 DEF ChmodFails, Exit
<1>44. CASE FailureIgnored
  BY <1>44, FilesAssumption DEF FailureIgnored
<1>45. ASSUME NEW f \in Files, NEW v \in Versions, UserEdits(f, v) PROVE TypeOK'
  BY <1>45 DEF UserEdits
<1>46. CASE UNCHANGED vars
  BY <1>46 DEF vars
<1>47. QED
  BY <1>1, <1>2, <1>3, <1>4, <1>5, <1>6, <1>7, <1>8, <1>9, <1>10, <1>11, <1>12, <1>13, <1>14,
    <1>15, <1>16, <1>17, <1>18, <1>19, <1>20, <1>21, <1>22, <1>23, <1>24, <1>25, <1>26, <1>27,
    <1>28, <1>29, <1>30, <1>31, <1>32, <1>33, <1>34, <1>35, <1>36, <1>37, <1>38, <1>39, <1>40,
    <1>41, <1>42, <1>43, <1>44, <1>45, <1>46 DEF Next, InitCommand, StopCommand, Tun2Socks,
    Environment

\* Every variable keeps the type the code gives it, for any processes, networks,
\* files and worlds.
THEOREM TypeCorrect == Spec => []TypeOK
BY InitTypeOK, NextTypeOK, PTL DEF Spec

-----------------------------------------------------------------------------
(* Commands                                                                 *)

\* A command is at a step of its own, and the steps about a file name one.
Operation ==
  /\ pc \in InitSteps => op = "init"
  /\ pc \in StopSteps => op = "stop"
  /\ pc \in {"backup", "backupWrite", "configure", "restore"} <=> about # None

\* Between commands no step of init or stop is under way.
LEMMA InitOperation == Init => Operation
BY DEF Init, Operation, InitSteps, StopSteps

\* Commands go from one of their own steps to another.
LEMMA NextOperation ==
  ASSUME Operation, [Next]_vars
  PROVE  Operation'
<1> USE NoneAssumption, FilesAssumption
    DEF Operation, control, locals, InitSteps, StopSteps, At, AtFile, Goto, GotoFile
<1>1. ASSUME NEW o \in {"init", "stop"}, NEW b \in BOOLEAN, Invoke(o, b) PROVE Operation'
  BY <1>1 DEF Invoke
<1>2. CASE Prepare \/ AlreadyEnabled \/ NotYetEnabled \/ EnsureSudo
  BY <1>2 DEF Prepare, AlreadyEnabled, Exit, NotYetEnabled, EnsureSudo
<1>3. ASSUME NEW f \in Files, BackupFile(f) \/ BackupWrites(f) PROVE Operation'
  BY <1>3 DEF BackupFile, BackupWrites
<1>4. ASSUME NEW f \in Files, ConfigureFile(f) PROVE Operation'
  BY <1>4, OtherFile DEF ConfigureFile
<1>5. CASE SaveDefaultRoute \/ SaveRouteWrites \/ DetectGateway \/ SaveConfig
      \/ SaveConfigWrites \/ EnsureBin
  BY <1>5 DEF SaveDefaultRoute, SaveRouteWrites, DetectGateway, SaveConfig, SaveConfigWrites,
    EnsureBin
<1>6. CASE TunAdd \/ TunUp \/ TunRoute \/ KeepRunning \/ Replace \/ NotRunning
  BY <1>6 DEF TunAdd, TunUp, TunRoute, KeepRunning, Exit, Replace, NotRunning
<1>7. ASSUME NEW p \in Pids, Launch(p) \/ WaitForPid(p) PROVE Operation'
  BY <1>7 DEF Launch, WaitForPid
<1>8. CASE WaitTimesOut \/ RecordTruncates \/ RecordWrites \/ RestoreRoute
      \/ RestoreRouteFails \/ StopTun2Socks
  BY <1>8 DEF WaitTimesOut, Exit, RecordTruncates, RecordWrites, RestoreRoute, RestoreRouteFails,
    StopTun2Socks
<1>9. CASE LinkDown \/ TunDel
  BY <1>9 DEF LinkDown, TunDel
<1>10. ASSUME NEW f \in Files, RestoreFile(f) PROVE Operation'
  BY <1>10, OtherFile DEF RestoreFile, Exit
<1>11. ASSUME NEW p \in Pids, Executes(p) \/ Attach(p) \/ Exits(p) PROVE Operation'
  BY <1>11 DEF Executes, Become, Attach, Exits
<1>12. CASE StepFails \/ CommandCrashes \/ Reboot \/ NetworkResets
  BY <1>12 DEF StepFails, Exit, CommandCrashes, Reboot, Become, Disturb, NetworkResets
<1>13. ASSUME NEW u \in Uplinks, Roams(u) PROVE Operation'
  BY <1>13 DEF Roams, Disturb
<1>14. ASSUME NEW p \in Pids, Dies(p) \/ ForeignStarts(p) \/ ForeignExits(p) PROVE Operation'
  BY <1>14 DEF Dies, Become, Disturb, ForeignStarts, ForeignExits
<1>15. ASSUME NEW f \in Files, ChmodFails(f) PROVE Operation'
  BY <1>15 DEF ChmodFails, Exit
<1>16. CASE FailureIgnored
  BY <1>16 DEF FailureIgnored
<1>17. ASSUME NEW f \in Files, NEW v \in Versions, UserEdits(f, v) PROVE Operation'
  BY <1>17 DEF UserEdits
<1>18. CASE UNCHANGED vars
  BY <1>18 DEF vars
<1>19. QED
  BY <1>1, <1>2, <1>3, <1>4, <1>5, <1>6, <1>7, <1>8, <1>9, <1>10, <1>11, <1>12, <1>13, <1>14,
    <1>15, <1>16, <1>17, <1>18 DEF Next, InitCommand, StopCommand, Tun2Socks, Environment

-----------------------------------------------------------------------------
(* The user's files                                                         *)

\* A file of the user's is untouched until it has a backup, the backup is the
\* user's once it has been written in full, and stop puts the first file back
\* before it turns to the other: as long as the user leaves a file that has a
\* backup alone.
FileKept(f) ==
  /\ saved[f] \in {None, Empty, own[f]}
  /\ saved[f] = None => etc[f] = own[f]
  /\ AtFile("backupWrite", f) => etc[f] = own[f]
  /\ AtFile("configure", f) => saved[f] # None
  /\ pc = "restore" /\ about # First /\ f = First => etc[f] = own[f] \/ saved[f] = Empty

FilesKept == \A f \in Files \ edited : own[f] # "absent" => FileKept(f)

\* The files are the user's to begin with.
LEMMA InitFilesKept == Init => FilesKept
BY NoneAssumption DEF Init, FilesKept, FileKept, AtFile

\* No step overwrites a file of the user that has no backup.
LEMMA NextFilesKept ==
  ASSUME TypeOK, Operation, FilesKept, [Next]_vars
  PROVE  FilesKept'
<1> USE NoneAssumption, FilesAssumption
    DEF FilesKept, FileKept, disk, control, history, At, AtFile, Goto, GotoFile
<1>1. ASSUME NEW o \in {"init", "stop"}, NEW b \in BOOLEAN, Invoke(o, b) PROVE FilesKept'
  BY <1>1 DEF Invoke
<1>2. CASE Prepare \/ AlreadyEnabled \/ NotYetEnabled \/ EnsureSudo
  BY <1>2 DEF Prepare, AlreadyEnabled, Exit, NotYetEnabled, EnsureSudo
<1>3. ASSUME NEW f \in Files, BackupFile(f) PROVE FilesKept'
  <2>1. etc' \in [Files -> Contents] /\ saved' \in [Files -> Contents \cup {None}]
    BY NextTypeOK DEF TypeOK
  <2>2. QED BY <1>3, <2>1, OtherFile DEF TypeOK, BackupFile
<1>4. ASSUME NEW f \in Files, BackupWrites(f) PROVE FilesKept'
  <2>1. etc' \in [Files -> Contents] /\ saved' \in [Files -> Contents \cup {None}]
    BY NextTypeOK DEF TypeOK
  <2>2. QED BY <1>4, <2>1, OtherFile DEF TypeOK, BackupWrites
<1>5. ASSUME NEW f \in Files, ConfigureFile(f) PROVE FilesKept'
  <2>1. etc' \in [Files -> Contents] /\ saved' \in [Files -> Contents \cup {None}]
    BY NextTypeOK DEF TypeOK
  <2>2. QED BY <1>5, <2>1, OtherFile DEF TypeOK, ConfigureFile
<1>6. CASE SaveDefaultRoute \/ SaveRouteWrites \/ DetectGateway \/ SaveConfig
      \/ SaveConfigWrites \/ EnsureBin
  BY <1>6 DEF SaveDefaultRoute, SaveRouteWrites, DetectGateway, SaveConfig, SaveConfigWrites,
    EnsureBin
<1>7. CASE TunAdd \/ TunUp \/ TunRoute \/ KeepRunning \/ Replace \/ NotRunning
  BY <1>7 DEF TunAdd, TunUp, TunRoute, KeepRunning, Exit, Replace, NotRunning
<1>8. ASSUME NEW p \in Pids, Launch(p) \/ WaitForPid(p) PROVE FilesKept'
  BY <1>8 DEF Launch, WaitForPid
<1>9. CASE WaitTimesOut \/ RecordTruncates \/ RecordWrites \/ RestoreRoute
      \/ RestoreRouteFails \/ StopTun2Socks
  BY <1>9 DEF WaitTimesOut, Exit, RecordTruncates, RecordWrites, RestoreRoute, RestoreRouteFails,
    StopTun2Socks
<1>10. CASE LinkDown \/ TunDel
  BY <1>10 DEF LinkDown, TunDel
<1>11. ASSUME NEW f \in Files, RestoreFile(f) PROVE FilesKept'
  <2>1. etc' \in [Files -> Contents] /\ saved' \in [Files -> Contents \cup {None}]
    BY NextTypeOK DEF TypeOK
  <2>2. QED BY <1>11, <2>1, OtherFile DEF TypeOK, RestoreFile, Exit
<1>12. ASSUME NEW p \in Pids, Executes(p) \/ Attach(p) \/ Exits(p) PROVE FilesKept'
  BY <1>12 DEF Executes, Become, Attach, Exits
<1>13. CASE StepFails \/ CommandCrashes \/ Reboot \/ NetworkResets
  BY <1>13 DEF StepFails, Exit, CommandCrashes, Reboot, Become, Disturb, NetworkResets
<1>14. ASSUME NEW u \in Uplinks, Roams(u) PROVE FilesKept'
  BY <1>14 DEF Roams, Disturb
<1>15. ASSUME NEW p \in Pids, Dies(p) \/ ForeignStarts(p) \/ ForeignExits(p) PROVE FilesKept'
  BY <1>15 DEF Dies, Become, Disturb, ForeignStarts, ForeignExits
<1>16. ASSUME NEW f \in Files, ChmodFails(f) PROVE FilesKept'
  BY <1>16 DEF TypeOK, ChmodFails, Exit
<1>17. CASE FailureIgnored
  BY <1>17 DEF FailureIgnored
<1>18. ASSUME NEW f \in Files, NEW v \in Versions, UserEdits(f, v) PROVE FilesKept'
  BY <1>18 DEF TypeOK, UserEdits
<1>19. CASE UNCHANGED vars
  BY <1>19 DEF vars
<1>20. QED
  BY <1>1, <1>2, <1>3, <1>4, <1>5, <1>6, <1>7, <1>8, <1>9, <1>10, <1>11, <1>12, <1>13, <1>14,
    <1>15, <1>16, <1>17, <1>18, <1>19 DEF Next, InitCommand, StopCommand, Tun2Socks,
    Environment

-----------------------------------------------------------------------------
(* The tun2socks processes                                                  *)

\* The processes that proxy or are about to.
Live == {p \in Pids : proc[p] \in {"launching", "starting", "running"}}
Recording == {"record", "recordWrite"}

\* In some worlds nothing but tun2socks is in the way, and it exits at once; in
\* some of those every command comes to its end.
Prompt == Without({"lingers", "foreign"})
Sole == Without({"lingers", "foreign", "fails", "crash"})

NoOthers == \A p \in Pids : proc[p] \notin {"dying", "foreign"}

\* There is one tun2socks at most, and the pid file or the command knows it.
OneTun ==
  /\ pc \in {"launch", "linkDown", "tunDel", "restore"} => Live = {}
  /\ pc \notin Recording \cup {"wait"} => \A p \in Live : p = pidFile /\ proc[p] # "launching"
  /\ pc = "wait" => \A p, q \in Live : p = q
  /\ pc \in Recording => found \in Pids /\ \A p \in Live : p = found /\ proc[p] # "launching"

\* The set of faults is the same for a whole behaviour.
LEMMA SameFaults == [Next]_vars => faults' = faults
BY DEF Next, InitCommand, StopCommand, Tun2Socks, Environment, Invoke, history, vars, Disturb,
  Prepare, AlreadyEnabled, NotYetEnabled, EnsureSudo, BackupFile, BackupWrites, ConfigureFile,
  SaveDefaultRoute, SaveRouteWrites, DetectGateway, SaveConfig, SaveConfigWrites, EnsureBin, TunAdd,
  TunUp, TunRoute, KeepRunning, Replace, NotRunning, Launch, WaitForPid,
  WaitTimesOut, RecordTruncates, RecordWrites, RestoreRoute, RestoreRouteFails, StopTun2Socks, LinkDown,
  TunDel, RestoreFile, Executes, Attach, Exits, StepFails, CommandCrashes,
  Reboot, NetworkResets, Roams, Dies, ForeignStarts, ForeignExits, ChmodFails, FailureIgnored,
  UserEdits

\* No tun2socks runs before the first init.
LEMMA InitProcesses == Init => NoOthers /\ OneTun
BY DEF Init, NoOthers, OneTun, Live, Recording

\* What a step leaves alone.
LEMMA ProcessesUntouched ==
  ASSUME UNCHANGED processes
  PROVE  (NoOthers => NoOthers') /\ Live' = Live /\ Listed' = Listed
BY DEF processes, NoOthers, Live, Listed

\* Where processes exit at once, being told to stop leaves none that is about to.
LEMMA StopIfRunningPrompt ==
  ASSUME TypeOK, Prompt, NoOthers, StopIfRunning
  PROVE  NoOthers'
<1>1. \A ps : \A p \in Pids :
        Killed(ps)[p] = IF p \notin ps \/ proc[p] = "free" THEN proc[p] ELSE "free"
  BY DEF Killed, Prompt, Without
<1>2. PICK ps : Become(Killed(ps))
  BY DEF StopIfRunning
<1>3. QED BY <1>1, <1>2 DEF Become, NoOthers

\* Where no kill fails either, stopping the recorded one ends it for good.
LEMMA StopIfRunningSole ==
  ASSUME TypeOK, Sole, NoOthers, StopIfRunning
  PROVE  /\ pidFile \in Pids =>
              pidFile' = None /\ \A p \in Pids : p \in Live' => p \in Live /\ p # pidFile
         /\ pidFile \notin Pids =>
              pidFile' = pidFile /\ \A p \in Pids : p \in Live' => p \in Live /\ proc[p] = "launching"
<1>1. \A ps : \A p \in Pids :
        Killed(ps)[p] = IF p \notin ps \/ proc[p] = "free" THEN proc[p] ELSE "free"
  BY DEF Killed, Sole, Without
<1>2. Become(Killed(IF pidFile \in Pids THEN {pidFile} ELSE Listed))
  BY DEF StopIfRunning, Sole, Without
<1>3. pidFile' = IF pidFile \in Pids THEN None ELSE pidFile
  BY DEF StopIfRunning, Sole, Without
<1>4. CASE pidFile \in Pids
  BY <1>1, <1>2, <1>3, <1>4 DEF Become, NoOthers, Live
<1>5. CASE pidFile \notin Pids
  BY <1>1, <1>2, <1>3, <1>5 DEF Become, NoOthers, Live, Listed
<1>6. QED BY <1>3, <1>4, <1>5

\* In these worlds no other program takes the pid of a tun2socks.
LEMMA NextNoOthers ==
  ASSUME TypeOK, Prompt, NoOthers, [Next]_vars
  PROVE  NoOthers'
<1> USE DEF TypeOK, processes
<1>1. ASSUME NEW o \in {"init", "stop"}, NEW b \in BOOLEAN, Invoke(o, b) PROVE NoOthers'
  BY <1>1, ProcessesUntouched DEF Invoke
<1>2. CASE Prepare \/ AlreadyEnabled \/ NotYetEnabled \/ EnsureSudo
  BY <1>2, ProcessesUntouched DEF Prepare, AlreadyEnabled, NotYetEnabled, EnsureSudo
<1>3. ASSUME NEW f \in Files, BackupFile(f) \/ BackupWrites(f) \/ ConfigureFile(f) PROVE NoOthers'
  BY <1>3, ProcessesUntouched DEF BackupFile, BackupWrites, ConfigureFile
<1>4. CASE SaveDefaultRoute \/ SaveRouteWrites \/ DetectGateway \/ SaveConfig
      \/ SaveConfigWrites \/ EnsureBin
  BY <1>4, ProcessesUntouched DEF SaveDefaultRoute, SaveRouteWrites, DetectGateway, SaveConfig,
    SaveConfigWrites, EnsureBin
<1>5. CASE TunAdd \/ TunUp \/ TunRoute \/ KeepRunning
  BY <1>5, ProcessesUntouched DEF TunAdd, TunUp, TunRoute, KeepRunning
<1>6. CASE Replace
  BY <1>6, StopIfRunningPrompt DEF Replace
<1>7. CASE NotRunning
  BY <1>7, ProcessesUntouched DEF NotRunning
<1>8. ASSUME NEW p \in Pids, Launch(p) PROVE NoOthers'
  BY <1>8 DEF Launch, NoOthers
<1>9. ASSUME NEW p \in Pids, WaitForPid(p) PROVE NoOthers'
  BY <1>9, ProcessesUntouched DEF WaitForPid
<1>10. CASE WaitTimesOut \/ RecordTruncates \/ RecordWrites \/ RestoreRoute \/ RestoreRouteFails
  BY <1>10, ProcessesUntouched DEF WaitTimesOut, RecordTruncates, RecordWrites, RestoreRoute,
    RestoreRouteFails
<1>11. CASE StopTun2Socks
  BY <1>11, StopIfRunningPrompt DEF StopTun2Socks
<1>12. CASE LinkDown \/ TunDel
  BY <1>12, ProcessesUntouched DEF LinkDown, TunDel
<1>13. ASSUME NEW f \in Files, RestoreFile(f) PROVE NoOthers'
  BY <1>13, ProcessesUntouched DEF RestoreFile
<1>14. ASSUME NEW p \in Pids, Executes(p) \/ Attach(p) \/ Exits(p) PROVE NoOthers'
  BY <1>14 DEF Executes, NoOthers, Become, Attach, Exits
<1>15. CASE StepFails \/ CommandCrashes
  BY <1>15, ProcessesUntouched DEF StepFails, CommandCrashes
<1>16. CASE Reboot
  BY <1>16 DEF Reboot, NoOthers, Exit, Become, Disturb
<1>17. CASE NetworkResets
  BY <1>17, ProcessesUntouched DEF NetworkResets
<1>18. ASSUME NEW u \in Uplinks, Roams(u) PROVE NoOthers'
  BY <1>18, ProcessesUntouched DEF Roams
<1>19. ASSUME NEW p \in Pids, Dies(p) \/ ForeignStarts(p) \/ ForeignExits(p) PROVE NoOthers'
  BY <1>19 DEF Dies, NoOthers, Become, Disturb, ForeignStarts, Prompt, Without, ForeignExits
<1>20. ASSUME NEW f \in Files, ChmodFails(f) PROVE NoOthers'
  BY <1>20, ProcessesUntouched DEF ChmodFails, Exit
<1>21. CASE FailureIgnored
  BY <1>21, ProcessesUntouched DEF FailureIgnored
<1>22. ASSUME NEW f \in Files, NEW v \in Versions, UserEdits(f, v) PROVE NoOthers'
  BY <1>22, ProcessesUntouched DEF UserEdits
<1>23. CASE UNCHANGED vars
  BY <1>23, ProcessesUntouched DEF vars
<1>24. QED
  BY <1>1, <1>2, <1>3, <1>4, <1>5, <1>6, <1>7, <1>8, <1>9, <1>10, <1>11, <1>12, <1>13, <1>14,
    <1>15, <1>16, <1>17, <1>18, <1>19, <1>20, <1>21, <1>22, <1>23 DEF Next, InitCommand,
    StopCommand, Tun2Socks, Environment

\* In these worlds nothing starts a second tun2socks or loses the pid of the first.
LEMMA NextOneTun ==
  ASSUME TypeOK, Sole, NoOthers, OneTun, [Next]_vars
  PROVE  OneTun'
<1> USE NoneAssumption DEF OneTun, Recording, disk, control, locals, At, AtFile, Goto, GotoFile
<1>1. ASSUME NEW o \in {"init", "stop"}, NEW b \in BOOLEAN, Invoke(o, b) PROVE OneTun'
  BY <1>1, ProcessesUntouched DEF processes, Invoke, disk
<1>2. CASE Prepare \/ AlreadyEnabled \/ NotYetEnabled \/ EnsureSudo
  BY <1>2, ProcessesUntouched DEF processes, Prepare, AlreadyEnabled, Exit, NotYetEnabled,
    EnsureSudo
<1>3. ASSUME NEW f \in Files, BackupFile(f) \/ BackupWrites(f) \/ ConfigureFile(f) PROVE OneTun'
  BY <1>3, ProcessesUntouched DEF processes, BackupFile, BackupWrites, ConfigureFile
<1>4. CASE SaveDefaultRoute \/ SaveRouteWrites \/ DetectGateway \/ SaveConfig
      \/ SaveConfigWrites \/ EnsureBin
  BY <1>4, ProcessesUntouched DEF processes, SaveDefaultRoute, SaveRouteWrites, DetectGateway,
    SaveConfig,
    SaveConfigWrites, EnsureBin
<1>5. CASE TunAdd \/ TunUp \/ TunRoute \/ KeepRunning
  BY <1>5, ProcessesUntouched DEF processes, TunAdd, TunUp, TunRoute, KeepRunning, Exit
<1>6. CASE Replace
  <2>1. Live' = {}
    BY <1>6, StopIfRunningSole DEF Replace, Live
  <2>2. QED BY <1>6, <2>1 DEF Replace
<1>7. CASE NotRunning
  <2>1. Live = {}
    BY <1>7 DEF NotRunning, IsRunning, Live, Listed
  <2>2. QED BY <1>7, <2>1, ProcessesUntouched DEF processes, NotRunning
<1>8. ASSUME NEW p \in Pids, Launch(p) PROVE OneTun'
  <2>1. Live' = {p}
    BY <1>8 DEF Launch, Live, TypeOK
  <2>2. QED BY <1>8, <2>1 DEF Launch
<1>9. ASSUME NEW p \in Pids, WaitForPid(p) PROVE OneTun'
  <2>1. p \in Live /\ proc[p] # "launching"
    BY <1>9 DEF WaitForPid, Listed, Live, NoOthers
  <2>2. QED BY <1>9, <2>1, ProcessesUntouched DEF processes, WaitForPid
<1>10. CASE WaitTimesOut
  <2>1. Live = {}
    BY <1>10 DEF WaitTimesOut, Listed, Live, Sole, Without
  <2>2. QED BY <1>10, <2>1, ProcessesUntouched DEF processes, WaitTimesOut, Exit
<1>11. CASE RecordTruncates \/ RecordWrites \/ RestoreRoute \/ RestoreRouteFails
  BY <1>11, ProcessesUntouched DEF processes, RecordTruncates, RecordWrites, Exit, RestoreRoute,
    RestoreRouteFails
<1>12. CASE StopTun2Socks
  <2>1. Live' = {}
    BY <1>12, StopIfRunningSole DEF StopTun2Socks, Live
  <2>2. QED BY <1>12, <2>1 DEF StopTun2Socks
<1>13. CASE LinkDown \/ TunDel
  BY <1>13, ProcessesUntouched DEF processes, LinkDown, TunDel
<1>14. ASSUME NEW f \in Files, RestoreFile(f) PROVE OneTun'
  BY <1>14, ProcessesUntouched DEF processes, RestoreFile, Exit
<1>15. ASSUME NEW p \in Pids, Executes(p) PROVE OneTun'
  <2>1. Live' \subseteq Live /\ \A q \in Live' : proc'[q] = "launching" => proc[q] = "launching"
    BY <1>15 DEF Executes, Become, Live, TypeOK
  <2>2. QED BY <1>15, <2>1 DEF Executes, disk
<1>16. ASSUME NEW p \in Pids, Attach(p) PROVE OneTun'
  <2>1. Live' \subseteq Live /\ \A q \in Live' : proc'[q] = "launching" => proc[q] = "launching"
    BY <1>16 DEF Attach, Become, Live, TypeOK
  <2>2. QED BY <1>16, <2>1 DEF Attach, disk
<1>17. ASSUME NEW p \in Pids, Exits(p) PROVE OneTun'
  <2>1. Live' \subseteq Live /\ \A q \in Live' : proc'[q] = "launching" => proc[q] = "launching"
    BY <1>17 DEF Exits, Become, Live, TypeOK
  <2>2. QED BY <1>17, <2>1 DEF Exits, disk
<1>18. CASE StepFails \/ CommandCrashes
  BY <1>18 DEF StepFails, Sole, Without, CommandCrashes
<1>19. CASE Reboot
  <2>1. Live' = {}
    BY <1>19 DEF Reboot, Become, Live
  <2>2. QED BY <1>19, <2>1 DEF Reboot, Exit
<1>20. CASE NetworkResets
  BY <1>20, ProcessesUntouched DEF processes, NetworkResets
<1>21. ASSUME NEW u \in Uplinks, Roams(u) PROVE OneTun'
  BY <1>21, ProcessesUntouched DEF processes, Roams
<1>22. ASSUME NEW p \in Pids, Dies(p) PROVE OneTun'
  <2>1. Live' \subseteq Live /\ \A q \in Live' : proc'[q] = proc[q]
    BY <1>22 DEF Dies, Become, Live, TypeOK
  <2>2. QED BY <1>22, <2>1 DEF Dies, disk
<1>23. ASSUME NEW p \in Pids, ForeignStarts(p) \/ ForeignExits(p) PROVE OneTun'
  BY <1>23 DEF ForeignStarts, Sole, Without, ForeignExits, NoOthers
<1>24. ASSUME NEW f \in Files, ChmodFails(f) PROVE OneTun'
  BY <1>24, ProcessesUntouched DEF ChmodFails, Exit, processes, Sole, Without
<1>25. CASE FailureIgnored
  BY <1>25, ProcessesUntouched DEF FailureIgnored, processes, Sole, Without
<1>26. ASSUME NEW f \in Files, NEW v \in Versions, UserEdits(f, v) PROVE OneTun'
  BY <1>26, ProcessesUntouched DEF UserEdits, processes, Sole, Without
<1>27. CASE UNCHANGED vars
  BY <1>27, ProcessesUntouched DEF processes, vars
<1>28. QED
  BY <1>1, <1>2, <1>3, <1>4, <1>5, <1>6, <1>7, <1>8, <1>9, <1>10, <1>11, <1>12, <1>13, <1>14,
    <1>15, <1>16, <1>17, <1>18, <1>19, <1>20, <1>21, <1>22, <1>23, <1>24, <1>25, <1>26, <1>27
    DEF Next, InitCommand, StopCommand, Tun2Socks, Environment

-----------------------------------------------------------------------------
(* The route                                                                *)

\* The default route is through the machine's network or a device that is up; the
\* device is up before the route is moved to it.
RouteValid ==
  /\ route = "tun" => link = "up"
  /\ route \in Uplinks => route = uplink
  /\ pc = "tunRoute" => link = "up"

\* The steps with the route through the tun device, and those with config.yaml saved.
Tunnelled == {"running", "launch", "wait"} \cup Recording
AfterSave == {"bin", "tunAdd", "tunUp", "tunRoute"} \cup Tunnelled

\* While nothing disturbs init, the route is the one it read and then the tun
\* device's, and a network it read is the one it proxies to and configures.
Undisturbed ==
  /\ pc = "check" => line = route
  /\ pc \in InitSteps \ {"prepare"} /\ line \in Uplinks => line = uplink
  /\ pc \in Tunnelled => route = "tun"
  /\ pc \in {"save", "saveWrite"} \cup AfterSave /\ line \in Uplinks => host = uplink
  /\ pc \in AfterSave /\ line \in Uplinks => socks = uplink

\* Only init's launch restarts tun2socks.
NotYetRestarted ==
  pc \in InitSteps \ ({"wait"} \cup Recording) => restarted = FALSE

\* The route is the network's before the first init.
LEMMA InitRoute == Init => RouteValid /\ (calm => Undisturbed) /\ NotYetRestarted
BY UplinksAssumption DEF Init, RouteValid, Undisturbed, NotYetRestarted, InitSteps,
  Tunnelled, AfterSave, Recording

\* No step leaves a route through another network, or through a device that is not
\* up.
LEMMA NextRouteValid ==
  ASSUME TypeOK, RouteValid, [Next]_vars
  PROVE  RouteValid'
<1> USE UplinksAssumption, NoneAssumption DEF RouteValid, network, control, At, AtFile, Goto, GotoFile
<1>1. ASSUME NEW o \in {"init", "stop"}, NEW b \in BOOLEAN, Invoke(o, b) PROVE RouteValid'
  BY <1>1 DEF Invoke
<1>2. CASE Prepare \/ AlreadyEnabled \/ NotYetEnabled \/ EnsureSudo
  BY <1>2 DEF Prepare, AlreadyEnabled, Exit, NotYetEnabled, EnsureSudo
<1>3. ASSUME NEW f \in Files, BackupFile(f) \/ BackupWrites(f) \/ ConfigureFile(f)
      PROVE RouteValid'
  BY <1>3 DEF BackupFile, BackupWrites, ConfigureFile
<1>4. CASE SaveDefaultRoute \/ SaveRouteWrites \/ DetectGateway \/ SaveConfig
      \/ SaveConfigWrites \/ EnsureBin
  BY <1>4 DEF SaveDefaultRoute, SaveRouteWrites, DetectGateway, SaveConfig, SaveConfigWrites,
    EnsureBin
<1>5. CASE TunAdd \/ TunUp \/ TunRoute \/ KeepRunning \/ Replace \/ NotRunning
  BY <1>5 DEF TunAdd, TunUp, TunRoute, KeepRunning, Exit, Replace, NotRunning
<1>6. ASSUME NEW p \in Pids, Launch(p) \/ WaitForPid(p) PROVE RouteValid'
  BY <1>6 DEF Launch, WaitForPid
<1>7. CASE WaitTimesOut \/ RecordTruncates \/ RecordWrites \/ RestoreRoute
      \/ RestoreRouteFails \/ StopTun2Socks
  BY <1>7 DEF WaitTimesOut, Exit, RecordTruncates, RecordWrites, RestoreRoute, CanSet, TypeOK,
    RestoreRouteFails, StopTun2Socks
<1>8. CASE LinkDown \/ TunDel
  BY <1>8 DEF LinkDown, TunDel
<1>9. ASSUME NEW f \in Files, RestoreFile(f) PROVE RouteValid'
  BY <1>9 DEF RestoreFile, Exit
<1>10. ASSUME NEW p \in Pids, Executes(p) \/ Attach(p) \/ Exits(p) PROVE RouteValid'
  BY <1>10 DEF Executes, Become, Attach, Exits
<1>11. CASE StepFails \/ CommandCrashes \/ Reboot \/ NetworkResets
  BY <1>11 DEF StepFails, Exit, CommandCrashes, Reboot, TypeOK, NetworkResets
<1>12. ASSUME NEW u \in Uplinks, Roams(u) PROVE RouteValid'
  BY <1>12 DEF Roams, TypeOK
<1>13. ASSUME NEW p \in Pids, Dies(p) \/ ForeignStarts(p) \/ ForeignExits(p) PROVE RouteValid'
  BY <1>13 DEF Dies, ForeignStarts, ForeignExits
<1>14. ASSUME NEW f \in Files, ChmodFails(f) PROVE RouteValid'
  BY <1>14 DEF ChmodFails, Exit
<1>15. CASE FailureIgnored
  BY <1>15 DEF FailureIgnored
<1>16. ASSUME NEW f \in Files, NEW v \in Versions, UserEdits(f, v) PROVE RouteValid'
  BY <1>16 DEF UserEdits
<1>17. CASE UNCHANGED vars
  BY <1>17 DEF vars
<1>18. QED
  BY <1>1, <1>2, <1>3, <1>4, <1>5, <1>6, <1>7, <1>8, <1>9, <1>10, <1>11, <1>12, <1>13, <1>14,
    <1>15, <1>16, <1>17 DEF Next, InitCommand, StopCommand, Tun2Socks, Environment

\* init restarts tun2socks only by launching it.
LEMMA NextNotYetRestarted ==
  ASSUME Operation, NotYetRestarted, [Next]_vars
  PROVE  NotYetRestarted'
<1> USE DEF Operation, NotYetRestarted, Recording, InitSteps, StopSteps,
        control, history, At, AtFile, Goto, GotoFile
<1>1. ASSUME NEW o \in {"init", "stop"}, NEW b \in BOOLEAN, Invoke(o, b) PROVE NotYetRestarted'
  BY <1>1 DEF Invoke
<1>2. CASE Prepare \/ AlreadyEnabled \/ NotYetEnabled \/ EnsureSudo
  BY <1>2 DEF Prepare, AlreadyEnabled, Exit, NotYetEnabled, EnsureSudo
<1>3. ASSUME NEW f \in Files, BackupFile(f) \/ BackupWrites(f) \/ ConfigureFile(f)
      PROVE NotYetRestarted'
  BY <1>3 DEF BackupFile, BackupWrites, ConfigureFile
<1>4. CASE SaveDefaultRoute \/ SaveRouteWrites \/ DetectGateway \/ SaveConfig
      \/ SaveConfigWrites \/ EnsureBin
  BY <1>4 DEF SaveDefaultRoute, SaveRouteWrites, DetectGateway, SaveConfig, SaveConfigWrites,
    EnsureBin
<1>5. CASE TunAdd \/ TunUp \/ TunRoute \/ KeepRunning \/ Replace \/ NotRunning
  BY <1>5 DEF TunAdd, TunUp, TunRoute, KeepRunning, Exit, Replace, NotRunning
<1>6. ASSUME NEW p \in Pids, Launch(p) \/ WaitForPid(p) PROVE NotYetRestarted'
  BY <1>6 DEF Launch, WaitForPid
<1>7. CASE WaitTimesOut \/ RecordTruncates \/ RecordWrites \/ RestoreRoute
      \/ RestoreRouteFails \/ StopTun2Socks
  BY <1>7 DEF WaitTimesOut, Exit, RecordTruncates, RecordWrites, RestoreRoute, RestoreRouteFails,
    StopTun2Socks
<1>8. CASE LinkDown \/ TunDel
  BY <1>8 DEF LinkDown, TunDel
<1>9. ASSUME NEW f \in Files, RestoreFile(f) PROVE NotYetRestarted'
  BY <1>9 DEF RestoreFile, Exit
<1>10. ASSUME NEW p \in Pids, Executes(p) \/ Attach(p) \/ Exits(p) PROVE NotYetRestarted'
  BY <1>10 DEF Executes, Become, Attach, Exits
<1>11. CASE StepFails \/ CommandCrashes \/ Reboot \/ NetworkResets
  BY <1>11 DEF StepFails, Exit, CommandCrashes, Reboot, Become, Disturb, NetworkResets
<1>12. ASSUME NEW u \in Uplinks, Roams(u) PROVE NotYetRestarted'
  BY <1>12 DEF Roams, Disturb
<1>13. ASSUME NEW p \in Pids, Dies(p) \/ ForeignStarts(p) \/ ForeignExits(p)
      PROVE NotYetRestarted'
  BY <1>13 DEF Dies, Become, Disturb, ForeignStarts, ForeignExits
<1>14. ASSUME NEW f \in Files, ChmodFails(f) PROVE NotYetRestarted'
  BY <1>14 DEF ChmodFails, Exit
<1>15. CASE FailureIgnored
  BY <1>15 DEF FailureIgnored
<1>16. ASSUME NEW f \in Files, NEW v \in Versions, UserEdits(f, v) PROVE NotYetRestarted'
  BY <1>16 DEF UserEdits
<1>17. CASE UNCHANGED vars
  BY <1>17 DEF vars
<1>18. QED
  BY <1>1, <1>2, <1>3, <1>4, <1>5, <1>6, <1>7, <1>8, <1>9, <1>10, <1>11, <1>12, <1>13, <1>14,
    <1>15, <1>16, <1>17 DEF Next, InitCommand, StopCommand, Tun2Socks, Environment

\* While nothing disturbs init the route is the one it read, until it changes it.
LEMMA NextUndisturbed ==
  ASSUME TypeOK, RouteValid, calm => Undisturbed, [Next]_vars
  PROVE  calm' => Undisturbed'
<1> USE UplinksAssumption, NoneAssumption
    DEF Undisturbed, Tunnelled, AfterSave, Recording, InitSteps, disk, network, control, locals,
        history, At, AtFile, Goto, GotoFile
<1>1. ASSUME NEW o \in {"init", "stop"}, NEW b \in BOOLEAN, Invoke(o, b) PROVE calm' => Undisturbed'
  BY <1>1 DEF Invoke
<1>2. CASE Prepare \/ AlreadyEnabled \/ NotYetEnabled
  BY <1>2 DEF Prepare, RouteValid, AlreadyEnabled, Exit, NotYetEnabled
<1>3. CASE EnsureSudo
  BY <1>3 DEF EnsureSudo
<1>4. ASSUME NEW f \in Files, BackupFile(f) \/ BackupWrites(f) \/ ConfigureFile(f)
      PROVE calm' => Undisturbed'
  BY <1>4 DEF BackupFile, BackupWrites, ConfigureFile
<1>5. CASE SaveDefaultRoute \/ SaveRouteWrites \/ DetectGateway
  BY <1>5 DEF SaveDefaultRoute, SaveRouteWrites, DetectGateway
<1>6. CASE SaveConfig
  BY <1>6 DEF SaveConfig
<1>7. CASE SaveConfigWrites
  BY <1>7
    DEF SaveConfigWrites
<1>8. CASE EnsureBin \/ TunAdd \/ TunUp
  BY <1>8 DEF EnsureBin, TunAdd, TunUp
<1>9. CASE TunRoute \/ KeepRunning \/ Replace
  BY <1>9 DEF TunRoute, KeepRunning, Exit, Replace
<1>10. CASE NotRunning
  BY <1>10 DEF NotRunning
<1>11. ASSUME NEW p \in Pids, Launch(p) \/ WaitForPid(p) PROVE calm' => Undisturbed'
  BY <1>11 DEF Launch, WaitForPid
<1>12. CASE WaitTimesOut \/ RecordTruncates \/ RecordWrites
  BY <1>12 DEF WaitTimesOut, Exit, RecordTruncates, RecordWrites
<1>13. CASE RestoreRoute \/ RestoreRouteFails \/ StopTun2Socks
  BY <1>13 DEF RestoreRoute, RestoreRouteFails, Exit, StopTun2Socks
<1>14. CASE LinkDown \/ TunDel
  BY <1>14 DEF LinkDown, TunDel
<1>15. ASSUME NEW f \in Files, RestoreFile(f) PROVE calm' => Undisturbed'
  BY <1>15 DEF RestoreFile, Exit
<1>16. ASSUME NEW p \in Pids, Executes(p) \/ Attach(p) \/ Exits(p) PROVE calm' => Undisturbed'
  BY <1>16 DEF Executes, Become, Attach, Exits
<1>17. CASE StepFails \/ CommandCrashes
  BY <1>17 DEF StepFails, Exit, CommandCrashes
<1>18. CASE Reboot
  <2>1. calm' = FALSE
    BY <1>18 DEF Reboot, Disturb
  <2>2. QED BY <2>1
<1>19. CASE NetworkResets
  <2>1. calm' = FALSE
    BY <1>19 DEF NetworkResets, Disturb
  <2>2. QED BY <2>1
<1>20. ASSUME NEW u \in Uplinks, Roams(u) PROVE calm' => Undisturbed'
  <2>1. calm' = FALSE
    BY <1>20 DEF Roams, Disturb
  <2>2. QED BY <2>1
<1>21. ASSUME NEW p \in Pids, Dies(p) PROVE calm' => Undisturbed'
  <2>1. calm' = FALSE
    BY <1>21 DEF Dies, Disturb
  <2>2. QED BY <2>1
<1>22. ASSUME NEW p \in Pids, ForeignStarts(p) PROVE calm' => Undisturbed'
  <2>1. calm' = FALSE
    BY <1>22 DEF ForeignStarts, Disturb
  <2>2. QED BY <2>1
<1>23. ASSUME NEW p \in Pids, ForeignExits(p) PROVE calm' => Undisturbed'
  <2>1. calm' = FALSE
    BY <1>23 DEF ForeignExits, Disturb
  <2>2. QED BY <2>1
<1>24. ASSUME NEW f \in Files, ChmodFails(f) PROVE calm' => Undisturbed'
  BY <1>24 DEF ChmodFails, Exit
<1>25. CASE FailureIgnored
  BY <1>25 DEF FailureIgnored
<1>26. ASSUME NEW f \in Files, NEW v \in Versions, UserEdits(f, v) PROVE calm' => Undisturbed'
  BY <1>26 DEF UserEdits
<1>27. CASE UNCHANGED vars
  BY <1>27 DEF vars
<1>28. QED
  BY <1>1, <1>2, <1>3, <1>4, <1>5, <1>6, <1>7, <1>8, <1>9, <1>10, <1>11, <1>12, <1>13, <1>14,
    <1>15, <1>16, <1>17, <1>18, <1>19, <1>20, <1>21, <1>22, <1>23, <1>24, <1>25, <1>26, <1>27
    DEF Next, InitCommand, StopCommand, Tun2Socks, Environment

-----------------------------------------------------------------------------
(* The process init records                                                 *)

\* While nothing disturbs init a tun2socks runs once one has been found, and it
\* proxies to the machine's network.
Found == pc \in Recording => Listed # {}
ProxiedLive ==
  pc \in {"wait"} \cup Recording /\ line \in Uplinks => \A p \in Live : via[p] = uplink

\* Nothing is recorded before the first init.
LEMMA InitFound == Init => Found /\ ProxiedLive
BY DEF Init, Found, ProxiedLive, Recording

\* While nothing disturbs init a tun2socks is listed when its pid is recorded.
LEMMA NextFound ==
  ASSUME TypeOK, NoOthers, calm => Found, [Next]_vars
  PROVE  calm' => Found'
<1> USE DEF Found, Recording, processes, control, history, At, AtFile, Goto, GotoFile
<1>1. ASSUME NEW o \in {"init", "stop"}, NEW b \in BOOLEAN, Invoke(o, b) PROVE calm' => Found'
  BY <1>1 DEF Invoke
<1>2. CASE Prepare \/ AlreadyEnabled \/ NotYetEnabled \/ EnsureSudo
  BY <1>2 DEF Prepare, AlreadyEnabled, Exit, NotYetEnabled, EnsureSudo
<1>3. ASSUME NEW f \in Files, BackupFile(f) \/ BackupWrites(f) \/ ConfigureFile(f)
      PROVE calm' => Found'
  BY <1>3 DEF BackupFile, BackupWrites, ConfigureFile
<1>4. CASE SaveDefaultRoute \/ SaveRouteWrites \/ DetectGateway \/ SaveConfig
      \/ SaveConfigWrites \/ EnsureBin
  BY <1>4 DEF SaveDefaultRoute, SaveRouteWrites, DetectGateway, SaveConfig, SaveConfigWrites,
    EnsureBin
<1>5. CASE TunAdd \/ TunUp \/ TunRoute \/ KeepRunning \/ Replace \/ NotRunning
  BY <1>5 DEF TunAdd, TunUp, TunRoute, KeepRunning, Exit, Replace, NotRunning
<1>6. ASSUME NEW p \in Pids, Launch(p) PROVE calm' => Found'
  BY <1>6 DEF Launch
<1>7. ASSUME NEW p \in Pids, WaitForPid(p) PROVE calm' => Found'
  BY <1>7, ProcessesUntouched DEF WaitForPid
<1>8. CASE WaitTimesOut
  BY <1>8 DEF WaitTimesOut, Exit
<1>9. CASE RecordTruncates
  BY <1>9, ProcessesUntouched DEF RecordTruncates
<1>10. CASE RecordWrites \/ RestoreRoute \/ RestoreRouteFails \/ StopTun2Socks \/ LinkDown
      \/ TunDel
  BY <1>10 DEF RecordWrites, Exit, RestoreRoute, RestoreRouteFails, StopTun2Socks, LinkDown,
    TunDel
<1>11. ASSUME NEW f \in Files, RestoreFile(f) PROVE calm' => Found'
  BY <1>11 DEF RestoreFile, Exit
<1>12. ASSUME NEW p \in Pids, Executes(p) PROVE calm' => Found'
  BY <1>12 DEF Executes, Become, Listed, TypeOK
<1>13. ASSUME NEW p \in Pids, Attach(p) PROVE calm' => Found'
  <2>1. Listed' # {}
    <3>1. CASE Attached = {}
      BY <1>13, <3>1 DEF Attach, Become, Listed, TypeOK
    <3>2. ASSUME NEW q \in Attached PROVE q \in Listed'
      BY <1>13, <3>2 DEF Attach, Become, Attached, Listed, TypeOK
    <3>3. QED BY <3>1, <3>2
  <2>2. QED BY <2>1
<1>14. ASSUME NEW p \in Pids, Exits(p) PROVE calm' => Found'
  BY <1>14 DEF Exits, NoOthers
<1>15. CASE StepFails \/ CommandCrashes
  BY <1>15 DEF StepFails, Exit, CommandCrashes
<1>16. CASE Reboot
  <2>1. calm' = FALSE
    BY <1>16 DEF Reboot, Disturb
  <2>2. QED BY <2>1
<1>17. CASE NetworkResets
  <2>1. calm' = FALSE
    BY <1>17 DEF NetworkResets, Disturb
  <2>2. QED BY <2>1
<1>18. ASSUME NEW u \in Uplinks, Roams(u) PROVE calm' => Found'
  <2>1. calm' = FALSE
    BY <1>18 DEF Roams, Disturb
  <2>2. QED BY <2>1
<1>19. ASSUME NEW p \in Pids, Dies(p) PROVE calm' => Found'
  <2>1. calm' = FALSE
    BY <1>19 DEF Dies, Disturb
  <2>2. QED BY <2>1
<1>20. ASSUME NEW p \in Pids, ForeignStarts(p) PROVE calm' => Found'
  <2>1. calm' = FALSE
    BY <1>20 DEF ForeignStarts, Disturb
  <2>2. QED BY <2>1
<1>21. ASSUME NEW p \in Pids, ForeignExits(p) PROVE calm' => Found'
  <2>1. calm' = FALSE
    BY <1>21 DEF ForeignExits, Disturb
  <2>2. QED BY <2>1
<1>22. ASSUME NEW f \in Files, ChmodFails(f) PROVE calm' => Found'
  BY <1>22, ProcessesUntouched DEF ChmodFails, Exit
<1>23. CASE FailureIgnored
  BY <1>23, ProcessesUntouched DEF FailureIgnored
<1>24. ASSUME NEW f \in Files, NEW v \in Versions, UserEdits(f, v) PROVE calm' => Found'
  BY <1>24, ProcessesUntouched DEF UserEdits
<1>25. CASE UNCHANGED vars
  BY <1>25, ProcessesUntouched DEF vars
<1>26. QED
  BY <1>1, <1>2, <1>3, <1>4, <1>5, <1>6, <1>7, <1>8, <1>9, <1>10, <1>11, <1>12, <1>13, <1>14,
    <1>15, <1>16, <1>17, <1>18, <1>19, <1>20, <1>21, <1>22, <1>23, <1>24, <1>25 DEF Next,
    InitCommand, StopCommand, Tun2Socks, Environment

\* While nothing disturbs init the tun2socks it has launched or kept proxies to the
\* machine's network.
LEMMA NextProxiedLive ==
  ASSUME TypeOK, OneTun, calm => Undisturbed, calm => ProxiedLive, [Next]_vars
  PROVE  calm' => ProxiedLive'
<1> USE DEF ProxiedLive, Recording, network, processes, control, locals, history,
        At, AtFile, Goto, GotoFile
<1>1. ASSUME NEW o \in {"init", "stop"}, NEW b \in BOOLEAN, Invoke(o, b) PROVE calm' => ProxiedLive'
  BY <1>1 DEF Invoke
<1>2. CASE Prepare \/ AlreadyEnabled \/ NotYetEnabled \/ EnsureSudo
  BY <1>2 DEF Prepare, AlreadyEnabled, Exit, NotYetEnabled, EnsureSudo
<1>3. ASSUME NEW f \in Files, BackupFile(f) \/ BackupWrites(f) \/ ConfigureFile(f)
      PROVE calm' => ProxiedLive'
  BY <1>3 DEF BackupFile, BackupWrites, ConfigureFile
<1>4. CASE SaveDefaultRoute \/ SaveRouteWrites \/ DetectGateway \/ SaveConfig
      \/ SaveConfigWrites \/ EnsureBin
  BY <1>4 DEF SaveDefaultRoute, SaveRouteWrites, DetectGateway, SaveConfig, SaveConfigWrites,
    EnsureBin
<1>5. CASE TunAdd \/ TunUp \/ TunRoute \/ KeepRunning \/ Replace \/ NotRunning
  BY <1>5 DEF TunAdd, TunUp, TunRoute, KeepRunning, Exit, Replace, NotRunning
<1>6. ASSUME NEW p \in Pids, Launch(p) PROVE calm' => ProxiedLive'
  <2>1. Live' = {p} /\ via'[p] = host
    BY <1>6 DEF Launch, Live, OneTun, TypeOK
  <2>2. line \in Uplinks /\ calm => host = uplink
    BY <1>6 DEF Launch, Undisturbed, AfterSave, Tunnelled
  <2>3. QED BY <1>6, <2>1, <2>2 DEF Launch
<1>7. ASSUME NEW p \in Pids, WaitForPid(p) PROVE calm' => ProxiedLive'
  BY <1>7, ProcessesUntouched DEF WaitForPid
<1>8. CASE WaitTimesOut
  BY <1>8 DEF WaitTimesOut, Exit
<1>9. CASE RecordTruncates
  BY <1>9, ProcessesUntouched DEF RecordTruncates
<1>10. CASE RecordWrites \/ RestoreRoute \/ RestoreRouteFails \/ StopTun2Socks \/ LinkDown
      \/ TunDel
  BY <1>10 DEF RecordWrites, Exit, RestoreRoute, RestoreRouteFails, StopTun2Socks, LinkDown,
    TunDel
<1>11. ASSUME NEW f \in Files, RestoreFile(f) PROVE calm' => ProxiedLive'
  BY <1>11 DEF RestoreFile, Exit
<1>12. ASSUME NEW p \in Pids, Executes(p) PROVE calm' => ProxiedLive'
  <2>1. \A q \in Live' : q \in Live /\ via'[q] = via[q]
    BY <1>12 DEF Executes, Become, Live, TypeOK
  <2>2. QED BY <1>12, <2>1 DEF Executes
<1>13. ASSUME NEW p \in Pids, Attach(p) PROVE calm' => ProxiedLive'
  <2>1. \A q \in Live' : q \in Live /\ via'[q] = via[q]
    BY <1>13 DEF Attach, Become, Live, TypeOK
  <2>2. QED BY <1>13, <2>1 DEF Attach
<1>14. ASSUME NEW p \in Pids, Exits(p) PROVE calm' => ProxiedLive'
  <2>1. \A q \in Live' : q \in Live /\ via'[q] = via[q]
    BY <1>14 DEF Exits, Become, Live, TypeOK
  <2>2. QED BY <1>14, <2>1 DEF Exits
<1>15. CASE StepFails \/ CommandCrashes
  BY <1>15 DEF StepFails, Exit, CommandCrashes
<1>16. CASE Reboot
  <2>1. calm' = FALSE
    BY <1>16 DEF Reboot, Disturb
  <2>2. QED BY <2>1
<1>17. CASE NetworkResets
  <2>1. calm' = FALSE
    BY <1>17 DEF NetworkResets, Disturb
  <2>2. QED BY <2>1
<1>18. ASSUME NEW u \in Uplinks, Roams(u) PROVE calm' => ProxiedLive'
  <2>1. calm' = FALSE
    BY <1>18 DEF Roams, Disturb
  <2>2. QED BY <2>1
<1>19. ASSUME NEW p \in Pids, Dies(p) PROVE calm' => ProxiedLive'
  <2>1. calm' = FALSE
    BY <1>19 DEF Dies, Disturb
  <2>2. QED BY <2>1
<1>20. ASSUME NEW p \in Pids, ForeignStarts(p) PROVE calm' => ProxiedLive'
  <2>1. calm' = FALSE
    BY <1>20 DEF ForeignStarts, Disturb
  <2>2. QED BY <2>1
<1>21. ASSUME NEW p \in Pids, ForeignExits(p) PROVE calm' => ProxiedLive'
  <2>1. calm' = FALSE
    BY <1>21 DEF ForeignExits, Disturb
  <2>2. QED BY <2>1
<1>22. ASSUME NEW f \in Files, ChmodFails(f) PROVE calm' => ProxiedLive'
  BY <1>22, ProcessesUntouched DEF ChmodFails, Exit
<1>23. CASE FailureIgnored
  BY <1>23, ProcessesUntouched DEF FailureIgnored
<1>24. ASSUME NEW f \in Files, NEW v \in Versions, UserEdits(f, v) PROVE calm' => ProxiedLive'
  BY <1>24, ProcessesUntouched DEF UserEdits
<1>25. CASE UNCHANGED vars
  BY <1>25, ProcessesUntouched DEF vars
<1>26. QED
  BY <1>1, <1>2, <1>3, <1>4, <1>5, <1>6, <1>7, <1>8, <1>9, <1>10, <1>11, <1>12, <1>13, <1>14,
    <1>15, <1>16, <1>17, <1>18, <1>19, <1>20, <1>21, <1>22, <1>23, <1>24, <1>25 DEF Next,
    InitCommand, StopCommand, Tun2Socks, Environment

-----------------------------------------------------------------------------
(* The way back                                                             *)

\* In these worlds a tun2socks runs until it is stopped and every step succeeds.
Faithful == Without({"dies", "fails", "crash", "lingers", "foreign"})

\* The steps of init before the route is moved.
BeforeTunnel == {"sudo", "backup", "backupWrite", "configure", "saveRoute", "saveRouteWrite",
                 "gateway", "save", "saveWrite", "bin", "tunAdd", "tunUp", "tunRoute"}

\* Init reads the route of a network, not the tun device's, before it saves it; and
\* the route is only on the tun device once another has been saved, with a tun2socks
\* whenever no init is at work.
Reversible ==
  /\ routeFile # "tun" /\ route # None
  /\ pc = "check" =>
       line # None /\ (line = "tun" => Live # {}) /\ (line # "tun" => route # "tun")
  /\ pc \in BeforeTunnel \cup {"running", "launch", "wait"} \cup Recording => line \in Uplinks
  /\ pc \in BeforeTunnel \cup {"stopTun", "linkDown", "tunDel", "restore"} => route # "tun"
  /\ pc \in {"idle", "prepare", "check", "restoreRoute"} /\ route = "tun" =>
       Live # {} /\ routeFile # None
  /\ pc \in {"gateway", "save", "saveWrite"} \cup AfterSave => routeFile # None
  /\ pc \in {"wait"} \cup Recording => Live # {}

\* There is nothing to reverse before the first init.
LEMMA InitReversible == Init => Reversible
BY UplinksAssumption, NoneAssumption
   DEF Init, Reversible, BeforeTunnel, Recording, AfterSave, Tunnelled

\* Two tun2socks that live are the same one.
LEMMA AtMostOne ==
  ASSUME OneTun, NEW p \in Live, NEW q \in Live
  PROVE  p = q
BY DEF OneTun

\* Between launches the script's test for a running tun2socks tells whether one
\* lives.
LEMMA LiveIsRunning ==
  ASSUME TypeOK, NoOthers, OneTun, pc \notin {"wait"} \cup Recording
  PROVE  IsRunning <=> Live # {}
<1>1. ASSUME NEW p \in Live PROVE IsRunning
  <2>1. p = pidFile /\ p \in Listed
    BY <1>1 DEF OneTun, Live, Listed
  <2>2. QED BY <2>1, NoneAssumption DEF IsRunning, Live
<1>2. ASSUME IsRunning PROVE Live # {}
  <2>1. Listed # {} \/ \E p \in Pids : p = pidFile /\ (proc[p] = "foreign" \/ p \in Listed)
    BY <1>2 DEF IsRunning, TypeOK
  <2>2. QED BY <2>1 DEF Listed, Live, NoOthers
<1>3. QED BY <1>1, <1>2

\* The route is put on the device only once another has been saved.
LEMMA NextReversible ==
  ASSUME TypeOK, Faithful, NoOthers, OneTun, Reversible, [Next]_vars
  PROVE  Reversible'
<1> USE UplinksAssumption, NoneAssumption
    DEF Reversible, BeforeTunnel, Recording, AfterSave, Tunnelled, disk, network, processes, control,
        locals, At, AtFile, Goto, GotoFile
<1>1. ASSUME NEW o \in {"init", "stop"}, NEW b \in BOOLEAN, Invoke(o, b) PROVE Reversible'
  BY <1>1, ProcessesUntouched DEF Invoke
<1>2. CASE Prepare \/ AlreadyEnabled
  BY <1>2, ProcessesUntouched DEF Prepare, TypeOK, Routes, AlreadyEnabled, Exit
<1>3. CASE NotYetEnabled
  BY <1>3, ProcessesUntouched, LiveIsRunning DEF NotYetEnabled, TypeOK, Routes
<1>4. CASE EnsureSudo
  BY <1>4, ProcessesUntouched DEF EnsureSudo
<1>5. ASSUME NEW f \in Files, BackupFile(f) \/ BackupWrites(f) \/ ConfigureFile(f)
      PROVE Reversible'
  BY <1>5, ProcessesUntouched DEF BackupFile, BackupWrites, ConfigureFile
<1>6. CASE SaveDefaultRoute \/ SaveRouteWrites \/ DetectGateway \/ SaveConfig
      \/ SaveConfigWrites \/ EnsureBin
  BY <1>6, ProcessesUntouched DEF SaveDefaultRoute, SaveRouteWrites, DetectGateway, SaveConfig,
    SaveConfigWrites, EnsureBin
<1>7. CASE TunAdd \/ TunUp \/ TunRoute
  BY <1>7, ProcessesUntouched DEF TunAdd, TunUp, TunRoute
<1>8. CASE KeepRunning
  BY <1>8, ProcessesUntouched, LiveIsRunning DEF KeepRunning, Exit
<1>9. CASE Replace
  BY <1>9 DEF Replace
<1>10. CASE NotRunning
  BY <1>10, ProcessesUntouched DEF NotRunning
<1>11. ASSUME NEW p \in Pids, Launch(p) PROVE Reversible'
  <2>1. p \in Live'
    BY <1>11 DEF Launch, Live, TypeOK
  <2>2. QED BY <1>11, <2>1 DEF Launch
<1>12. ASSUME NEW p \in Pids, WaitForPid(p) PROVE Reversible'
  BY <1>12, ProcessesUntouched DEF WaitForPid
<1>13. CASE WaitTimesOut
  <2>1. Live = {}
    BY <1>13 DEF WaitTimesOut, Listed, Live, Faithful, Without
  <2>2. QED BY <1>13, <2>1 DEF WaitTimesOut
<1>14. CASE RecordTruncates \/ RecordWrites \/ RestoreRoute \/ RestoreRouteFails
  BY <1>14, ProcessesUntouched DEF RecordTruncates, RecordWrites, Exit, RestoreRoute,
    RestoreRouteFails
<1>15. CASE StopTun2Socks
  BY <1>15 DEF StopTun2Socks
<1>16. CASE LinkDown \/ TunDel
  BY <1>16, ProcessesUntouched DEF LinkDown, TunDel
<1>17. ASSUME NEW f \in Files, RestoreFile(f) PROVE Reversible'
  BY <1>17, ProcessesUntouched DEF RestoreFile, Exit
<1>18. ASSUME NEW p \in Pids, Executes(p) PROVE Reversible'
  <2>1. Live' = Live
    BY <1>18 DEF Executes, Become, Live, TypeOK
  <2>2. QED BY <1>18, <2>1 DEF Executes
<1>19. ASSUME NEW p \in Pids, Attach(p) PROVE Reversible'
  <2>1. Attached = {}
    BY <1>19, AtMostOne DEF Attach, Attached, Live, NoOthers
  <2>2. Live' = Live
    BY <1>19, <2>1 DEF Attach, Become, Live, TypeOK
  <2>3. QED BY <1>19, <2>2 DEF Attach
<1>20. ASSUME NEW p \in Pids, Exits(p) PROVE Reversible'
  BY <1>20 DEF Exits, NoOthers
<1>21. CASE StepFails \/ CommandCrashes \/ Reboot
  BY <1>21 DEF StepFails, Faithful, Without, CommandCrashes, Reboot, Exit, TypeOK
<1>22. CASE NetworkResets
  BY <1>22, ProcessesUntouched DEF NetworkResets, TypeOK
<1>23. ASSUME NEW u \in Uplinks, Roams(u) PROVE Reversible'
  BY <1>23, ProcessesUntouched DEF Roams
<1>24. ASSUME NEW p \in Pids, Dies(p) \/ ForeignStarts(p) \/ ForeignExits(p) PROVE Reversible'
  BY <1>24 DEF Dies, Faithful, Without, ForeignStarts, ForeignExits, NoOthers
<1>25. ASSUME NEW f \in Files, ChmodFails(f) PROVE Reversible'
  BY <1>25, ProcessesUntouched DEF ChmodFails, Exit, Faithful, Without
<1>26. CASE FailureIgnored
  BY <1>26, ProcessesUntouched DEF FailureIgnored, Faithful, Without
<1>27. ASSUME NEW f \in Files, NEW v \in Versions, UserEdits(f, v) PROVE Reversible'
  BY <1>27, ProcessesUntouched DEF UserEdits, Faithful, Without
<1>28. CASE UNCHANGED vars
  BY <1>28, ProcessesUntouched DEF vars
<1>29. QED
  BY <1>1, <1>2, <1>3, <1>4, <1>5, <1>6, <1>7, <1>8, <1>9, <1>10, <1>11, <1>12, <1>13, <1>14,
    <1>15, <1>16, <1>17, <1>18, <1>19, <1>20, <1>21, <1>22, <1>23, <1>24, <1>25, <1>26, <1>27,
    <1>28 DEF Next, InitCommand, StopCommand, Tun2Socks, Environment

-----------------------------------------------------------------------------
(* Theorems                                                                 *)

\* The inductive invariant.
IInv ==
  /\ TypeOK /\ Operation /\ FilesKept /\ RouteValid /\ NotYetRestarted
  /\ calm => Undisturbed
  /\ Prompt => NoOthers /\ (calm => Found)
  /\ Sole => OneTun /\ (calm => ProxiedLive)
  /\ Faithful => Reversible

\* The invariant holds before the first command.
LEMMA InitIInv == Init => IInv
BY InitTypeOK, InitOperation, InitFilesKept, InitProcesses, InitRoute, InitFound, InitReversible
   DEF IInv

\* A world is as good at the end of a step as it was before.
LEMMA NextIInv == IInv /\ [Next]_vars => IInv'
<1> SUFFICES ASSUME IInv, [Next]_vars PROVE IInv'
  OBVIOUS
<1>1. faults' = faults
  BY SameFaults
<1>2. /\ Sole => Prompt
      /\ Faithful => Sole
  BY DEF Prompt, Sole, Faithful, Without
<1>3. /\ Prompt' = Prompt
      /\ Sole' = Sole
      /\ Faithful' = Faithful
  BY <1>1 DEF Prompt, Sole, Faithful, Without
<1>4. TypeOK' /\ Operation' /\ FilesKept' /\ RouteValid' /\ NotYetRestarted'
  BY NextTypeOK, NextOperation, NextFilesKept, NextRouteValid, NextNotYetRestarted DEF IInv
<1>5. calm' => Undisturbed'
  BY NextUndisturbed DEF IInv
<1>6. Prompt => NoOthers' /\ (calm' => Found')
  BY NextNoOthers, NextFound DEF IInv
<1>7. Sole => OneTun' /\ (calm' => ProxiedLive')
  BY <1>2, NextOneTun, NextProxiedLive DEF IInv
<1>8. Faithful => Reversible'
  BY <1>2, NextReversible DEF IInv
<1>9. QED
  BY <1>3, <1>4, <1>5, <1>6, <1>7, <1>8 DEF IInv

\* A command that succeeds does so in one of four steps.
LEMMA SuccessIsAStep ==
  ASSUME Operation, [Next]_vars, NEW o, Succeeds(o)
  PROVE  \/ o = "init" /\ (AlreadyEnabled \/ KeepRunning \/ RecordWrites)
         \/ o = "stop" /\ \E f \in Files : RestoreFile(f) /\ IsLast(f)
<1> USE DEF Succeeds, Returns
<1>1. ASSUME NEW c \in {"init", "stop"}, NEW b \in BOOLEAN, Invoke(c, b) PROVE FALSE
  BY <1>1 DEF Invoke, At
<1>2. ASSUME InitCommand PROVE o = "init" /\ (AlreadyEnabled \/ KeepRunning \/ RecordWrites)
  BY <1>2 DEF Operation, InitSteps, InitCommand, At, AtFile, Goto, GotoFile, Exit,
    Prepare, AlreadyEnabled, NotYetEnabled, EnsureSudo, BackupFile, BackupWrites, ConfigureFile,
    SaveDefaultRoute, SaveRouteWrites, DetectGateway, SaveConfig, SaveConfigWrites, EnsureBin,
    TunAdd, TunUp, TunRoute, KeepRunning, Replace, NotRunning, Launch, WaitForPid, WaitTimesOut,
    RecordTruncates, RecordWrites
<1>3. ASSUME StopCommand PROVE o = "stop" /\ \E f \in Files : RestoreFile(f) /\ IsLast(f)
  BY <1>3 DEF Operation, StopSteps, StopCommand, At, AtFile, Goto, GotoFile, Exit,
    RestoreRoute, RestoreRouteFails, StopTun2Socks, LinkDown, TunDel, RestoreFile
<1>4. ASSUME Tun2Socks PROVE FALSE
  BY <1>4 DEF Tun2Socks, Executes, Attach, Exits, control
<1>5. ASSUME Environment PROVE FALSE
  BY <1>5 DEF Environment, StepFails, CommandCrashes, Reboot, NetworkResets, Roams, Dies, ForeignStarts,
    ForeignExits, ChmodFails, FailureIgnored, UserEdits, At, AtFile, Goto, GotoFile, Exit, control
<1>6. ASSUME UNCHANGED vars PROVE FALSE
  BY <1>6 DEF vars
<1>7. QED BY <1>1, <1>2, <1>3, <1>4, <1>5, <1>6 DEF Next

\* However often init and stop were run, failed half-way or were interrupted, and
\* whatever the user made of the files in between, a stop that succeeds leaves each
\* file as the user last had it, but for the two cases in which the backup is not
\* that file: it was cut short, or the user has edited the file since.
THEOREM FilesComeBack == Spec => StopRestoresFiles
<1>1. ASSUME IInv, [Next]_vars, Succeeds("stop"), NEW f \in Files, own[f] # "absent"
      PROVE  etc'[f] = own[f] \/ saved[f] = Empty \/ f \in edited
  <2>1. SUFFICES ASSUME f \notin edited PROVE etc'[f] = own[f] \/ saved[f] = Empty
    OBVIOUS
  <2>2. PICK g \in Files : RestoreFile(g) /\ IsLast(g)
    BY <1>1, SuccessIsAStep DEF IInv
  <2>3. /\ FileKept(f)
        /\ etc' = [etc EXCEPT ![g] = IF saved[g] # None THEN saved[g] ELSE etc[g]]
        /\ pc = "restore" /\ about = g
    BY <1>1, <2>1, <2>2 DEF IInv, FilesKept, RestoreFile, AtFile
  <2>4. CASE f = g
    BY <1>1, <2>3, <2>4 DEF IInv, TypeOK, FileKept
  <2>5. CASE f # g
    <3>1. f = First /\ g # First
      BY <2>2, <2>5, FilesAssumption DEF IsLast
    <3>2. QED BY <1>1, <2>3, <2>5, <3>1 DEF IInv, TypeOK, FileKept
  <2>6. QED BY <2>4, <2>5
<1>2. IInv /\ [Next]_vars =>
        [Succeeds("stop") =>
           \A f \in Files : own[f] # "absent" =>
             etc'[f] = own[f] \/ saved[f] = Empty \/ f \in edited]_vars
  BY <1>1
<1>3. QED BY <1>2, InitIInv, NextIInv, PTL DEF Spec, StopRestoresFiles

\* A stop that succeeds leaves no tun2socks, neither running nor about to.
THEOREM NoTun2SocksLeft == Spec => StopLeavesNoTun2Socks
<1>1. ASSUME IInv, [Next]_vars, Succeeds("stop"), Sole, NEW p \in Pids
      PROVE  proc'[p] \notin {"launching", "starting", "running"}
  <2>1. PICK g \in Files : RestoreFile(g)
    BY <1>1, SuccessIsAStep DEF IInv
  <2>2. pc = "restore" /\ proc' = proc
    BY <2>1 DEF RestoreFile, AtFile, processes
  <2>3. QED BY <1>1, <2>2 DEF IInv, OneTun, Live
<1>2. IInv /\ [Next]_vars =>
        [Succeeds("stop") /\ Without({"fails", "crash", "lingers", "foreign"}) =>
           \A p \in Pids : proc'[p] \notin {"launching", "starting", "running"}]_vars
  BY <1>1 DEF Sole, Without
<1>3. QED BY <1>2, InitIInv, NextIInv, PTL DEF Spec, StopLeavesNoTun2Socks

\* A stop that succeeds leaves the machine on the route of the network it is on.
THEOREM RouteComesBack == Spec => StopRestoresRoute
<1>1. ASSUME IInv, [Next]_vars, Succeeds("stop"), Faithful
      PROVE  route' = uplink
  <2>1. PICK g \in Files : RestoreFile(g)
    BY <1>1, SuccessIsAStep DEF IInv
  <2>2. pc = "restore" /\ route' = route
    BY <2>1 DEF RestoreFile, AtFile, network
  <2>3. QED BY <1>1, <2>2 DEF IInv, TypeOK, Routes, Reversible, RouteValid
<1>2. IInv /\ [Next]_vars =>
        [Succeeds("stop")
         /\ Without({"dies", "fails", "crash", "lingers", "foreign"}) => route' = uplink]_vars
  BY <1>1 DEF Faithful
<1>3. QED BY <1>2, InitIInv, NextIInv, PTL DEF Spec, StopRestoresRoute

\* An init that succeeds undisturbed leaves the route on a device that is up and has
\* its tun2socks.
THEOREM InitBridges == Spec => InitMeansBridged
<1>1. ASSUME IInv, [Next]_vars, Succeeds("init"), calm, Prompt
      PROVE  /\ route' = "tun" /\ link' = "up"
             /\ \E p \in Pids : proc'[p] \in {"starting", "running"}
  <2>1. AlreadyEnabled \/ KeepRunning \/ RecordWrites
    BY <1>1, SuccessIsAStep DEF IInv
  <2>2. route = "tun"
    BY <1>1, <2>1 DEF IInv, AlreadyEnabled, KeepRunning, RecordWrites, Undisturbed, Tunnelled,
      Recording, At
  <2>3. Listed # {}
    <3>1. CASE RecordWrites
      BY <1>1, <3>1 DEF IInv, Found, RecordWrites, Recording, At
    <3>2. CASE IsRunning
      <4>1. Listed # {} \/ \E p \in Pids : proc[p] = "foreign" \/ p \in Listed
        BY <1>1, <3>2 DEF IInv, TypeOK, IsRunning
      <4>2. QED BY <1>1, <4>1 DEF IInv, NoOthers
    <3>3. QED BY <2>1, <3>1, <3>2 DEF AlreadyEnabled, KeepRunning
  <2>4. UNCHANGED <<route, link, proc>>
    BY <2>1 DEF AlreadyEnabled, KeepRunning, RecordWrites, network, processes
  <2>5. QED BY <1>1, <2>2, <2>3, <2>4 DEF IInv, RouteValid, Listed, NoOthers
<1>2. IInv /\ [Next]_vars =>
        [Succeeds("init") /\ calm /\ Without({"lingers", "foreign"}) =>
           /\ route' = "tun" /\ link' = "up"
           /\ \E p \in Pids : proc'[p] \in {"starting", "running"}]_vars
  BY <1>1 DEF Prompt
<1>3. QED BY <1>2, InitIInv, NextIInv, PTL DEF Spec, InitMeansBridged

\* What an undisturbed init launched, and all that runs, proxies to the gateway of
\* the network the machine is on, and config.yaml says so.
THEOREM ProxiesToTheNetwork == Spec => GatewayFollowsNetwork
<1>1. ASSUME IInv, [Next]_vars, Succeeds("init"), calm, restarted = TRUE, line \in Uplinks, Sole
      PROVE  /\ socks' = uplink
             /\ \A p \in Pids : proc'[p] \in {"launching", "starting", "running"} =>
                  via'[p] = uplink
  <2>1. AlreadyEnabled \/ KeepRunning \/ RecordWrites
    BY <1>1, SuccessIsAStep DEF IInv
  <2>2. RecordWrites
    BY <1>1, <2>1 DEF IInv, NotYetRestarted, InitSteps, Recording, AlreadyEnabled, KeepRunning, At
  <2>3. pc \in Recording /\ UNCHANGED <<socks, proc, via>>
    BY <2>2 DEF RecordWrites, Recording, At, processes
  <2>4. socks = uplink
    BY <1>1, <2>3 DEF IInv, Undisturbed, AfterSave, Tunnelled
  <2>5. QED BY <1>1, <2>3, <2>4 DEF IInv, ProxiedLive, Live
<1>2. IInv /\ [Next]_vars =>
        [Succeeds("init") /\ calm /\ restarted /\ line \in Uplinks
         /\ Without({"lingers", "foreign", "fails", "crash"}) =>
           /\ socks' = uplink
           /\ \A p \in Pids : proc'[p] \in {"launching", "starting", "running"} =>
                via'[p] = uplink]_vars
  BY <1>1 DEF Sole, IInv, TypeOK
<1>3. QED BY <1>2, InitIInv, NextIInv, PTL DEF Spec, GatewayFollowsNetwork
=============================================================================
