------------------------------ MODULE SystemProofs ------------------------------
(***************************************************************************)
(* Proofs about System, for one command line and any services, targets,    *)
(* ports, pids, connections and keys: what the commands do is what         *)
(* ProxySessions expects of its environment, and nothing is left of the    *)
(* sessions once the proxy has been stopped.                               *)
(***************************************************************************)
EXTENDS System, DbCommandsProofs

-----------------------------------------------------------------------------
(* What a command does to the routes and to the process                     *)

\* The routes are written to a file that has been truncated.
Truncated == \A i \in Clis : pc[i] = "routesWrite" => routes = Unreadable

\* Three steps of a command change the routes.
LEMMA WhoWritesRoutes ==
  ASSUME [Next]_vars
  PROVE  \/ UNCHANGED routes
         \/ \E i \in Clis : RoutesTruncate(i) \/ RoutesWrite(i) \/ DropRoutes(i)
<1> USE DEF files
<1>1. ASSUME NEW i \in Clis, NEW o \in Commands, NEW s \in Services \cup {None}, Invoke(i, o, s)
      PROVE  UNCHANGED routes
  BY <1>1 DEF Invoke
<1>2. ASSUME NEW i \in Clis, Step(i)
      PROVE  UNCHANGED routes \/ RoutesTruncate(i) \/ RoutesWrite(i) \/ DropRoutes(i)
  BY <1>2 DEF Step, LoadRefuses, LoadNothingToDo, Load, EditFails, Edit, SaveTruncates,
    SaveWrites, CheckRunning, Ensure, Kill, CleanPid, CleanMeta, Spawn, SpawnFails, Ready,
    NotReady, RecordTruncates, RecordPid, RecordMetaTruncates, RecordMeta
<1>3. ASSUME NEW p \in Pids, Bind(p) \/ BindFails(p) PROVE UNCHANGED routes
  BY <1>3 DEF Bind, BindFails
<1>4. CASE Environment
  BY <1>4 DEF Environment, Reboot, CommandCrashes, DaemonDies, ForeignStarts, ForeignExits,
    PortTaken, PortReleased
<1>5. QED BY <1>1, <1>2, <1>3, <1>4 DEF Next, vars

\* Only a command that has truncated the routes writes them.
LEMMA TruncatedKept ==
  ASSUME OneCommandLine, TypeOK, Truncated, [Next]_vars
  PROVE  Truncated'
<1>1. PICK i \in Clis : Clis = {i}
  BY DEF OneCommandLine
<1>2. CASE RoutesTruncate(i)
  BY <1>1, <1>2 DEF Truncated, RoutesTruncate
<1>3. CASE RoutesWrite(i) \/ DropRoutes(i)
  BY <1>1, <1>3 DEF Truncated, TypeOK, RoutesWrite, DropRoutes, Exit, Goto
<1>4. CASE UNCHANGED routes /\ ~RoutesTruncate(i)
  <2>1. pc'[i] = "routesWrite" => pc[i] = "routesWrite"
    <3> USE DEF TypeOK, Goto, Exit
    <3>1. ASSUME NEW o \in Commands, NEW s \in Services \cup {None}, Invoke(i, o, s)
          PROVE  pc'[i] # "routesWrite"
      BY <3>1 DEF Invoke
    <3>2. CASE Step(i)
      BY <1>4, <3>2 DEF Step, LoadRefuses, LoadNothingToDo, Load, EditFails, Edit, SaveTruncates,
        SaveWrites, RoutesWrite, CheckRunning, Ensure, Kill, CleanPid, CleanMeta, DropRoutes, Spawn,
        SpawnFails, Ready, NotReady, RecordTruncates, RecordPid, RecordMetaTruncates, RecordMeta
    <3>3. ASSUME NEW p \in Pids, Bind(p) \/ BindFails(p) PROVE UNCHANGED pc
      BY <3>3 DEF Bind, BindFails
    <3>4. CASE Environment
      BY <1>1, <3>4 DEF Environment, Reboot, CommandCrashes, DaemonDies, ForeignStarts, ForeignExits,
        PortTaken, PortReleased
    <3>5. QED BY <1>1, <3>1, <3>2, <3>3, <3>4 DEF Next, vars
  <2>2. QED BY <1>1, <1>4, <2>1 DEF Truncated
<1>5. QED BY <1>1, <1>2, <1>3, <1>4, WhoWritesRoutes

\* The maps the commands write for the proxy have a service.
Offers == {m \in Maps : Names(m) # {}}

\* A step leaves the routes alone, or it leaves the process alone and truncates the
\* file or fills a truncated one.
LEMMA CommandEffect ==
  ASSUME OneCommandLine, TypeOK, Truncated, \A i \in Clis : Filed(i), [Next]_vars
  PROVE  \/ UNCHANGED routes
         \/ (Serving <=> Serving') /\ routes' = Unreadable
         \/ (Serving <=> Serving') /\ routes = Unreadable /\ routes' \in Offers
<1>1. ASSUME NEW i \in Clis, RoutesTruncate(i)
      PROVE  (Serving <=> Serving') /\ routes' = Unreadable
  BY <1>1 DEF RoutesTruncate, Serving, Listening, procs
<1>2. ASSUME NEW i \in Clis, RoutesWrite(i)
      PROVE  (Serving <=> Serving') /\ routes = Unreadable /\ routes' \in Offers
  <2>1. Serving <=> Serving'
    BY <1>2 DEF RoutesWrite, Serving, Listening, procs
  <2>2. cfg[i].targets \in Maps
    BY DEF TypeOK, Configs
  <2>3. Names(cfg[i].targets) # {}
    BY <1>2 DEF RoutesWrite, Filed
  <2>4. QED BY <1>2, <2>1, <2>2, <2>3 DEF RoutesWrite, Truncated, Offers
<1>3. ASSUME NEW i \in Clis, DropRoutes(i)
      PROVE  (Serving <=> Serving') /\ routes' = Unreadable
  <2>1. UNCHANGED port /\ \A p \in Pids : kind'[p] = "proxy" <=> kind[p] = "proxy"
    BY <1>3 DEF DropRoutes, Exit, TypeOK
  <2>2. QED BY <1>3, <2>1 DEF DropRoutes, Serving, Listening
<1>4. QED BY <1>1, <1>2, <1>3, WhoWritesRoutes

-----------------------------------------------------------------------------
(* What the sessions make of it                                             *)

\* What is kept for each connection and for each key.
Shapes ==
  /\ registry = [k \in CancelKeys |-> registry[k]]
  /\ phase = [c \in Conns |-> phase[c]]
  /\ snapshot = [c \in Conns |-> snapshot[c]]
  /\ asked = [c \in Conns |-> asked[c]]
  /\ target = [c \in Conns |-> target[c]]
  /\ down = [c \in Conns |-> down[c]]
  /\ offered = [c \in Conns |-> offered[c]]

\* The history of the file is complete for those that may still read it.
Watched == \A c \in Conns : S!InStartup(c) => S!Pairs(routes) \subseteq offered[c]

\* The commands keep to what sessions expect of the file.
FilesTame == TypeOK /\ Underway /\ Truncated /\ \A i \in Clis : Filed(i)

\* A step of a command is one of the environment of ProxySessions, or none for it.
LEMMA CommandIsExpected ==
  ASSUME OneCommandLine, FilesTame, Shapes, Watched, CommandStep
  PROVE  S!Next \/ UNCHANGED S!vars
<1> USE DEF S!vars, S!fileVars, S!startVars, S!relayVars, S!peerVars, S!keyVars
<1>1. React
  BY DEF CommandStep
<1>2. \/ UNCHANGED routes
      \/ (Serving <=> Serving') /\ routes' = Unreadable
      \/ (Serving <=> Serving') /\ routes = Unreadable /\ routes' \in Offers
  BY CommandEffect DEF FilesTame, CommandStep
<1>3. CASE Serving /\ ~Serving'
  <2>1. UNCHANGED routes
    BY <1>2, <1>3
  <2>2. S!DaemonExits
    BY <1>1, <1>3, <2>1 DEF React, S!DaemonExits, S!Started
  <2>3. QED BY <2>2 DEF S!Next, S!Process
<1>4. CASE ~(Serving /\ ~Serving')
  <2>1. /\ UNCHANGED <<registry, phase, snapshot, attempts, deadline, asked, target, up, down,
                       cancelKey, client, server, wire, issuer, known>>
        /\ offered' = [c \in Conns |-> IF S!InStartup(c) THEN offered[c] \cup S!Pairs(routes')
                                       ELSE offered[c]]
    BY <1>1, <1>4 DEF React, Shapes
  <2>2. ASSUME S!Pairs(routes') \in {{}, S!Pairs(routes)}
        PROVE  UNCHANGED offered
    BY <2>1, <2>2 DEF Shapes, Watched
  <2>3. CASE UNCHANGED routes
    <3>1. UNCHANGED offered
      BY <2>2, <2>3
    <3>2. CASE ~Serving /\ Serving'
      BY <2>1, <2>3, <3>1, <3>2 DEF S!Next, S!Process, S!StartDaemon
    <3>3. CASE Serving <=> Serving'
      BY <2>1, <2>3, <3>1, <3>3
    <3>4. QED BY <1>4, <3>2, <3>3
  <2>4. CASE (Serving <=> Serving') /\ routes' = Unreadable /\ routes # Unreadable
    <3>1. UNCHANGED offered
      BY <2>2, <2>4, RoutesAssumption DEF S!Pairs
    <3>2. QED BY <2>1, <2>4, <3>1 DEF S!Next, S!Process, S!TruncateRoutes
  <2>5. CASE (Serving <=> Serving') /\ routes = Unreadable /\ routes' \in Offers
    <3>1. S!WriteRoutes(routes')
      BY <2>1, <2>5 DEF S!WriteRoutes
    <3>2. QED BY <2>5, <3>1 DEF S!Next, S!Process, Offers
  <2>6. QED BY <1>2, <2>3, <2>4, <2>5
<1>5. QED BY <1>3, <1>4

\* A step of a session is one of ProxySessions.
LEMMA SessionIsExpected == SessionStep => S!Next
BY DEF SessionStep, S!Next

\* Every step is one of ProxySessions, or none for it.
LEMMA StepIsExpected ==
  ASSUME OneCommandLine, FilesTame, Shapes, Watched, [SystemNext]_systemVars
  PROVE  [S!Next]_(S!vars)
<1>1. CASE UNCHANGED systemVars
  BY <1>1 DEF systemVars, sessionVars, vars, Serving, Listening, S!vars
<1>2. QED BY <1>1, CommandIsExpected, SessionIsExpected DEF SystemNext

-----------------------------------------------------------------------------
(* The port of the daemon                                                   *)

\* A daemon has the port of db-proxy.json or, until the command has written that
\* file, of the command that started or kept it.  A command that replaces a daemon
\* has seen that the ports differ.
PortKnown(i) ==
  /\ pc[i] \in Recording \cup {"recordMeta", "recordMetaWrite"} =>
       \A p \in Pids : IsDaemon(p) => port[p] = cfg[i].port
  /\ pc[i] \notin Recording \cup {"recordMeta", "recordMetaWrite"} =>
       \A p \in Pids : IsDaemon(p) => port[p] = metaFile
  /\ pc[i] = "kill" /\ op[i] # "stop" /\ Names(cfg[i].targets) # {} => metaFile # cfg[i].port

\* Nothing that ends processes changes the port of a daemon.
LEMMA FewerPorts ==
  ASSUME NEW i \in Clis, PortKnown(i), UNCHANGED <<pc, op, cfg, metaFile>>,
         \A p \in Pids : IsDaemon(p)' => IsDaemon(p) /\ port'[p] = port[p]
  PROVE  PortKnown(i)'
BY DEF PortKnown

\* A step of the only command keeps track of the port of the daemon.
LEMMA StepPorts ==
  ASSUME TypeOK, Underway, NEW i \in Clis, Without({"crash", "slow"}), Known(i),
         PortKnown(i), Step(i)
  PROVE  PortKnown(i)'
<1> USE DEF files, procs, locals, history
<1>1. CASE LoadRefuses(i)
  BY <1>1 DEF TypeOK, PortKnown, IsDaemon, Recording, LoadRefuses, Exit, Goto
<1>2. CASE LoadNothingToDo(i)
  BY <1>2 DEF TypeOK, PortKnown, IsDaemon, Recording, LoadNothingToDo, Exit, Goto
<1>3. CASE Load(i)
  BY <1>3 DEF TypeOK, PortKnown, IsDaemon, Recording, Load, Goto
<1>4. CASE EditFails(i)
  BY <1>4 DEF TypeOK, PortKnown, IsDaemon, Recording, EditFails, Exit, Goto
<1>5. CASE Edit(i)
  BY <1>5 DEF TypeOK, PortKnown, IsDaemon, Recording, Edit, Goto
<1>6. CASE SaveTruncates(i)
  BY <1>6 DEF TypeOK, PortKnown, IsDaemon, Recording, SaveTruncates, Goto
<1>7. CASE SaveWrites(i)
  BY <1>7 DEF TypeOK, PortKnown, IsDaemon, Recording, SaveWrites, Exit, Goto
<1>8. CASE RoutesTruncate(i)
  BY <1>8 DEF TypeOK, PortKnown, IsDaemon, Recording, RoutesTruncate, Goto
<1>9. CASE RoutesWrite(i)
  BY <1>9 DEF TypeOK, PortKnown, IsDaemon, Recording, RoutesWrite, Goto
<1>10. CASE CheckRunning(i)
  BY <1>10 DEF TypeOK, PortKnown, IsDaemon, Recording, CheckRunning, Exit, Goto
<1>11. CASE Ensure(i)
  <2>1. /\ pc[i] = "ensure" /\ UNCHANGED <<kind, port, metaFile, cfg, op>>
        /\ \/ pc'[i] = "record" /\ metaFile = cfg[i].port
           \/ pc'[i] = "kill" /\ metaFile # cfg[i].port
           \/ pc'[i] = "spawn" /\ ~IsProxyRunning
    BY <1>11 DEF TypeOK, Ensure, Goto
  <2>2. \A p \in Pids : IsDaemon(p)' => port'[p] = metaFile
    BY <2>1 DEF PortKnown, IsDaemon, Recording
  <2>3. pc'[i] = "record" => \A p \in Pids : IsDaemon(p)' => port'[p] = cfg'[i].port
    BY <2>1, <2>2
  <2>4. QED BY <2>1, <2>2, <2>3 DEF PortKnown, Recording
<1>12. CASE Kill(i)
  BY <1>12 DEF TypeOK, PortKnown, IsDaemon, Recording, Kill, Goto, Gone, IsProxyRunning
<1>13. CASE CleanPid(i)
  BY <1>13 DEF TypeOK, PortKnown, IsDaemon, Recording, CleanPid, Goto, Known, Quiet
<1>14. CASE CleanMeta(i)
  BY <1>14 DEF TypeOK, PortKnown, IsDaemon, Recording, CleanMeta, Exit, Goto, Known, Quiet
<1>15. CASE DropRoutes(i)
  BY <1>15 DEF TypeOK, PortKnown, IsDaemon, Recording, DropRoutes, Exit, Goto, Known, Quiet
<1>16. CASE (\E p \in Pids : Spawn(i, p))
  BY <1>16 DEF TypeOK, PortKnown, IsDaemon, Recording, Spawn, Goto, Known, Quiet
<1>17. CASE SpawnFails(i)
  BY <1>17 DEF TypeOK, PortKnown, IsDaemon, Recording, SpawnFails, Exit, Goto
<1>18. CASE Ready(i)
  BY <1>18 DEF TypeOK, PortKnown, IsDaemon, Recording, Ready, Goto
<1>19. CASE NotReady(i)
  <2>1. kind[child[i]] = "dead" /\ pc[i] = "ready"
    BY <1>19 DEF NotReady, Without
  <2>2. \A p \in Pids : ~IsDaemon(p)
    BY <2>1 DEF Known, Recording, IsDaemon
  <2>3. QED BY <1>19, <2>2 DEF TypeOK, PortKnown, IsDaemon, NotReady, Exit, Goto
<1>20. CASE RecordTruncates(i)
  BY <1>20 DEF TypeOK, PortKnown, IsDaemon, Recording, RecordTruncates, Goto
<1>21. CASE RecordPid(i)
  BY <1>21 DEF TypeOK, PortKnown, IsDaemon, Recording, RecordPid, Goto
<1>22. CASE RecordMetaTruncates(i)
  BY <1>22 DEF TypeOK, PortKnown, IsDaemon, Recording, RecordMetaTruncates, Goto
<1>23. CASE RecordMeta(i)
  BY <1>23 DEF TypeOK, PortKnown, IsDaemon, Recording, RecordMeta, Exit, Goto
<1>24. QED
  BY <1>1, <1>2, <1>3, <1>4, <1>5, <1>6, <1>7, <1>8, <1>9, <1>10, <1>11, <1>12, <1>13, <1>14,
    <1>15, <1>16, <1>17, <1>18, <1>19, <1>20, <1>21, <1>22, <1>23 DEF Step

\* No step loses track of the port of the daemon.
LEMMA NextPorts ==
  ASSUME OneCommandLine, DaemonInv, Without({"crash", "slow"}), [Next]_vars,
         \A i \in Clis : PortKnown(i)
  PROVE  \A i \in Clis : PortKnown(i)'
<1> SUFFICES ASSUME NEW i \in Clis, Clis = {i} PROVE PortKnown(i)'
  BY DEF OneCommandLine
<1>1. TypeOK /\ Underway /\ Known(i) /\ PortKnown(i)
  BY DEF DaemonInv, DaemonKnown
<1>2. ASSUME NEW o \in Commands, NEW s \in Services \cup {None}, Invoke(i, o, s)
      PROVE  PortKnown(i)'
  BY <1>1, <1>2 DEF TypeOK, Invoke, Goto, procs, files, PortKnown, IsDaemon, Recording
<1>3. CASE Step(i)
  BY <1>1, <1>3, StepPorts
<1>4. ASSUME NEW p \in Pids, Bind(p) \/ BindFails(p) PROVE PortKnown(i)'
  <2>1. UNCHANGED <<pc, op, cfg, metaFile>>
    BY <1>4 DEF Bind, BindFails, files, locals
  <2>2. \A q \in Pids : IsDaemon(q)' => IsDaemon(q) /\ port'[q] = port[q]
    BY <1>1, <1>4 DEF TypeOK, Bind, BindFails, Gone, IsDaemon
  <2>3. QED BY <1>1, <2>1, <2>2, FewerPorts
<1>5. CASE Environment
  <2>1. CASE Reboot
    BY <1>1, <2>1 DEF TypeOK, Reboot, PortKnown, IsDaemon, Recording
  <2>2. ASSUME NEW j \in Clis, CommandCrashes(j) PROVE FALSE
    BY <2>2 DEF CommandCrashes, Without
  <2>3. ASSUME NEW p \in Pids, DaemonDies(p) \/ ForeignStarts(p) \/ ForeignExits(p)
        PROVE  PortKnown(i)'
    <3>1. UNCHANGED <<pc, op, cfg, metaFile>>
      BY <2>3 DEF DaemonDies, ForeignStarts, ForeignExits, files, locals
    <3>2. \A q \in Pids : IsDaemon(q)' => IsDaemon(q) /\ port'[q] = port[q]
      BY <1>1, <2>3 DEF TypeOK, DaemonDies, ForeignStarts, ForeignExits, Gone, IsDaemon
    <3>3. QED BY <1>1, <3>1, <3>2, FewerPorts
  <2>4. ASSUME NEW q \in Ports, PortTaken(q) \/ PortReleased(q) PROVE PortKnown(i)'
    BY <1>1, <2>4 DEF PortTaken, PortReleased, files, procs, locals, PortKnown, IsDaemon
  <2>5. QED BY <1>5, <2>1, <2>2, <2>3, <2>4 DEF Environment
<1>6. CASE UNCHANGED vars
  BY <1>1, <1>6 DEF PortKnown, IsDaemon, vars
<1>7. QED BY <1>2, <1>3, <1>4, <1>5, <1>6 DEF Next

-----------------------------------------------------------------------------
(* The invariant of the sessions                                            *)

\* A session is relayed while its relay goroutine has not been waited for.
Relaying == \A c \in Conns : down[c] # "off" => phase[c] = "relay"

\* Where no process listens there is no connection and no key.
NothingLeft ==
  ~Serving =>
    /\ \A c \in Conns : phase[c] \notin S!Started
    /\ registry = [k \in CancelKeys |-> None]

\* A client is fresh while no command runs, and has then read the routes of the
\* configuration.
FreshRoutes ==
  \A c \in Conns :
    /\ fresh[c] => AllIdle
    /\ Without({"crash", "reboot"}) /\ fresh[c] /\ phase[c] = "reading" =>
         snapshot[c] = config.targets

SessionsInv == Shapes /\ Watched /\ Relaying /\ NothingLeft /\ FreshRoutes

\* There is no session to begin with.
LEMMA InitSessions == SystemInit => SessionsInv
BY DEF SystemInit, Init, S!Init, SessionsInv, Shapes, Watched, Relaying, NothingLeft,
  FreshRoutes, Serving, Listening, AllIdle, S!InStartup, S!Started

\* The configuration is only written by commands.
LEMMA IdleKeepsConfig ==
  ASSUME TypeOK, AllIdle, AllIdle', Next
  PROVE  UNCHANGED config
<1> USE DEF AllIdle, TypeOK
<1>1. ASSUME NEW i \in Clis, NEW o \in Commands, NEW s \in Services \cup {None}, Invoke(i, o, s)
      PROVE  FALSE
  BY <1>1 DEF Invoke, Goto
<1>2. ASSUME NEW i \in Clis, Step(i) PROVE FALSE
  BY <1>2 DEF Step, LoadRefuses, LoadNothingToDo, Load, EditFails, Edit, SaveTruncates,
    SaveWrites, RoutesTruncate, RoutesWrite, CheckRunning, Ensure, Kill, CleanPid, CleanMeta,
    DropRoutes, Spawn, SpawnFails, Ready, NotReady, RecordTruncates, RecordPid,
    RecordMetaTruncates, RecordMeta
<1>3. ASSUME NEW p \in Pids, Bind(p) \/ BindFails(p) PROVE UNCHANGED config
  BY <1>3 DEF Bind, BindFails, files
<1>4. CASE Environment
  BY <1>4 DEF Environment, Reboot, CommandCrashes, DaemonDies, ForeignStarts, ForeignExits,
    PortTaken, PortReleased, files
<1>5. QED BY <1>1, <1>2, <1>3, <1>4 DEF Next

\* What is known of the sessions stays true whatever a command does.
LEMMA CommandSessions ==
  ASSUME TypeOK, SessionsInv, CommandStep
  PROVE  SessionsInv'
<1> DEFINE ends == Serving /\ ~Serving'
<1>1. React /\ Remember /\ Next /\ faults' = faults
  BY SameFaults DEF CommandStep
<1>2. CASE ends
  <2>1. /\ registry' = [k \in CancelKeys |-> None]
        /\ phase' = [c \in Conns |-> IF phase[c] \in S!Started THEN "killed" ELSE phase[c]]
        /\ snapshot' = [c \in Conns |-> None]
        /\ down' = [c \in Conns |-> "off"]
        /\ offered' = [c \in Conns |-> {}]
        /\ UNCHANGED <<asked, target>>
    BY <1>1, <1>2 DEF React
  <2>2. \A c \in Conns : phase'[c] \notin S!Started /\ (phase'[c] = "idle" => phase[c] = "idle")
    BY <2>1 DEF S!Started
  <2>3. Shapes' /\ Watched' /\ Relaying' /\ NothingLeft'
    BY <2>1, <2>2 DEF SessionsInv, Shapes, Watched, Relaying, NothingLeft, S!InStartup, S!Started
  <2>4. FreshRoutes'
    BY <1>1, <2>1, <2>2 DEF SessionsInv, FreshRoutes, Remember, S!Started
  <2>5. QED BY <2>3, <2>4 DEF SessionsInv
<1>3. CASE ~ends
  <2>1. /\ UNCHANGED <<registry, phase, snapshot, asked, target, down>>
        /\ offered' = [c \in Conns |-> IF S!InStartup(c) THEN offered[c] \cup S!Pairs(routes')
                                       ELSE offered[c]]
    BY <1>1, <1>3 DEF React, SessionsInv, Shapes
  <2>2. Shapes' /\ Watched' /\ Relaying'
    BY <2>1 DEF SessionsInv, Shapes, Watched, Relaying, S!InStartup, S!Pairs
  <2>3. NothingLeft'
    BY <1>3, <2>1 DEF SessionsInv, NothingLeft
  <2>4. \A c \in Conns : fresh'[c] => fresh[c] /\ AllIdle'
    BY <1>1, <2>1 DEF Remember
  <2>5. \A c \in Conns : fresh'[c] => UNCHANGED config
    BY <1>1, <2>4, IdleKeepsConfig DEF SessionsInv, FreshRoutes
  <2>6. FreshRoutes'
    BY <1>1, <2>1, <2>4, <2>5 DEF SessionsInv, FreshRoutes, Without
  <2>7. QED BY <2>2, <2>3, <2>6 DEF SessionsInv
<1>4. QED BY <1>2, <1>3

\* What a step of a connection leaves alone.
LEMMA ConnectionLocal ==
  ASSUME NEW c \in Conns, Shapes,
         S!Accept(c) \/ S!Main(c) \/ S!Opening(c) \/ S!Up(c) \/ S!Down(c) \/ S!Peers(c)
  PROVE  /\ Shapes'
         /\ \A d \in Conns \ {c} : /\ phase'[d] = phase[d] /\ offered'[d] = offered[d]
                                   /\ asked'[d] = asked[d] /\ snapshot'[d] = snapshot[d]
                                   /\ target'[d] = target[d] /\ down'[d] = down[d]
<1> USE DEF Shapes, S!fileVars, S!startVars, S!relayVars, S!peerVars, S!keyVars
<1>1. CASE S!Accept(c)
  BY <1>1 DEF S!Accept
<1>2. CASE S!Main(c)
  <2>1. CASE S!LoadRoutes(c)
    BY <2>1 DEF S!LoadRoutes, S!LeaveStartup
  <2>2. CASE S!ReadEOF(c) \/ S!DeadlineFires(c)
    BY <2>2 DEF S!ReadEOF, S!DeadlineFires, S!LeaveStartup
  <2>3. ASSUME NEW k \in CancelKeys, S!ReadCancel(c, k)
        PROVE  /\ Shapes' /\ UNCHANGED <<asked, target, down>>
               /\ phase' = [phase EXCEPT ![c] = "cancel"]
               /\ snapshot' = [snapshot EXCEPT ![c] = None]
               /\ offered' = [offered EXCEPT ![c] = {}]
    BY <2>3 DEF S!ReadCancel, S!LeaveStartup
  <2>4. ASSUME NEW d \in Services, S!ReadStartup(c, d)
        PROVE  /\ Shapes' /\ UNCHANGED <<asked, down>>
               /\ target' = [target EXCEPT ![c] = snapshot[c][d]]
               /\ \E next \in {"rejected", "dial"} : phase' = [phase EXCEPT ![c] = next]
               /\ snapshot' = [snapshot EXCEPT ![c] = None]
               /\ offered' = [offered EXCEPT ![c] = {}]
    BY <2>4 DEF S!ReadStartup, S!LeaveStartup
  <2>5. CASE S!Lookup(c) \/ S!CancelForward(c) \/ S!CancelUnreachable(c)
    BY <2>5 DEF S!Lookup, S!CancelForward, S!CancelUnreachable
  <2>6. CASE S!Dial(c) \/ S!DialFails(c) \/ S!SendStartup(c) \/ S!SendFails(c)
    BY <2>6 DEF S!Dial, S!DialFails, S!SendStartup, S!SendFails
  <2>7. CASE S!Finish(c)
    BY <2>7 DEF S!Finish, S!Close, S!DeleteKey
  <2>8. QED BY <1>2, <2>1, <2>2, <2>3, <2>4, <2>5, <2>6, <2>7 DEF S!Main
<1>3. CASE S!Opening(c)
  BY <1>3 DEF S!Opening, S!ReadNegotiation, S!RejectPacket, S!LeaveStartup
<1>4. CASE S!Up(c)
  BY <1>4 DEF S!Up, S!ClientData, S!UpWritten, S!UpReadEnds, S!UpWriteFails
<1>5. CASE S!Down(c)
  BY <1>5 DEF S!Down, S!RelayKeyData, S!ForwardKey, S!ServerData, S!DownWritten,
    S!DownReadEnds, S!DownWriteFails
<1>6. CASE S!Peers(c)
  BY <1>6 DEF S!Peers, S!ClientAsks, S!ClientShut, S!ClientClose, S!ServerGarbles,
    S!ServerClose, S!IssueKey
<1>7. QED BY <1>1, <1>2, <1>3, <1>4, <1>5, <1>6

\* What it does to the connection itself, as far as the invariant goes.
LEMMA ConnectionMoves ==
  ASSUME NEW c \in Conns, Shapes, down[c] # "off" => phase[c] = "relay",
         S!Accept(c) \/ S!Main(c) \/ S!Opening(c) \/ S!Up(c) \/ S!Down(c) \/ S!Peers(c)
  PROVE  /\ down'[c] # "off" => phase'[c] = "relay"
         /\ \/ /\ Serving /\ phase[c] = "idle" /\ phase'[c] = "accepted"
               /\ offered'[c] = S!Pairs(routes)
            \/ /\ phase[c] = "accepted"
               /\ \/ phase'[c] = "refused" /\ routes = Unreadable
                  \/ /\ phase'[c] = "reading" /\ routes # Unreadable
                     /\ snapshot'[c] = routes /\ offered'[c] = offered[c]
            \/ /\ phase[c] = "reading" /\ phase'[c] \notin {"idle", "accepted", "reading"}
               /\ asked[c] \in Services /\ phase'[c] \in {"dial", "rejected"} =>
                    /\ target'[c] = snapshot[c][asked[c]]
                    /\ phase'[c] = IF snapshot[c][asked[c]] = None THEN "rejected" ELSE "dial"
            \/ /\ phase[c] \in S!Started \ {"accepted", "reading"}
               /\ phase'[c] \notin {"idle", "accepted", "reading"}
            \/ /\ UNCHANGED <<phase, snapshot, offered>>
               /\ phase[c] \in S!Started \/ UNCHANGED <<registry, down>>
<1> USE DEF Shapes, S!fileVars, S!startVars, S!relayVars, S!peerVars, S!keyVars, S!Started
<1>1. CASE S!Accept(c)
  BY <1>1 DEF S!Accept
<1>2. CASE S!Main(c)
  <2>1. CASE S!LoadRoutes(c)
    BY <2>1 DEF S!LoadRoutes, S!LeaveStartup
  <2>2. CASE S!ReadEOF(c) \/ S!DeadlineFires(c)
    BY <2>2 DEF S!ReadEOF, S!DeadlineFires, S!LeaveStartup
  <2>3. ASSUME NEW k \in CancelKeys, S!ReadCancel(c, k)
        PROVE  phase[c] = "reading" /\ phase'[c] = "cancel" /\ UNCHANGED down
    BY <2>3 DEF S!ReadCancel, S!LeaveStartup
  <2>4. ASSUME NEW d \in Services, S!ReadStartup(c, d)
        PROVE  /\ asked[c] = d /\ target'[c] = snapshot[c][d] /\ phase[c] = "reading"
               /\ phase'[c] = IF snapshot[c][d] = None THEN "rejected" ELSE "dial"
               /\ UNCHANGED down
    BY <2>4 DEF S!ReadStartup, S!LeaveStartup
  <2>5. CASE S!Lookup(c) \/ S!CancelForward(c) \/ S!CancelUnreachable(c)
    BY <2>5 DEF S!Lookup, S!CancelForward, S!CancelUnreachable
  <2>6. CASE S!Dial(c) \/ S!DialFails(c) \/ S!SendStartup(c) \/ S!SendFails(c)
    BY <2>6 DEF S!Dial, S!DialFails, S!SendStartup, S!SendFails
  <2>7. CASE S!Finish(c)
    BY <2>7 DEF S!Finish, S!Close, S!DeleteKey
  <2>8. QED BY <1>2, <2>1, <2>2, <2>3, <2>4, <2>5, <2>6, <2>7 DEF S!Main
<1>3. CASE S!Opening(c)
  <2>1. CASE S!ReadNegotiation(c)
    BY <2>1, NoneAssumption DEF S!ReadNegotiation, S!LeaveStartup
  <2>2. CASE S!RejectPacket(c)
    BY <2>2, NoneAssumption DEF S!RejectPacket, S!LeaveStartup
  <2>3. QED BY <1>3, <2>1, <2>2 DEF S!Opening
<1>4. CASE S!Up(c)
  BY <1>4 DEF S!Up, S!ClientData, S!UpWritten, S!UpReadEnds, S!UpWriteFails
<1>5. CASE S!Down(c)
  BY <1>5 DEF S!Down, S!RelayKeyData, S!ForwardKey, S!ServerData, S!DownWritten,
    S!DownReadEnds, S!DownWriteFails
<1>6. CASE S!Peers(c)
  BY <1>6 DEF S!Peers, S!ClientAsks, S!ClientShut, S!ClientClose, S!ServerGarbles,
    S!ServerClose, S!IssueKey
<1>7. QED BY <1>1, <1>2, <1>3, <1>4, <1>5, <1>6

\* What is known of the sessions stays true in their own steps.
LEMMA SessionSessions ==
  ASSUME TypeOK, \A i \in Clis : Without({"crash", "reboot"}) => Followed(i), OneCommandLine,
         SessionsInv, SessionStep
  PROVE  SessionsInv'
<1>1. PICK c \in Conns :
        S!Accept(c) \/ S!Main(c) \/ S!Opening(c) \/ S!Up(c) \/ S!Down(c) \/ S!Peers(c)
  BY DEF SessionStep
<1>2. UNCHANGED vars /\ Remember /\ (Serving <=> Serving') /\ (AllIdle <=> AllIdle')
  BY DEF SessionStep, vars, Serving, Listening, AllIdle
<1>3. /\ Shapes'
      /\ \A d \in Conns \ {c} : /\ phase'[d] = phase[d] /\ offered'[d] = offered[d]
                                /\ asked'[d] = asked[d] /\ snapshot'[d] = snapshot[d]
                                /\ target'[d] = target[d] /\ down'[d] = down[d]
  BY <1>1, ConnectionLocal DEF SessionsInv
<1> DEFINE accepts == /\ Serving /\ phase[c] = "idle" /\ phase'[c] = "accepted"
                      /\ offered'[c] = S!Pairs(routes)
           loads == /\ phase[c] = "accepted"
                    /\ \/ phase'[c] = "refused" /\ routes = Unreadable
                       \/ /\ phase'[c] = "reading" /\ routes # Unreadable
                          /\ snapshot'[c] = routes /\ offered'[c] = offered[c]
           leaves == phase[c] = "reading" /\ phase'[c] \notin {"idle", "accepted", "reading"}
           goesOn == /\ phase[c] \in S!Started \ {"accepted", "reading"}
                     /\ phase'[c] \notin {"idle", "accepted", "reading"}
           stays == /\ UNCHANGED <<phase, snapshot, offered>>
                    /\ phase[c] \in S!Started \/ UNCHANGED <<registry, down>>
<1>4. /\ down'[c] # "off" => phase'[c] = "relay"
      /\ accepts \/ loads \/ leaves \/ goesOn \/ stays
  BY <1>1, ConnectionMoves DEF SessionsInv, Relaying
<1>5. Relaying'
  BY <1>3, <1>4 DEF SessionsInv, Relaying
<1>6. Watched'
  BY <1>2, <1>3, <1>4 DEF SessionsInv, Watched, S!InStartup, S!Pairs, vars
<1>7. NothingLeft'
  BY <1>2, <1>3, <1>4 DEF SessionsInv, NothingLeft, S!Started
<1>8. AllIdle /\ Without({"crash", "reboot"}) /\ routes # Unreadable => routes = config.targets
  BY DEF OneCommandLine, AllIdle, Followed, Shown
<1>9. \A d \in Conns : fresh'[d] => AllIdle /\ (phase[d] # "idle" => fresh[d])
  BY <1>2 DEF Remember, SessionsInv, FreshRoutes
<1>10. FreshRoutes'
  BY <1>2, <1>3, <1>4, <1>8, <1>9 DEF SessionsInv, FreshRoutes, vars, Without
<1>11. QED BY <1>3, <1>5, <1>6, <1>7, <1>10 DEF SessionsInv

-----------------------------------------------------------------------------
(* The invariant, and what follows                                          *)

SystemInv ==
  /\ DaemonInv
  /\ FilesInv
  /\ Truncated
  /\ Without({"crash", "slow"}) => \A i \in Clis : PortKnown(i)
  /\ SessionsInv

\* The invariant holds before the first command.
LEMMA InitSystem == SystemInit => SystemInv
<1> SUFFICES ASSUME SystemInit PROVE SystemInv
  OBVIOUS
<1>1. Init
  BY DEF SystemInit
<1>2. Truncated /\ \A i \in Clis : PortKnown(i)
  BY <1>1 DEF Init, Truncated, PortKnown, Recording, IsDaemon
<1>3. QED BY <1>1, <1>2, InitDaemonInv, InitFiles, InitSessions DEF SystemInv

\* Sessions change nothing of the commands.
LEMMA CommandsStep == [SystemNext]_systemVars => [Next]_vars
BY DEF SystemNext, CommandStep, SessionStep, systemVars

\* The invariant is inductive.
LEMMA SystemInvKept ==
  ASSUME OneCommandLine
  PROVE  SystemInv /\ [SystemNext]_systemVars => SystemInv'
<1> SUFFICES ASSUME SystemInv, [SystemNext]_systemVars PROVE SystemInv'
  OBVIOUS
<1>1. [Next]_vars
  BY CommandsStep
<1>2. DaemonInv' /\ FilesInv'
  BY <1>1, DaemonInvKept, FilesInvKept DEF SystemInv
<1>3. TypeOK /\ Truncated'
  BY <1>1, TruncatedKept DEF SystemInv, FilesInv
<1>4. Without({"crash", "slow"})' => \A i \in Clis : PortKnown(i)'
  BY <1>1, NextPorts, SameFaults DEF SystemInv, Without
<1>5. CASE CommandStep
  BY <1>2, <1>3, <1>4, <1>5, CommandSessions DEF SystemInv
<1>6. CASE SessionStep
  <2>1. \A i \in Clis : Without({"crash", "reboot"}) => Followed(i)
    BY DEF SystemInv, FilesInv
  <2>2. SessionsInv'
    BY <1>3, <1>6, <2>1, SessionSessions DEF SystemInv
  <2>3. QED BY <1>2, <1>3, <1>4, <2>2 DEF SystemInv
<1>7. CASE UNCHANGED systemVars
  <2>1. SessionsInv'
    BY <1>7 DEF systemVars, sessionVars, vars, SystemInv, SessionsInv, Shapes, Watched, Relaying,
      NothingLeft, FreshRoutes, Serving, Listening, AllIdle, Without, S!InStartup, S!Pairs
  <2>2. QED BY <1>2, <1>3, <1>4, <2>1 DEF SystemInv
<1>8. QED BY <1>5, <1>6, <1>7 DEF SystemNext

\* With one command line, everything that commands, crashes and the machine do to
\* the routes and to the daemon is what ProxySessions expects of its environment.
THEOREM CommandsAreTheEnvironment ==
  ASSUME OneCommandLine
  PROVE  SystemSpec => SessionsFollowed
<1>1. SystemInit => S!Init
  BY DEF SystemInit
<1>2. SystemInv /\ [SystemNext]_systemVars => [S!Next]_(S!vars)
  BY StepIsExpected DEF SystemInv, FilesInv, FilesTame, SessionsInv
<1>3. SystemInv /\ [SystemNext]_systemVars => [Without({"crash", "slow"}) => S!Next]_(S!vars)
  BY <1>2
<1>4. SystemInv /\ [SystemNext]_systemVars => SystemInv'
  BY SystemInvKept
<1>5. QED BY <1>1, <1>3, <1>4, InitSystem, PTL DEF SystemSpec, SessionsFollowed

\* A stop that succeeds, and the removal of the last service, end the last session
\* and leave no key.
THEOREM StopEndsEverySession ==
  ASSUME OneCommandLine
  PROVE  SystemSpec => StopEndsSessions
<1>1. ASSUME SystemInv, SystemInv', [SystemNext]_systemVars, NEW i \in Clis,
             Without({"crash", "slow"}),
             op[i] = "stop" \/ (op[i] = "remove" /\ pc[i] = "dropRoutes"), Succeeds(i)
      PROVE  /\ \A c \in Conns : phase'[c] \notin S!Started
             /\ \A k \in CancelKeys : registry'[k] = None
  <2>1. [Next]_vars /\ TypeOK /\ Underway /\ Known(i)
    BY <1>1, CommandsStep DEF SystemInv, DaemonInv, DaemonKnown
  <2>2. \/ LoadNothingToDo(i) \/ SaveWrites(i) \/ CheckRunning(i) \/ CleanMeta(i)
        \/ DropRoutes(i) \/ RecordMeta(i)
    BY <1>1, <2>1, SuccessIsAStep
  <2>3. pc[i] \in {"kill", "cleanPid", "cleanMeta", "dropRoutes"}
    BY <1>1, <2>1 DEF Underway, Succeeds
  <2>4. CleanMeta(i) \/ DropRoutes(i)
    BY <2>2, <2>3 DEF LoadNothingToDo, SaveWrites, CheckRunning, RecordMeta
  <2>5. \A p \in Pids : ~IsDaemon(p)
    BY <2>1, <2>4 DEF Known, Quiet, CleanMeta, DropRoutes
  <2>6. Exit(i, "ok")
    BY <1>1, <2>1, <2>4 DEF CleanMeta, DropRoutes, Succeeds, TypeOK, Goto
  <2>7. ~Serving'
    BY <2>1, <2>5, <2>6 DEF Exit, Serving, Listening, IsDaemon, TypeOK
  <2>8. QED BY <1>1, <2>7 DEF SystemInv, SessionsInv, NothingLeft, S!Started
<1>2. SystemInv /\ [SystemNext]_systemVars => SystemInv'
  BY SystemInvKept
<1>3. SystemInv /\ SystemInv' /\ [SystemNext]_systemVars =>
        [\A i \in Clis :
           /\ Without({"crash", "slow"})
           /\ op[i] = "stop" \/ (op[i] = "remove" /\ pc[i] = "dropRoutes")
           /\ Succeeds(i)
           => /\ \A c \in Conns : phase'[c] \notin S!Started
              /\ \A k \in CancelKeys : registry'[k] = None]_systemVars
  BY <1>1
<1>4. QED BY <1>2, <1>3, InitSystem, PTL DEF SystemSpec, StopEndsSessions

\* A client that connects between commands is served by the configuration: it has
\* read the routes when they were complete and those of config.yaml.
THEOREM FreshClientsAreServed ==
  ASSUME OneCommandLine
  PROVE  SystemSpec => ServedAsConfigured
<1>1. ASSUME SystemInv, [SystemNext]_systemVars, NEW c \in Conns, fresh[c],
             Without({"crash", "reboot"})
      PROVE  /\ phase[c] = "accepted" /\ phase'[c] = "refused" => Names(config.targets) = {}
             /\ phase[c] = "reading" /\ asked[c] \in Services /\ phase'[c] \in {"dial", "rejected"} =>
                  IF config.targets[asked[c]] = None
                  THEN phase'[c] = "rejected"
                  ELSE phase'[c] = "dial" /\ target'[c] = config.targets[asked[c]]
  <2>1. /\ AllIdle
        /\ phase[c] = "reading" => snapshot[c] = config.targets
    BY <1>1 DEF SystemInv, SessionsInv, FreshRoutes
  <2>2. routes = Unreadable => Names(config.targets) = {}
    BY <1>1, <2>1, RoutesAssumption
    DEF SystemInv, FilesInv, TypeOK, Configs, OneCommandLine, AllIdle, Followed, Shown
  <2>3. ASSUME NEW d \in Conns,
               S!Accept(d) \/ S!Main(d) \/ S!Opening(d) \/ S!Up(d) \/ S!Down(d) \/ S!Peers(d)
        PROVE  /\ phase[c] = "accepted" /\ phase'[c] = "refused" => routes = Unreadable
               /\ phase[c] = "reading" /\ asked[c] \in Services /\ phase'[c] \in {"dial", "rejected"} =>
                    /\ target'[c] = snapshot[c][asked[c]]
                    /\ phase'[c] = IF snapshot[c][asked[c]] = None THEN "rejected" ELSE "dial"
    <3>1. Shapes /\ (down[d] # "off" => phase[d] = "relay")
      BY <1>1 DEF SystemInv, SessionsInv, Relaying
    <3>2. CASE d = c
      BY <2>1, <2>3, <3>1, <3>2, ConnectionMoves, NoneAssumption, KeysAssumption
    <3>3. CASE d # c
      BY <2>1, <2>3, <3>1, <3>3, ConnectionLocal, NoneAssumption
    <3>4. QED BY <3>2, <3>3
  <2>4. CASE SessionStep
    BY <2>1, <2>2, <2>3, <2>4 DEF SessionStep
  <2>5. CASE CommandStep
    <3>1. phase'[c] \in {phase[c], "killed"}
      BY <1>1, <2>5 DEF CommandStep, React, SystemInv, SessionsInv, Shapes
    <3>2. QED BY <2>1, <3>1, NoneAssumption
  <2>6. CASE UNCHANGED systemVars
    BY <2>1, <2>6, NoneAssumption DEF systemVars, sessionVars
  <2>7. QED BY <1>1, <2>4, <2>5, <2>6 DEF SystemNext
<1>2. SystemInv /\ [SystemNext]_systemVars => SystemInv'
  BY SystemInvKept
<1>3. SystemInv /\ [SystemNext]_systemVars =>
        [\A c \in Conns : fresh[c] /\ Without({"crash", "reboot"}) =>
           /\ phase[c] = "accepted" /\ phase'[c] = "refused" => Names(config.targets) = {}
           /\ phase[c] = "reading" /\ asked[c] \in Services /\ phase'[c] \in {"dial", "rejected"} =>
                IF config.targets[asked[c]] = None
                THEN phase'[c] = "rejected"
                ELSE phase'[c] = "dial" /\ target'[c] = config.targets[asked[c]]]_systemVars
  BY <1>1
<1>4. QED BY <1>2, <1>3, InitSystem, PTL DEF SystemSpec, ServedAsConfigured

\* A command ends the sessions of a daemon only to stop it or to move it to another
\* port.
THEOREM SessionsOutliveCommands ==
  ASSUME OneCommandLine
  PROVE  SystemSpec => CommandsKeepSessions
<1>1. ASSUME SystemInv, NEW i \in Clis, Without({"crash", "slow"}), pc[i] = "kill",
             op[i] # "stop", Names(cfg[i].targets) # {}
      PROVE  ~Listening(cfg[i].port)
  <2>1. PortKnown(i)
    BY <1>1 DEF SystemInv
  <2>2. QED BY <1>1, <2>1 DEF PortKnown, Listening, IsDaemon, Recording
<1>2. SystemInv /\ [SystemNext]_systemVars => SystemInv'
  BY SystemInvKept
<1>3. SystemInv /\ [SystemNext]_systemVars =>
        [\A c \in Conns, i \in Clis :
           /\ Without({"crash", "slow"})
           /\ phase[c] \in S!Started /\ phase'[c] = "killed" /\ pc[i] = "kill" /\ pc'[i] = "cleanPid"
           => \/ op[i] = "stop"
              \/ Names(cfg[i].targets) = {}
              \/ ~Listening(cfg[i].port)]_systemVars
  BY <1>1
<1>4. QED BY <1>2, <1>3, InitSystem, PTL DEF SystemSpec, CommandsKeepSessions

-----------------------------------------------------------------------------
(* What is proved of ProxySessions holds here                               *)

\* The proved module, in the place System gives it.  S and P name the same
\* operators.
P == INSTANCE ProxySessionsProofs WITH
  Databases <- Services,
  RouteMaps <- {m \in Maps : Names(m) # {}},
  daemon <- IF Serving THEN "up" ELSE "down"

\* The assumptions of ProxySessions.
LEMMA SessionsAssumptions ==
  /\ MaxAttempts \in Nat \ {0}
  /\ {m \in Maps : Names(m) # {}} \subseteq [Services -> Targets \cup {None}]
  /\ None \notin Conns \cup CancelKeys \cup Targets \cup Services
                 \cup {m \in Maps : Names(m) # {}} \cup {Unreadable}
  /\ Unreadable \notin {m \in Maps : Names(m) # {}}
  /\ Services \cap CancelKeys = {}
  /\ Targets \cap (P!Ended \cup {"none"}) = {}
BY AttemptsAssumption, KeysAssumption, RoutesAssumption, NoneAssumption, AddressesAssumption
DEF Maps, S!Ended, P!Ended

\* A step of a session in S is one in P.
LEMMA SameNext == [S!Next]_(S!vars) => [P!Next]_(P!vars)
<1> USE DEF S!fileVars, S!startVars, S!relayVars, S!peerVars, S!keyVars,
            P!fileVars, P!startVars, P!relayVars, P!peerVars, P!keyVars
<1>1. UNCHANGED S!vars => UNCHANGED P!vars
  BY DEF S!vars, P!vars
<1>2. S!Process => P!Process
  BY DEF S!Process, P!Process, S!TruncateRoutes, P!TruncateRoutes, S!StartDaemon,
    P!StartDaemon, S!DaemonExits, P!DaemonExits, S!WriteRoutes, P!WriteRoutes,
    S!Started, P!Started, S!InStartup, P!InStartup, S!Pairs, P!Pairs
<1>3. ASSUME NEW c \in Conns
      PROVE  /\ S!Accept(c) => P!Accept(c)
             /\ S!Main(c) => P!Main(c)
             /\ S!Opening(c) => P!Opening(c)
             /\ S!Up(c) => P!Up(c)
             /\ S!Down(c) => P!Down(c)
             /\ S!Peers(c) => P!Peers(c)
  <2>1. S!Accept(c) => P!Accept(c)
    BY DEF S!Accept, P!Accept, S!Pairs, P!Pairs, S!LeaveStartup, P!LeaveStartup
  <2>2. S!Main(c) => P!Main(c)
    BY DEF S!Main, P!Main, S!LoadRoutes, P!LoadRoutes, S!ReadEOF, P!ReadEOF, S!DeadlineFires,
      P!DeadlineFires, S!ReadCancel, P!ReadCancel, S!ReadStartup, P!ReadStartup, S!Lookup,
      P!Lookup, S!CancelForward, P!CancelForward, S!CancelUnreachable, P!CancelUnreachable,
      S!Dial, P!Dial, S!DialFails, P!DialFails, S!SendStartup, P!SendStartup, S!SendFails,
      P!SendFails, S!Finish, P!Finish, S!Close, P!Close, S!DeleteKey, P!DeleteKey,
      S!LeaveStartup, P!LeaveStartup
  <2>3. S!Opening(c) => P!Opening(c)
    BY DEF S!Opening, P!Opening, S!ReadNegotiation, P!ReadNegotiation, S!RejectPacket,
      P!RejectPacket, S!LeaveStartup, P!LeaveStartup
  <2>4. S!Up(c) => P!Up(c)
    BY DEF S!Up, P!Up, S!ClientData, P!ClientData, S!UpWritten, P!UpWritten, S!UpWriteFails,
      P!UpWriteFails, S!UpReadEnds, P!UpReadEnds, S!ClientReadReturns, P!ClientReadReturns
  <2>5. S!Down(c) => P!Down(c)
    BY DEF S!Down, P!Down, S!RelayKeyData, P!RelayKeyData, S!ForwardKey, P!ForwardKey,
      S!ServerData, P!ServerData, S!DownWritten, P!DownWritten, S!DownWriteFails,
      P!DownWriteFails, S!DownReadEnds, P!DownReadEnds
  <2>6. S!Peers(c) => P!Peers(c)
    BY DEF S!Peers, P!Peers, S!InStartup, P!InStartup, S!ClientAsks, P!ClientAsks, S!IssueKey,
      P!IssueKey, S!ClientShut, P!ClientShut, S!ClientClose, P!ClientClose, S!ServerGarbles,
      P!ServerGarbles, S!ServerClose, P!ServerClose, S!Started, P!Started
  <2>7. QED BY <2>1, <2>2, <2>3, <2>4, <2>5, <2>6
<1>4. QED BY <1>1, <1>2, <1>3 DEF S!Next, P!Next

\* With one command line a behaviour of the system is, for the sessions, one of
\* ProxySessions.  (Where crashes and slow daemons can bring about two daemons, of
\* which System keeps the memory of one, this says nothing of the code.)
THEOREM SystemRunsSessions ==
  ASSUME OneCommandLine
  PROVE  SystemSpec => P!Spec
<1>1. SystemInit => P!Init
  BY DEF SystemInit, S!Init, P!Init
<1>2. SystemInv /\ [SystemNext]_systemVars => [P!Next]_(P!vars)
  BY StepIsExpected, SameNext DEF SystemInv, FilesInv, FilesTame, SessionsInv
<1>3. SystemInv /\ [SystemNext]_systemVars => SystemInv'
  BY SystemInvKept
<1>4. QED BY <1>1, <1>2, <1>3, InitSystem, PTL DEF SystemSpec, P!Spec

\* So, whatever the commands do, no registry entry is without a session that will
\* delete it (unless its upstream sent the session a second key), a cancel request
\* reaches the upstream that issued its key, a key the client knows leads to its
\* upstream, sessions go where the file said, and relays end only for cause.
THEOREM SessionsKeepTheirPromises ==
  ASSUME OneCommandLine
  PROVE  SystemSpec =>
           /\ []P!RegistryHasNoLeak
           /\ []P!CancelReachesIssuer
           /\ []P!KnownKeyIsCancellable
           /\ P!RoutedByOfferedMap
           /\ P!RelayEndsForCause
           /\ P!HalfCloseKeepsAnswer
<1>1. P!Spec => []P!RegistryHasNoLeak
  BY P!NoRegistryLeak, SessionsAssumptions
<1>2. P!Spec => []P!CancelReachesIssuer
  BY P!CancelsReachTheIssuer, SessionsAssumptions
<1>3. P!Spec => []P!KnownKeyIsCancellable
  BY P!KnownKeysAreCancellable, SessionsAssumptions
<1>4. P!Spec => P!RoutedByOfferedMap
  BY P!SessionsFollowOfferedRoutes, SessionsAssumptions
<1>5. P!Spec => P!RelayEndsForCause
  BY P!RelaysEndForCause, SessionsAssumptions
<1>6. P!Spec => P!HalfCloseKeepsAnswer
  BY P!HalfClosesKeepTheAnswer, SessionsAssumptions
<1>7. SystemSpec => P!Spec
  BY SystemRunsSessions
<1>8. QED BY <1>1, <1>2, <1>3, <1>4, <1>5, <1>6, <1>7, PTL
=============================================================================
