--------------------------------- MODULE System ---------------------------------
(***************************************************************************)
(* The db commands together with the sessions of the daemon they manage.   *)
(* They share nothing but db-routes.json and the daemon process: commands  *)
(* write the one and start and kill the other, the daemon's goroutines     *)
(* read the file on every accept and die with the process.                 *)
(*                                                                         *)
(* The steps are those of DbCommands and, of ProxySessions, the ones of    *)
(* connections.  What ProxySessions leaves to an environment of its own    *)
(* (truncating and writing the routes, starting and ending the daemon) is  *)
(* done here by the commands, and that they do only that is checked.       *)
(***************************************************************************)
EXTENDS DbCommands

CONSTANTS Conns,       \* connections the proxy accepts, each used once
          CancelKeys,  \* (process id, secret key) pairs of BackendKeyData
          MaxAttempts  \* startup packets read before giving up

ASSUME AttemptsAssumption == MaxAttempts \in Nat \ {0}
ASSUME KeysAssumption ==
  None \notin CancelKeys \cup Conns /\ Services \cap CancelKeys = {}
ASSUME RoutesAssumption == None \notin Maps \cup {Unreadable} /\ Unreadable \notin Maps

VARIABLES registry, phase, snapshot, attempts, deadline, asked, target, up, down,
          cancelKey, client, server, wire, issuer, known, offered,
          fresh  \* history: no command has run since the connection was accepted

\* A daemon listens.
Serving == \E q \in Ports : Listening(q)

S == INSTANCE ProxySessions WITH
  Databases <- Services,
  RouteMaps <- {m \in Maps : Names(m) # {}},
  daemon <- IF Serving THEN "up" ELSE "down"

\* An address is not the name of a fate of a cancel request.
ASSUME AddressesAssumption == Targets \cap (S!Ended \cup {"none"}) = {}

sessionVars == <<registry, phase, snapshot, attempts, deadline, asked, target, up, down,
                 cancelKey, client, server, wire, issuer, known, offered>>
systemVars == <<vars, sessionVars, fresh>>

SystemInit == Init /\ S!Init /\ fresh = [c \in Conns |-> FALSE]

-----------------------------------------------------------------------------

AllIdle == \A i \in Clis : pc[i] = "idle"

\* Whether a connection is accepted, or a command begins.
Remember ==
  fresh' = [c \in Conns |->
              IF phase[c] = "idle" /\ phase'[c] # "idle" THEN AllIdle
              ELSE fresh[c] /\ AllIdle']

\* What sessions notice of a command: the end of the process ends them, with the
\* registry; a new content of the file is there for those that have not read it.
React ==
  LET ends == Serving /\ ~Serving'
      Reset(f, value) == IF ends THEN [c \in Conns |-> value] ELSE f
  IN /\ registry' = IF ends THEN [k \in CancelKeys |-> None] ELSE registry
     /\ phase' = [c \in Conns |-> IF ends /\ phase[c] \in S!Started THEN "killed" ELSE phase[c]]
     /\ snapshot' = Reset(snapshot, None)
     /\ attempts' = Reset(attempts, 0)
     /\ deadline' = Reset(deadline, "off")
     /\ up' = Reset(up, "off")
     /\ down' = Reset(down, "off")
     /\ cancelKey' = Reset(cancelKey, None)
     /\ wire' = Reset(wire, None)
     /\ offered' = [c \in Conns |->
                      IF ends THEN {}
                      ELSE IF S!InStartup(c) THEN offered[c] \cup S!Pairs(routes') ELSE offered[c]]
     /\ UNCHANGED <<asked, target, client, server, issuer, known>>

\* A step of a command, of the daemon process or of the machine.
CommandStep == Next /\ React /\ Remember

\* A step of a connection.
SessionStep ==
  /\ UNCHANGED vars
  /\ \E c \in Conns :
       S!Accept(c) \/ S!Main(c) \/ S!Opening(c) \/ S!Up(c) \/ S!Down(c) \/ S!Peers(c)
  /\ Remember

SystemNext == CommandStep \/ SessionStep

SystemSpec == SystemInit /\ [][SystemNext]_systemVars

-----------------------------------------------------------------------------

\* The commands and the daemon process are an environment the sessions are made
\* for: the routes file is truncated before it is written and never holds an empty
\* map, and a daemon that is replaced has let go of every session and key before
\* the next one listens.  So everything ProxySessions promises holds here.
SessionsFollowed ==
  S!Init /\ [][Without({"crash", "slow"}) => S!Next]_(S!vars)

\* A client that connects while no command runs is served as config.yaml says: a
\* configured service at its configured target, any other not at all, and no one is
\* turned away because the routes are missing, for as long as no command begins
\* ("makes it available immediately").
ServedAsConfigured ==
  [][\A c \in Conns : fresh[c] /\ Without({"crash", "reboot"}) =>
       /\ phase[c] = "accepted" /\ phase'[c] = "refused" => Names(config.targets) = {}
       /\ phase[c] = "reading" /\ asked[c] \in Services /\ phase'[c] \in {"dial", "rejected"} =>
            IF config.targets[asked[c]] = None
            THEN phase'[c] = "rejected"
            ELSE phase'[c] = "dial" /\ target'[c] = config.targets[asked[c]]]_systemVars

\* `db stop`, and the removal of the last service, leave no client connected
\* through the proxy and no cancel key that could still be used.
StopEndsSessions ==
  [][\A i \in Clis :
       /\ Without({"crash", "slow"})
       /\ op[i] = "stop" \/ (op[i] = "remove" /\ pc[i] = "dropRoutes")
       /\ Succeeds(i)
       => /\ \A c \in Conns : phase'[c] \notin S!Started
          /\ \A k \in CancelKeys : registry'[k] = None]_systemVars

\* Adding, refreshing and removing services leaves the sessions of others, and of
\* the removed service, alone: a command ends sessions only to stop the daemon, or
\* to move it to another port than it listens on.
CommandsKeepSessions ==
  [][\A c \in Conns, i \in Clis :
       /\ Without({"crash", "slow"})
       /\ phase[c] \in S!Started /\ phase'[c] = "killed" /\ pc[i] = "kill" /\ pc'[i] = "cleanPid"
       => \/ op[i] = "stop"
          \/ Names(cfg[i].targets) = {}
          \/ ~Listening(cfg[i].port)]_systemVars
=============================================================================
