---------------------------- MODULE ProxySessions ----------------------------
(***************************************************************************)
(* The PostgreSQL-aware proxy daemon (src/internal/db/proxy.go): one       *)
(* goroutine per accepted connection, two relay goroutines per session,    *)
(* the registry of cancel keys they share, the routes file they read and   *)
(* the clients and upstreams at the two ends.                              *)
(*                                                                         *)
(* A connection is a session (the client names a database and is relayed   *)
(* to its upstream) or a cancel request (the client names a cancel key).   *)
(*                                                                         *)
(* What is abstracted:                                                     *)
(*  - a backend message is the BackendKeyData that carries a key, a        *)
(*    malformed message (length below 4), or traffic: data in either       *)
(*    direction of which only the blocking of its Write is kept;           *)
(*  - a packet is what it parses to; the database is the name the route    *)
(*    lookup uses (the user when the packet names no database);            *)
(*  - a client sends one request, waits for the answer to a negotiation    *)
(*    before it sends the next packet, and has sent its request by the     *)
(*    time the connection is refused, if ever;                             *)
(*  - a message to a client in its startup stage (an "N", an error) fits   *)
(*    in the buffer of its socket, as does the startup packet in the       *)
(*    upstream's, so only the Writes of the relay can block;               *)
(*  - an upstream that sends a second key does so once the first has been  *)
(*    read;                                                                *)
(*  - a connection identifier is used once, so a set of Conns bounds the   *)
(*    connections of a behaviour.                                          *)
(***************************************************************************)
EXTENDS Naturals

CONSTANTS Conns,        \* connections the proxy accepts, each used once
          Databases,    \* database names a startup packet may carry
          Targets,      \* upstream addresses
          CancelKeys,   \* (process id, secret key) pairs of BackendKeyData
          RouteMaps,    \* the route maps the db commands write
          MaxAttempts,  \* startup packets read before giving up (4)
          None,         \* no value
          Unreadable    \* routes file missing, truncated, invalid or empty

ASSUME MaxAttemptsAssumption == MaxAttempts \in Nat \ {0}
ASSUME RouteMapsAssumption == RouteMaps \subseteq [Databases -> Targets \cup {None}]
ASSUME NoneAssumption ==
  None \notin Conns \cup CancelKeys \cup Targets \cup Databases \cup RouteMaps \cup {Unreadable}
ASSUME UnreadableAssumption == Unreadable \notin RouteMaps
ASSUME KeysAreNotDatabases == Databases \cap CancelKeys = {}

VARIABLES
  daemon,     \* "up" while the daemon listens, else "down"
  routes,     \* content of db-routes.json: a route map or Unreadable
  registry,   \* cancelRegistry.entries: the target of each key, or None
  phase,      \* where the goroutine of each connection is
  snapshot,   \* the routes the connection loaded when it was accepted
  attempts,   \* startup packets the connection has read
  deadline,   \* "armed" while the client socket has a read deadline
  asked,      \* the request the client has sent: a database, a cancel key or None
  target,     \* the upstream chosen for the connection
  up, down,   \* the client-to-server and server-to-client goroutines
  cancelKey,  \* the key proxyConn deletes when the session ends
  client,     \* the client's end: "none", "open", "shut" (FIN sent), "closed"
  server,     \* the upstream's end: "none", "open", "garbled", "closed"
  wire,       \* the BackendKeyData on its way from the upstream, or None
  issuer,     \* history: the connection whose upstream issued a key, or None
  known,      \* history: the keys that have reached their client
  offered     \* history: the routes the file has held since the connection
              \* was accepted, until it leaves the startup stage

fileVars == <<routes, offered>>
startVars == <<snapshot, attempts, deadline>>
relayVars == <<up, down, cancelKey>>
peerVars == <<client, server>>
keyVars == <<wire, issuer, known>>
vars == <<daemon, routes, registry, phase, snapshot, attempts, deadline, asked,
          target, up, down, cancelKey, client, server, wire, issuer, known,
          offered>>

Started == {"accepted", "reading", "cancel", "cancelDial", "dial", "send", "relay"}
Ended == {"refused", "rejected", "late", "gone", "dropped", "unreachable", "forwarded",
          "served", "killed"}

\* An address is not the name of a fate.
ASSUME TargetsAreNoFates == Targets \cap (Ended \cup {"none"}) = {}

\* The (database, target) pairs a routes file offers.
Pairs(m) ==
  IF m \in RouteMaps
  THEN {p \in Databases \X Targets : m[p[1]] = p[2]}
  ELSE {}

\* Every variable has a value of the kind the code gives it.
TypeOK ==
  /\ daemon \in {"up", "down"}
  /\ routes \in RouteMaps \cup {Unreadable}
  /\ registry \in [CancelKeys -> Targets \cup {None}]
  /\ phase \in [Conns -> {"idle"} \cup Started \cup Ended]
  /\ snapshot \in [Conns -> RouteMaps \cup {None}]
  /\ attempts \in [Conns -> 0 .. MaxAttempts - 1]
  /\ deadline \in [Conns -> {"off", "armed"}]
  /\ asked \in [Conns -> Databases \cup CancelKeys \cup {None}]
  /\ target \in [Conns -> Targets \cup {None}]
  /\ up \in [Conns -> {"off", "read", "write", "done"}]
  /\ down \in [Conns -> {"off", "read", "forward", "write", "done"}]
  /\ cancelKey \in [Conns -> CancelKeys \cup {None}]
  /\ client \in [Conns -> {"none", "open", "shut", "closed"}]
  /\ server \in [Conns -> {"none", "open", "garbled", "closed"}]
  /\ wire \in [Conns -> CancelKeys \cup {None}]
  /\ issuer \in [CancelKeys -> Conns \cup {None}]
  /\ known \subseteq CancelKeys
  /\ offered \in [Conns -> SUBSET (Databases \X Targets)]

Init ==
  /\ daemon = "down"
  /\ routes = Unreadable
  /\ registry = [k \in CancelKeys |-> None]
  /\ phase = [c \in Conns |-> "idle"]
  /\ snapshot = [c \in Conns |-> None]
  /\ attempts = [c \in Conns |-> 0]
  /\ deadline = [c \in Conns |-> "off"]
  /\ asked = [c \in Conns |-> None]
  /\ target = [c \in Conns |-> None]
  /\ up = [c \in Conns |-> "off"]
  /\ down = [c \in Conns |-> "off"]
  /\ cancelKey = [c \in Conns |-> None]
  /\ client = [c \in Conns |-> "none"]
  /\ server = [c \in Conns |-> "none"]
  /\ wire = [c \in Conns |-> None]
  /\ issuer = [k \in CancelKeys |-> None]
  /\ known = {}
  /\ offered = [c \in Conns |-> {}]

-----------------------------------------------------------------------------
(* The routes file and the daemon process                                   *)

InStartup(c) == phase[c] \in {"accepted", "reading"}

\* A db command starts to rewrite the file (WriteFile truncates it first) or
\* removes it with the last service.
TruncateRoutes ==
  /\ routes # Unreadable
  /\ routes' = Unreadable
  /\ UNCHANGED <<daemon, registry, phase, startVars, asked, target, relayVars,
                 peerVars, keyVars, offered>>

\* The content of the new route map has reached the file.
WriteRoutes(m) ==
  /\ routes = Unreadable
  /\ routes' = m
  /\ offered' = [c \in Conns |->
                   IF InStartup(c) THEN offered[c] \cup Pairs(m) ELSE offered[c]]
  /\ UNCHANGED <<daemon, registry, phase, startVars, asked, target, relayVars,
                 peerVars, keyVars>>

StartDaemon ==
  /\ daemon = "down"
  /\ daemon' = "up"
  /\ UNCHANGED <<fileVars, registry, phase, startVars, asked, target, relayVars,
                 peerVars, keyVars>>

\* The process is killed, or Accept fails for good: its memory and its sockets
\* are gone.
DaemonExits ==
  /\ daemon = "up"
  /\ daemon' = "down"
  /\ registry' = [k \in CancelKeys |-> None]
  /\ phase' = [c \in Conns |-> IF phase[c] \in Started THEN "killed" ELSE phase[c]]
  /\ snapshot' = [c \in Conns |-> None]
  /\ attempts' = [c \in Conns |-> 0]
  /\ deadline' = [c \in Conns |-> "off"]
  /\ up' = [c \in Conns |-> "off"]
  /\ down' = [c \in Conns |-> "off"]
  /\ cancelKey' = [c \in Conns |-> None]
  /\ wire' = [c \in Conns |-> None]
  /\ offered' = [c \in Conns |-> {}]
  /\ UNCHANGED <<routes, asked, target, peerVars, issuer, known>>

Accept(c) ==
  /\ daemon = "up"
  /\ phase[c] = "idle"
  /\ phase' = [phase EXCEPT ![c] = "accepted"]
  /\ client' = [client EXCEPT ![c] = "open"]
  /\ offered' = [offered EXCEPT ![c] = Pairs(routes)]
  /\ UNCHANGED <<daemon, routes, registry, startVars, asked, target, relayVars,
                 server, keyVars>>

-----------------------------------------------------------------------------
(* proxyConn up to the choice of an upstream                                *)

\* Mutant of LeaveStartup: the read deadline stays on the client's socket.
LeaveStartupArmed(c, next) ==
  /\ phase' = [phase EXCEPT ![c] = next]
  /\ snapshot' = [snapshot EXCEPT ![c] = None]
  /\ attempts' = [attempts EXCEPT ![c] = 0]
  /\ offered' = [offered EXCEPT ![c] = {}]
  /\ UNCHANGED deadline

\* The connection leaves the startup stage: for the phase next, or because
\* proxyConn returned.  The deferred call of readClientRequest clears the
\* deadline, and the snapshot is not used again.
LeaveStartup(c, next) ==
  /\ phase' = [phase EXCEPT ![c] = next]
  /\ snapshot' = [snapshot EXCEPT ![c] = None]
  /\ attempts' = [attempts EXCEPT ![c] = 0]
  /\ deadline' = [deadline EXCEPT ![c] = "off"]
  /\ offered' = [offered EXCEPT ![c] = {}]

\* Mutant of LoadRoutes: no read deadline is set.
LoadRoutesUnarmed(c) ==
  /\ phase[c] = "accepted"
  /\ IF routes = Unreadable
     THEN LeaveStartup(c, "refused")
     ELSE /\ phase' = [phase EXCEPT ![c] = "reading"]
          /\ snapshot' = [snapshot EXCEPT ![c] = routes]
          /\ UNCHANGED <<attempts, deadline, offered>>
  /\ UNCHANGED <<daemon, routes, registry, asked, target, relayVars, peerVars, keyVars>>

\* The routes are loaded before the client is read: while the file cannot be
\* read, every connection is refused, a cancel request as well, which needs none.
LoadRoutes(c) ==
  /\ phase[c] = "accepted"
  /\ IF routes = Unreadable
     THEN LeaveStartup(c, "refused")
     ELSE /\ phase' = [phase EXCEPT ![c] = "reading"]
          /\ snapshot' = [snapshot EXCEPT ![c] = routes]
          /\ deadline' = [deadline EXCEPT ![c] = "armed"]
          /\ UNCHANGED <<attempts, offered>>
  /\ UNCHANGED <<daemon, routes, registry, asked, target, relayVars, peerVars, keyVars>>

\* Mutant of ReadNegotiation: one packet too many.
ReadNegotiationOnceMore(c) ==
  /\ phase[c] = "reading"
  /\ asked[c] = None
  /\ IF attempts[c] < MaxAttempts
     THEN /\ attempts' = [attempts EXCEPT ![c] = @ + 1]
          /\ UNCHANGED <<phase, snapshot, deadline, offered>>
     ELSE LeaveStartup(c, "rejected")
  /\ UNCHANGED <<daemon, routes, registry, asked, target, relayVars, peerVars, keyVars>>

\* An SSLRequest or a GSSENCRequest is answered "N"; the last of the allowed
\* packets ends the connection.
ReadNegotiation(c) ==
  /\ phase[c] = "reading"
  /\ asked[c] = None
  /\ IF attempts[c] + 1 < MaxAttempts
     THEN /\ attempts' = [attempts EXCEPT ![c] = @ + 1]
          /\ UNCHANGED <<phase, snapshot, deadline, offered>>
     ELSE LeaveStartup(c, "rejected")
  /\ UNCHANGED <<daemon, routes, registry, asked, target, relayVars, peerVars, keyVars>>

ReadCancel(c, k) ==
  /\ phase[c] = "reading"
  /\ asked[c] = k
  /\ LeaveStartup(c, "cancel")
  /\ UNCHANGED <<daemon, routes, registry, asked, target, relayVars, peerVars, keyVars>>

\* Mutant of ReadStartup: a database without a route gets another's target.
ReadStartupFallsBack(c, d) ==
  /\ phase[c] = "reading"
  /\ asked[c] = d
  /\ \E e \in Databases :
       /\ snapshot[c][e] # None
       /\ snapshot[c][d] \in {None, snapshot[c][e]}
       /\ target' = [target EXCEPT ![c] = snapshot[c][e]]
  /\ LeaveStartup(c, "dial")
  /\ UNCHANGED <<daemon, routes, registry, asked, relayVars, peerVars, keyVars>>

\* findProxyRoute looks the database up in the snapshot, not in the file.
ReadStartup(c, d) ==
  /\ phase[c] = "reading"
  /\ asked[c] = d
  /\ target' = [target EXCEPT ![c] = snapshot[c][d]]
  /\ LeaveStartup(c, IF snapshot[c][d] = None THEN "rejected" ELSE "dial")
  /\ UNCHANGED <<daemon, routes, registry, asked, relayVars, peerVars, keyVars>>

\* A packet that does not parse, or an "N" that cannot be written.
RejectPacket(c) ==
  /\ phase[c] = "reading"
  /\ asked[c] = None
  /\ LeaveStartup(c, "rejected")
  /\ UNCHANGED <<daemon, routes, registry, asked, target, relayVars, peerVars, keyVars>>

\* The client closed, or shut its sending side, before a whole request.
ReadEOF(c) ==
  /\ phase[c] = "reading"
  /\ asked[c] = None
  /\ client[c] # "open"
  /\ LeaveStartup(c, "gone")
  /\ UNCHANGED <<daemon, routes, registry, asked, target, relayVars, peerVars, keyVars>>

\* Ten seconds have passed since the routes were loaded; a request that has come in
\* meanwhile may still be unread.
DeadlineFires(c) ==
  /\ phase[c] = "reading"
  /\ deadline[c] = "armed"
  /\ LeaveStartup(c, "late")
  /\ UNCHANGED <<daemon, routes, registry, asked, target, relayVars, peerVars, keyVars>>

-----------------------------------------------------------------------------
(* Cancel requests                                                          *)

\* Mutant of Lookup: a key that is not registered goes to some upstream.
LookupFallsBack(c) ==
  /\ phase[c] = "cancel"
  /\ \E t \in Targets :
       /\ registry[asked[c]] \in {None, t}
       /\ target' = [target EXCEPT ![c] = t]
  /\ phase' = [phase EXCEPT ![c] = "cancelDial"]
  /\ UNCHANGED <<daemon, fileVars, registry, startVars, asked, relayVars, peerVars, keyVars>>

\* The registry is read once; the dial that follows uses what it said.
Lookup(c) ==
  /\ phase[c] = "cancel"
  /\ target' = [target EXCEPT ![c] = registry[asked[c]]]
  /\ phase' = [phase EXCEPT ![c] =
                 IF registry[asked[c]] = None THEN "dropped" ELSE "cancelDial"]
  /\ UNCHANGED <<daemon, fileVars, registry, startVars, asked, relayVars, peerVars, keyVars>>

CancelForward(c) ==
  /\ phase[c] = "cancelDial"
  /\ phase' = [phase EXCEPT ![c] = "forwarded"]
  /\ UNCHANGED <<daemon, fileVars, registry, startVars, asked, target, relayVars,
                 peerVars, keyVars>>

\* DialTimeout fails or takes longer than three seconds, or the Write fails: the
\* request is lost although its key is registered, and nobody is told.
CancelUnreachable(c) ==
  /\ phase[c] = "cancelDial"
  /\ phase' = [phase EXCEPT ![c] = "unreachable"]
  /\ UNCHANGED <<daemon, fileVars, registry, startVars, asked, target, relayVars,
                 peerVars, keyVars>>

-----------------------------------------------------------------------------
(* Sessions                                                                 *)

Dial(c) ==
  /\ phase[c] = "dial"
  /\ phase' = [phase EXCEPT ![c] = "send"]
  /\ server' = [server EXCEPT ![c] = "open"]
  /\ UNCHANGED <<daemon, fileVars, registry, startVars, asked, target, relayVars,
                 client, keyVars>>

DialFails(c) ==
  /\ phase[c] = "dial"
  /\ phase' = [phase EXCEPT ![c] = "unreachable"]
  /\ UNCHANGED <<daemon, fileVars, registry, startVars, asked, target, relayVars,
                 peerVars, keyVars>>

\* The startup packet is written and both relay goroutines start.
SendStartup(c) ==
  /\ phase[c] = "send"
  /\ phase' = [phase EXCEPT ![c] = "relay"]
  /\ up' = [up EXCEPT ![c] = "read"]
  /\ down' = [down EXCEPT ![c] = "read"]
  /\ UNCHANGED <<daemon, fileVars, registry, startVars, asked, target, cancelKey,
                 peerVars, keyVars>>

SendFails(c) ==
  /\ phase[c] = "send"
  /\ server[c] = "closed"
  /\ phase' = [phase EXCEPT ![c] = "unreachable"]
  /\ UNCHANGED <<daemon, fileVars, registry, startVars, asked, target, relayVars,
                 peerVars, keyVars>>

\* io.Copy has read from the client: data it sent before it closed may be left.
ClientData(c) ==
  /\ up[c] = "read"
  /\ up' = [up EXCEPT ![c] = "write"]
  /\ UNCHANGED <<daemon, fileVars, registry, phase, startVars, asked, target, down,
                 cancelKey, peerVars, keyVars>>

\* The Write returns once the upstream takes the data, which it need not.
UpWritten(c) ==
  /\ up[c] = "write"
  /\ up' = [up EXCEPT ![c] = "read"]
  /\ UNCHANGED <<daemon, fileVars, registry, phase, startVars, asked, target, down,
                 cancelKey, peerVars, keyVars>>

\* The upstream is gone.
UpWriteFails(c) ==
  /\ up[c] = "write"
  /\ server[c] = "closed"
  /\ up' = [up EXCEPT ![c] = "done"]
  /\ UNCHANGED <<daemon, fileVars, registry, phase, startVars, asked, target, down,
                 cancelKey, peerVars, keyVars>>

\* io.Copy's Read returns without data: at end of file, on a reset, or when a read
\* deadline was left on the socket.
ClientReadReturns(c) == ~(client[c] = "open" /\ deadline[c] = "off")

\* Mutant of UpReadEnds: the key is deleted as soon as the client stops sending.
UpReadEndsDeletesKey(c) ==
  /\ up[c] = "read"
  /\ ClientReadReturns(c)
  /\ up' = [up EXCEPT ![c] = "done"]
  /\ registry' = IF cancelKey[c] = None THEN registry
                 ELSE [registry EXCEPT ![cancelKey[c]] = None]
  /\ UNCHANGED <<daemon, fileVars, phase, startVars, asked, target, down,
                 cancelKey, peerVars, keyVars>>

UpReadEnds(c) ==
  /\ up[c] = "read"
  /\ ClientReadReturns(c)
  /\ up' = [up EXCEPT ![c] = "done"]
  /\ UNCHANGED <<daemon, fileVars, registry, phase, startVars, asked, target, down,
                 cancelKey, peerVars, keyVars>>

\* Mutant of RelayKeyData: the key is not registered.
RelayKeyDataUnregistered(c) ==
  /\ down[c] = "read"
  /\ wire[c] # None
  /\ cancelKey' = [cancelKey EXCEPT ![c] = wire[c]]
  /\ wire' = [wire EXCEPT ![c] = None]
  /\ down' = [down EXCEPT ![c] = "forward"]
  /\ UNCHANGED <<daemon, fileVars, registry, phase, startVars, asked, target, up,
                 peerVars, issuer, known>>

\* BackendKeyData is read: the key is registered before it is passed on, and takes
\* the place of an earlier one as the key that proxyConn will delete.
RelayKeyData(c) ==
  /\ down[c] = "read"
  /\ wire[c] # None
  /\ registry' = [registry EXCEPT ![wire[c]] = target[c]]
  /\ cancelKey' = [cancelKey EXCEPT ![c] = wire[c]]
  /\ wire' = [wire EXCEPT ![c] = None]
  /\ down' = [down EXCEPT ![c] = "forward"]
  /\ UNCHANGED <<daemon, fileVars, phase, startVars, asked, target, up, peerVars,
                 issuer, known>>

\* The Writes of BackendKeyData return, and the client has it unless it is gone.
ForwardKey(c) ==
  /\ down[c] = "forward"
  /\ down' = [down EXCEPT ![c] = "read"]
  /\ known' = IF client[c] = "closed" THEN known ELSE known \cup {cancelKey[c]}
  /\ UNCHANGED <<daemon, fileVars, registry, phase, startVars, asked, target, up,
                 cancelKey, peerVars, wire, issuer>>

\* Another message is read: some sent before the upstream closed may be left.
ServerData(c) ==
  /\ down[c] = "read"
  /\ down' = [down EXCEPT ![c] = "write"]
  /\ UNCHANGED <<daemon, fileVars, registry, phase, startVars, asked, target, up,
                 cancelKey, peerVars, keyVars>>

\* The Writes return once the client takes the message, which it need not.
DownWritten(c) ==
  /\ down[c] = "write"
  /\ down' = [down EXCEPT ![c] = "read"]
  /\ UNCHANGED <<daemon, fileVars, registry, phase, startVars, asked, target, up,
                 cancelKey, peerVars, keyVars>>

\* The client is gone.
DownWriteFails(c) ==
  /\ down[c] \in {"forward", "write"}
  /\ client[c] = "closed"
  /\ down' = [down EXCEPT ![c] = "done"]
  /\ UNCHANGED <<daemon, fileVars, registry, phase, startVars, asked, target, up,
                 cancelKey, peerVars, keyVars>>

\* The upstream closed, its connection broke, or it sent a length below 4.  A
\* broken connection may lose the key that was still in flight.
DownReadEnds(c) ==
  /\ down[c] = "read"
  /\ server[c] # "open"
  /\ down' = [down EXCEPT ![c] = "done"]
  /\ UNCHANGED <<daemon, fileVars, registry, phase, startVars, asked, target, up,
                 cancelKey, peerVars, keyVars>>

\* proxyConn returns: its variables and both sockets are gone.
Close(c) ==
  /\ phase' = [phase EXCEPT ![c] = "served"]
  /\ up' = [up EXCEPT ![c] = "off"]
  /\ down' = [down EXCEPT ![c] = "off"]
  /\ cancelKey' = [cancelKey EXCEPT ![c] = None]
  /\ wire' = [wire EXCEPT ![c] = None]

DeleteKey(c) ==
  registry' = IF cancelKey[c] = None THEN registry
              ELSE [registry EXCEPT ![cancelKey[c]] = None]

\* Mutant of Finish: the key is not deleted.
FinishLeaksKey(c) ==
  /\ up[c] = "done"
  /\ down[c] = "done"
  /\ Close(c)
  /\ UNCHANGED <<daemon, fileVars, registry, startVars, asked, target, peerVars,
                 issuer, known>>

\* Mutant of Finish: proxyConn waits for one of the two goroutines.
FinishAfterOne(c) ==
  /\ up[c] = "done" \/ down[c] = "done"
  /\ DeleteKey(c)
  /\ Close(c)
  /\ UNCHANGED <<daemon, fileVars, startVars, asked, target, peerVars, issuer, known>>

\* Both goroutines have reported: the last key is deleted and both sockets close.
Finish(c) ==
  /\ up[c] = "done"
  /\ down[c] = "done"
  /\ DeleteKey(c)
  /\ Close(c)
  /\ UNCHANGED <<daemon, fileVars, startVars, asked, target, peerVars, issuer, known>>

-----------------------------------------------------------------------------
(* The clients and the upstreams                                            *)

\* The client sends its startup packet or its cancel request, right after it has
\* connected or once its negotiation has been answered.
ClientAsks(c, r) ==
  /\ InStartup(c)
  /\ client[c] = "open"
  /\ asked[c] = None
  /\ asked' = [asked EXCEPT ![c] = r]
  /\ UNCHANGED <<daemon, fileVars, registry, phase, startVars, target, relayVars,
                 peerVars, keyVars>>

\* The upstream sends BackendKeyData: after the startup packet, and nothing in the
\* proxy expects it only once.  The process id and secret of a backend are taken to
\* differ from all those given before.
IssueKey(c, k) ==
  /\ phase[c] = "relay"
  /\ server[c] = "open"
  /\ wire[c] = None
  /\ issuer[k] = None
  /\ wire' = [wire EXCEPT ![c] = k]
  /\ issuer' = [issuer EXCEPT ![k] = c]
  /\ UNCHANGED <<daemon, fileVars, registry, phase, startVars, asked, target,
                 relayVars, peerVars, known>>

\* The client sends FIN and keeps reading.
ClientShut(c) ==
  /\ phase[c] \in Started
  /\ client[c] = "open"
  /\ client' = [client EXCEPT ![c] = "shut"]
  /\ UNCHANGED <<daemon, fileVars, registry, phase, startVars, asked, target,
                 relayVars, server, keyVars>>

ClientClose(c) ==
  /\ phase[c] \in Started
  /\ client[c] # "closed"
  /\ client' = [client EXCEPT ![c] = "closed"]
  /\ UNCHANGED <<daemon, fileVars, registry, phase, startVars, asked, target,
                 relayVars, server, keyVars>>

ServerGarbles(c) ==
  /\ phase[c] = "relay"
  /\ server[c] = "open"
  /\ server' = [server EXCEPT ![c] = "garbled"]
  /\ UNCHANGED <<daemon, fileVars, registry, phase, startVars, asked, target,
                 relayVars, client, keyVars>>

ServerClose(c) ==
  /\ phase[c] \in {"send", "relay"}
  /\ server[c] # "closed"
  /\ server' = [server EXCEPT ![c] = "closed"]
  /\ UNCHANGED <<daemon, fileVars, registry, phase, startVars, asked, target,
                 relayVars, client, keyVars>>

-----------------------------------------------------------------------------

\* The goroutine of proxyConn, where it does not wait for the client.
Main(c) ==
  \/ LoadRoutes(c) \/ ReadEOF(c) \/ DeadlineFires(c)
  \/ \E k \in CancelKeys : ReadCancel(c, k)
  \/ \E d \in Databases : ReadStartup(c, d)
  \/ Lookup(c) \/ CancelForward(c) \/ CancelUnreachable(c)
  \/ Dial(c) \/ DialFails(c) \/ SendStartup(c) \/ SendFails(c) \/ Finish(c)

\* What a client may send before its request, or in its place.
Opening(c) == ReadNegotiation(c) \/ RejectPacket(c)

Up(c) == ClientData(c) \/ UpWritten(c) \/ UpWriteFails(c) \/ UpReadEnds(c)

Down(c) ==
  \/ RelayKeyData(c) \/ ForwardKey(c) \/ ServerData(c) \/ DownWritten(c)
  \/ DownWriteFails(c) \/ DownReadEnds(c)

Peers(c) ==
  \/ \E r \in Databases \cup CancelKeys : ClientAsks(c, r)
  \/ \E k \in CancelKeys : IssueKey(c, k)
  \/ ClientShut(c) \/ ClientClose(c) \/ ServerGarbles(c) \/ ServerClose(c)

Process ==
  \/ TruncateRoutes \/ StartDaemon \/ DaemonExits
  \/ \E m \in RouteMaps : WriteRoutes(m)

Next ==
  \/ Process
  \/ \E c \in Conns : Accept(c) \/ Main(c) \/ Opening(c) \/ Up(c) \/ Down(c) \/ Peers(c)

Spec == Init /\ [][Next]_vars

\* Mutant of ServerSeesEOF and ClientSeesEOF: the far socket is not shut.
NoHalfClose(c) == FALSE

\* Half-close: each relay goroutine shuts the far socket when its source ends.
ServerSeesEOF(c) == up[c] = "done"
ClientSeesEOF(c) == down[c] = "done"

\* A Write to a peer that is gone returns, with or without an error.
UpWriteReturns(c) == server[c] = "closed" /\ (UpWritten(c) \/ UpWriteFails(c))
DownWriteReturns(c) ==
  client[c] = "closed" /\ (ForwardKey(c) \/ DownWritten(c) \/ DownWriteFails(c))

\* The Go scheduler runs every goroutine that can move and every timer fires; the
\* operating system answers every dial, and fails or completes a Write to a peer
\* that is gone.  What a peer that is gone has left in a socket is finite, so a
\* relay goroutine that is back at its Read again and again reaches the end of it
\* (the strong fairness).  A peer whose socket has been shut by the proxy reads to
\* the end and closes.  Nothing else is promised: a client need not send, close or
\* read, an upstream need not answer or read, and a Write to either may block for
\* as long as it is there, because the code sets no write deadline.
Fairness ==
  \A c \in Conns :
    /\ WF_vars(Main(c))
    /\ SF_vars(UpReadEnds(c))
    /\ SF_vars(DownReadEnds(c))
    /\ WF_vars(UpWriteReturns(c))
    /\ WF_vars(DownWriteReturns(c))
    /\ WF_vars(ServerSeesEOF(c) /\ ServerClose(c))
    /\ WF_vars(ClientSeesEOF(c) /\ ClientClose(c))

FairSpec == Spec /\ Fairness

-----------------------------------------------------------------------------
(* Safety                                                                   *)

\* A client that has received a cancel key can use it: while its session is relayed
\* the registry maps the key to the upstream of that session (the key is put before
\* BackendKeyData is passed on and deleted after both relay goroutines have stopped).
KnownKeyIsCancellable ==
  \A k \in known : phase[issuer[k]] = "relay" => registry[k] = target[issuer[k]]

\* The upstream of a session has sent more than one key.
SecondKey(k) == \E j \in CancelKeys \ {k} : issuer[j] = issuer[k]

\* Nothing stays in the registry: every entry belongs to a session that is still
\* relayed and will delete it.  The exception is an upstream that sends a session
\* more than one key: only the last is deleted, the others stay until the daemon
\* exits.
RegistryHasNoLeak ==
  \A k \in CancelKeys :
    registry[k] # None =>
      \/ \E c \in Conns : phase[c] = "relay" /\ cancelKey[c] = k /\ target[c] = registry[k]
      \/ SecondKey(k)

\* A cancel request is only ever sent to the upstream that issued its key,
\* however the routes and the sessions have changed since.
CancelReachesIssuer ==
  \A c \in Conns :
    asked[c] \in CancelKeys /\ target[c] # None =>
      issuer[asked[c]] # None /\ target[issuer[asked[c]]] = target[c]

\* A session goes to a target that the routes file held for its database at
\* some moment between accept and startup packet: never to a route removed
\* before the client connected, never to a mixture of two maps.
RoutedByOfferedMap ==
  [][\A c \in Conns :
       phase[c] = "reading" /\ phase'[c] = "dial" =>
         <<asked[c], target'[c]>> \in offered[c]]_vars

\* The proxy never stops reading from a client while both ends of the session
\* are there: the ten seconds of the startup stage do not outlive it.
RelayEndsForCause ==
  [][\A c \in Conns :
       up[c] \in {"read", "write"} /\ up'[c] = "done" =>
         client[c] # "open" \/ server[c] = "closed"]_vars

\* A client that has sent FIN still gets its answer: the session is not torn
\* down while the upstream may be writing and the client may be reading.
HalfCloseKeepsAnswer ==
  [][\A c \in Conns :
       phase[c] = "relay" /\ phase'[c] = "served" =>
         server[c] # "open" \/ client[c] = "closed"]_vars

-----------------------------------------------------------------------------
(* The inductive invariant behind the safety properties                     *)

\* A key goes from the upstream to the registry and then to the client, and leads to
\* its upstream from the moment it is read.
KeyPath ==
  /\ \A c \in Conns :
       /\ wire[c] # None => issuer[wire[c]] = c
       /\ cancelKey[c] # None =>
            /\ phase[c] = "relay"
            /\ issuer[cancelKey[c]] = c
            /\ registry[cancelKey[c]] = target[c]
       /\ down[c] = "forward" => cancelKey[c] # None
  /\ \A k \in CancelKeys :
       /\ registry[k] # None => issuer[k] # None /\ registry[k] = target[issuer[k]]
       /\ k \in known => issuer[k] # None

\* What is known of a connection in each phase.
Stages ==
  /\ \A c \in Conns :
       /\ phase[c] = "idle" => asked[c] = None
       /\ phase[c] \in {"idle", "accepted", "reading", "cancel"} => target[c] = None
       /\ phase[c] \in {"cancel", "cancelDial", "forwarded"} => asked[c] \in CancelKeys
       /\ phase[c] \in {"cancelDial", "forwarded"} => target[c] \in Targets
       /\ phase[c] \in {"dial", "send", "relay"} =>
            asked[c] \in Databases /\ target[c] \in Targets
       /\ up[c] # "off" <=> phase[c] = "relay"
       /\ down[c] # "off" <=> phase[c] = "relay"
  /\ \A k \in CancelKeys :
       issuer[k] # None =>
         phase[issuer[k]] \in Ended \cup {"relay"} /\ target[issuer[k]] \in Targets

\* The snapshot of a connection is one of the maps the file has held since.
SnapshotIsOffered ==
  \A c \in Conns :
    /\ phase[c] = "accepted" => Pairs(routes) \subseteq offered[c]
    /\ phase[c] = "reading" =>
         snapshot[c] \in RouteMaps /\ Pairs(snapshot[c]) \subseteq offered[c]

\* A relay goroutine has stopped only because one of the two ends has.
HalvesEndForCause ==
  \A c \in Conns :
    /\ deadline[c] = "armed" => phase[c] = "reading"
    /\ down[c] = "done" => server[c] # "open" \/ client[c] = "closed"

\* The safety properties above, strengthened so that every step preserves them.
IInv ==
  /\ TypeOK
  /\ KeyPath
  /\ Stages
  /\ KnownKeyIsCancellable
  /\ RegistryHasNoLeak
  /\ CancelReachesIssuer
  /\ SnapshotIsOffered
  /\ HalvesEndForCause

-----------------------------------------------------------------------------
(* Liveness                                                                 *)

Closed(c) == phase[c] \in Ended

\* Under FairSpec, no client, silent or slow, holds a connection in its startup
\* stage for ever.
StartupCompletes ==
  \A c \in Conns :
    phase[c] \in Started \ {"relay"} ~> phase[c] = "relay" \/ Closed(c)

\* Under FairSpec, when the client is gone the session ends, although the upstream
\* would have kept its connection open: unless, from some moment on, the proxy is
\* blocked in a Write to an upstream that does not read.
ClientGoneSessionEnds ==
  \A c \in Conns : []<>(up[c] # "write") => (client[c] = "closed" ~> Closed(c))

\* Under FairSpec, when the upstream is gone the session ends, although the client
\* is idle: unless, from some moment on, the proxy is blocked in a Write to a client
\* that does not read.
UpstreamGoneSessionEnds ==
  \A c \in Conns :
    []<>(down[c] \notin {"forward", "write"}) => (server[c] = "closed" ~> Closed(c))

-----------------------------------------------------------------------------
(* Refinement                                                               *)

\* The abstract state: the keys issued, the keys live sessions' clients hold, the
\* key each client has sent a request for, and what has become of it.  A request
\* counts from the moment it is sent, and as sent on only once it has been written
\* to an upstream; every other way it may end is a loss of its own.
Issued == {<<k, target[issuer[k]]>> : k \in {j \in CancelKeys : issuer[j] # None}}
Live == {k \in known : phase[issuer[k]] = "relay"}
Readable == routes # Unreadable
AskedKey == [c \in Conns |-> IF asked[c] \in CancelKeys THEN asked[c] ELSE None]
FateIn(p, t) == IF p = "forwarded" THEN t ELSE IF p \in Ended THEN p ELSE "none"
Fate == [c \in Conns |-> IF asked[c] \in CancelKeys THEN FateIn(phase[c], target[c]) ELSE "none"]

CR == INSTANCE CancelRouting
        WITH Requests <- Conns, issued <- Issued, live <- Live, readable <- Readable,
             asked <- AskedKey, fate <- Fate

\* The proxy implements CancelRouting: a cancel request that a client has sent has
\* one fate.  It is written to the upstream that issued its key, or it is lost in
\* one of five ways: no live session's client holds the key, the routes file could
\* not be read when the connection was accepted, the upstream could not be reached,
\* ten seconds had passed, the daemon went down.
CancelsAreRouted == CR!Spec

=============================================================================
