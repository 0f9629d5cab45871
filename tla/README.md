# A verification project for wslbridge

wslbridge gives an Ubuntu/WSL machine a way out through a SOCKS gateway
(`wslbridge init`, `stop`) and a local PostgreSQL endpoint that finds its
databases through service discovery (`wslbridge db ...`). These TLA+ modules
model what keeps state while several actors move - the proxy daemon, the
commands that manage it, the workflow that rewires the network - and the
functions without state that decide something. Every module is translated from
the Go code under `src/internal`; `PROJECT.json` maps each definition to the
lines it stands for.

## Inventory

| Component | State | Operations | Hard because |
|---|---|---|---|
| Proxy sessions (`db/proxy.go`) | the cancel registry (a map under a mutex), per connection: route snapshot, read deadline, upstream socket, two relay goroutines, the key to delete | accept, load routes, read negotiation/startup/cancel packets, dial, relay both ways, register and delete keys | one goroutine per connection and two more per session; half-closes; the routes file changes under them; cancel requests race the sessions they cancel |
| db commands and daemon life (`db/service.go`, `db/proxy.go`, `config/config.go`) | `config.yaml`, `db-routes.json`, `db-proxy.pid`, `db-proxy.json`, the daemon process | `db init`, `add`, `remove`, `start`, `stop`; start, kill and record the daemon | files are truncated and filled, never renamed into place; a pid says little about a process; commands are killed, machines reboot, two command lines may run |
| Service catalog (`db/service.go`: `loadConfig`, `applyDefaults`, names and tables) | the db section of `config.yaml`: names, two tables, active service, discovery, legacy URL | the edits of every command, normalisation on every load, routes from tables | files edited by hand or written by an older version: spellings, repetitions, omissions; the target of the active service is held twice |
| Traffic bridge (`commands/init-ubuntu`, `tun2socks`) | default route and its backup, tun device, `tun2socks.pid`, the tun2socks process, SOCKS host of `config.yaml`, `/etc/wsl.conf` and `/etc/resolv.conf` with their backups | `init`, `init --force`, `stop` | a dozen external commands, each of which may fail, and no roll-back; a process is told to exit and not waited for; an old pid file; a backup taken once and kept for ever; the machine moves between networks |
| Gateway inference (`commands/init-ubuntu/gateway.go`) | none | the SOCKS gateway from the address of eth0 | carries, borders of networks |
| Service discovery client (`db/service_discovery.go`) | none | fetch endpoints, choose one, derive, normalise and render URL masks | placeholders go through URL encoding and back |
| Configuration path (`runtime/config_path.go`) | none, but saving makes the file it looks for | find the project root, choose the project's file or the user's | depends on the directory a command is run in |
| Connectivity check (`db/connectivity.go`) | none | dial an endpoint once | - |
| Status commands, prompts, registry, drivers, platforms | none | print, terminal I/O, dispatch, apt | not stateful |

How they interact: the `db` commands write `db-routes.json`, which the daemon
reads once per accepted connection; they start and kill the daemon and find it
again through `db-proxy.pid` and `db-proxy.json`. A client of the daemon is a
PostgreSQL driver; a second connection of the same driver carries a cancel
request, which reaches the right upstream through the cancel registry that the
sessions share. The bridge shares only `config.yaml` with the rest.

What makes each correct:

- sessions: a session goes to a route that was offered to it; a cancel request
  goes to the server that issued the key and to no other, and is not lost
  without a cause that can be named; nothing leaks; half-closed sessions still
  get their answer; nobody holds a connection for ever in its startup stage, and
  a session ends with either of its ends;
- commands: one daemon, always found again; success means that the daemon
  serves what the configuration says; a service is forgotten only on request;
- catalog: however the file spells a service, a command concerns that service
  and no other, and every service keeps its own endpoint;
- both together: a client that connects is served as configured, and its
  session lives until the user stops or moves the proxy;
- bridge: success of `init` means that traffic flows into a live tun2socks that
  proxies to the gateway of the network the machine is on; success of `stop`
  means that routes and processes are as before and the files as the user last
  had them, with the exceptions that the properties name;
- functions: the inferred gateway is another host of the network; no better
  endpoint was passed over; a derived mask asks for what the sample asked for;
  a command finds the configuration an earlier one saved.

## Modules

| Module | What it is |
|---|---|
| `CancelRouting` | abstract: what the proxy promises about query cancellation |
| `ProxySessions` | the daemon: one action per step of `proxyConn` and its goroutines |
| `ProxySessionsProofs` | the inductive invariant and the safety theorems of `ProxySessions` |
| `CancelRefinementProofs` | `ProxySessions` implements `CancelRouting` |
| `Catalog` | abstract: what the `db` commands promise about the configured services |
| `DbCommands` | the `db` commands, one file or process step at a time, and the daemon's life |
| `DbCommandsProofs` | the inductive invariants and the safety theorems of `DbCommands`; it implements `Catalog` |
| `ServiceConfig` | the content of `config.yaml`, one command at a time; it implements `Catalog` too |
| `ServiceConfigProofs` | the inductive invariant and the theorems of `ServiceConfig`, the refinement among them |
| `System` | `DbCommands` and `ProxySessions` together |
| `SystemProofs` | the theorems of `System`; those of `ProxySessions` hold for it |
| `Bridge` | `init` and `stop`, one external command at a time, and tun2socks |
| `BridgeProofs` | the inductive invariant and the safety theorems of `Bridge` |
| `Gateway`, `Discovery`, `ConfigPath` | the stateless functions, as operators |
| `Lookups` | calls of those functions, and what each is for |
| `LookupsProofs` | the theorems of `Lookups`: gateways for octets of eight bits, lists, URLs and directory trees of any length |
| `Selections`, `SelectionsProofs` | what a loop that filters a list keeps of it, and what is true of that |
| `MC*` | instances for TLC |

A definition whose comment begins with "Mutant of" is a plausible bug in the
operator it names. Nothing refers to it; substituted for the operator it makes
TLC report the property `PROJECT.json` lists beside it, which shows that the
property depends on that line of the code.

`Worlds` in `DbCommands` and `Bridge` is a set of environments, each a set of
faults, and the variable `faults` is the environment of a behaviour, chosen at
the beginning. A property that some fault defeats says so with `Without({...})`,
so that it is plain which property holds in which world, and one run explores
all of them.

### ProxySessions

`phase[c]` is where the goroutine of connection c is: `accepted` (line 231 of
`proxy.go`), `reading` (the loop of `readClientRequest`), `cancel` and
`cancelDial` (`relayCancelRequest`), `dial`, `send`, `relay` (waiting on
`done`), or one of the ways it ends. `up[c]` and `down[c]` are the two relay
goroutines; `down` distinguishes the moment between `cancelRegistry.Put` and
the write of BackendKeyData to the client (`forward`), and each of the two may be
in the Write of other data (`write`), where it stays as long as its peer does not
read. `client[c]` and `server[c]` are the two ends as the operating system
reports them, `wire[c]` is a key on its way to the proxy, `asked[c]` the request
the client has sent, read or not: the routes are loaded before it is read, so a
request may be refused unread. `issuer`, `known` and `offered` are history
variables that no guard of the proxy reads.

The registry's `Put`, `Get` and `Delete` are atomic because each holds the
mutex throughout; everything else interleaves freely. Of messages other than
BackendKeyData only the blocking of their Writes is kept, and the content of
error responses is left out. An upstream may send a session several keys, as
`relayServerToClient` expects nothing else: the last one is the one `proxyConn`
deletes. A backend's key is assumed to differ from every key issued before (64
bits, 32 of them random); `IssueKey` says so.

The routes file is `Unreadable` while it is missing, truncated, invalid or
empty, which is the same to `loadProxyRoutes`.

`CancelRouting` gives a cancel request, from the moment its client sends it, one
fate: it is written to the upstream that issued its key, or lost, for one of five
reasons (`Losses`). One of them is harmless, `dropped`: no client of a live
session holds the key. The others lose a request for a key that may be live, and
the code allows each of them: `refused` while the routes file cannot be read,
although the request needs no route; `unreachable` when the dial of three seconds
or the Write fails; `late` after the ten seconds of the startup stage; `killed`
with the daemon. What the refinement shows is that these are all, that each has
its cause (a request is never dropped while a client of a live session holds its
key, nor refused while the file can be read) and that none goes to another
upstream.

### DbCommands

`pc[i]` is the next step of command line i, `cfg[i]` the configuration it has
in memory. `kind[p]` is what runs under pid p: nothing, a daemon that does not
listen yet, one that does, a zombie of a daemon (its parent does not wait for
it), or another program of the user. `calm[i]` and `lastConfig` are history.

`os.WriteFile` is two steps, truncation and content, for each of the four files.
`kill`, the wait of two seconds and `kill -9` are one step. Writes do not fail:
an interrupted one is a crash.

### ServiceConfig

`disk` is the db section of `config.yaml`, `cfg` what `loadConfig` makes of it,
on which the next command works. `DbCommands` reduces both to one target per
service; here they are what the file holds: `names` in any spelling,
`table.address` and `table.instance` (`service_targets`, `service_instances`)
keyed by any spelling, `active` and `current` (the fields of the active
service), `scheme`, `host` and the `legacy` URL. A command is one step, since
`DbCommands` has the steps. `Effective` is `applyDefaults`, with
`backfillFromLegacy` in `Backfilled`.

`SourceOf`, `ServicesOf` and `EndpointOf` read the file without that code: they
are the refinement mapping to `Catalog`. The loops that filter a list of names
are `At` of module `Selections`, which gives the result by the places that are
kept: a fold over the list would say the same and could not be reasoned about.

### System

Its state is that of both modules, but for the routes file, which they share,
and the daemon, which is up when some process listens. A step is one of
`DbCommands` with what the sessions notice of it (`React`: the end of the
process ends them and the registry, a new file is there for those that have not
read it), or one of a connection of `ProxySessions`. The environment actions of
`ProxySessions` are not used: that the commands do nothing else is the property
`SessionsFollowed`. `fresh[c]` is history.

### Bridge

`pc` is the next step and `about` the file under `/etc` it is about. `uplink`
is the network the machine is on; a gateway, a route through it and a SOCKS
host at it are named by the network. `link` is the tun device, `proc[p]` what
runs under pid p: sudo that has not yet executed tun2socks, tun2socks without
the device, attached to it, killed and not yet gone, or another program;
`via[p]` is the SOCKS host it was started with. `StepFails` makes any external
command of a workflow fail and the workflow return (`ChmodFails` when the file
is already in its place); `CommandCrashes` stops it between any two steps. Some
failures the code does not look at: `FailureIgnored` is the saving of the route
and the removal of the device, and in a world with `fails` the processes that
`StopIfRunning` tells to stop are any part of those it means to, and the pid file
may stay.

A file under `/etc` is absent, the bridge's, or one of `Versions`, what the user
may write. `UserEdits` changes it between commands. `own[f]` is the user's last
version of it and `edited` the files that have been edited since they have a
backup; both are history. The first backup of a file is kept for ever, so it may
be any of these versions: `StopRestoresFiles` says that a successful `stop` leaves
the user's last version unless the backup was cut short or is older than the last
edit, and in both cases TLC finds the behaviour in which it does not.

The machine is a WSL one. The uplink's default route carries no metric, as on
WSL, so that `ip route replace` replaces it. The address of the SOCKS gateway
comes from the route read, the saved one, `config.yaml` or eth0, in this order;
what eth0 suggests is module `Gateway` and here it is the network's gateway.
Packages and flags change nothing that the properties tell apart.

### Gateway, Discovery, ConfigPath and Lookups

`Gateway` has addresses of four octets of `Base` values and networks by their
size. `Discovery` has URLs as sequences of tokens (a name, a dot with what
follows, the placeholders, their percent-encoded forms) because what may go
wrong is which of these is encoded when; the
query of a request has a key before `service`, `service` itself and one after it,
so that sorting the query matters. `ConfigPath` has directories by depth.
The state of `Lookups` is one call with its arguments and results.

## Runs

| Run | What it shows | Bounds |
|---|---|---|
| `sessions_one` | how a connection is routed and relayed: the routes of its accept, the startup deadline, half-close; silent clients do not hold connections; a session ends when one of its ends is gone, unless a Write stays blocked | 1 connection, 2 databases, 2 upstreams, 2 keys, 2 route maps, 4 attempts |
| `sessions_cancel` | the invariant of the proofs; keys and their registry; the refinement of `CancelRouting` | 2 connections, 1 database, 2 upstreams, 2 keys, 2 route maps, 1 attempt |
| `db_all` | one daemon, never out of reach, gone after `stop`; files and daemon follow the commands; success repairs what crashes left; `DbCommands` implements `Catalog` | 1 command line, 2 services, 1 target, 2 ports, 3 pids; 4 worlds: other programs and taken ports, reboots, both, crashes with slow daemons |
| `services` | the content of `config.yaml` implements `Catalog`; what succeeds is routed; the target of the active service stays consistent | 3 spellings of 2 services, 2 endpoints (one with an instance name), 2 discoveries, every listed file to begin with |
| `system` | the commands are the environment the sessions are made for; clients are served as configured; sessions end with `stop` or a change of port and not otherwise | 1 command line, 2 services, 1 target, 2 ports, 2 pids, 1 connection, 1 key; the daemon may die |
| `bridge` | what a successful `init` sets up and a successful `stop` gives back of routes, processes and files | 2 pids, 2 networks, 1 file in 2 versions; 6 worlds: failures, deaths, reboots and resets; roaming, reboots and resets; other programs, slow exits, deaths and failures; crashes, deaths and reboots; edits, crashes and failures; edits, deaths and reboots |
| `lookups` | every stateless function against what it is for | octets of 2 bits and networks of 1 to 256 addresses; lists of 3 endpoints; paths and values of 3 tokens, queries of 2 parameters; 3 directories |
| `db_occupied`, `db_reboot`, `bridge_died`, `bridge_force`, `bridge_moved` | disagreements of the code with its comments, below | as small as the case allows |

Why the bounds are enough. Cancellation involves at most a session, a cancel
request and, for the wrong upstream to be reached, a second session or a second
target: a connection that has ended keeps its history, so two connections show a
request against a session that is live, ending, ended or not there, and the
theorems below hold for any number. Two keys are a second one on the same
session or one on each. What a negotiation before the request adds is in
`sessions_one`, whose four attempts are the code's own. How a connection is
routed, relayed and ended involves no other connection, so that run has one. A
command line meets at most two daemons (an old one and its replacement) and one
foreign program, hence three pids; two ports are what a replacement needs; two
services are what a lost or a last service needs; that a service moves to
another target is in `services`; that the daemon moves to another port is in
`system`. There one connection meets every state of the commands; how
connections meet each other is in the runs of the sessions. One tun2socks and
its successor are all that `init --force` can bring about, hence two pids. Two
networks are the one of an old route and the one the machine is on. Two versions
of a file are the one that was backed up and the one the user has made of it.
What `init` and `stop` do to one file does not depend on the other, but that a
command may end between the two: `bridge` has one file, and the theorem
`FilesComeBack` holds for both. Whether faults are combined in a world changes
what is checked, not only how much: the worlds are the largest that keep the run
within a few minutes, and with the theorems of `BridgeProofs` and
`DbCommandsProofs` their number does not matter to the properties proved. The
functions branch on one border, one placeholder or one directory at a time; two
bits are the fewest for which an octet is neither empty nor full, and a network
of 256 addresses covers all octets.

Pids, connections, keys, targets, services and networks are interchangeable in
the safety runs and declared symmetric where they are; the default port is not,
and the runs of liveness properties use no symmetry.

Deadlock is checked in every run: a daemon can always be started and killed and
a command can always be invoked, so none of these systems stops.

### Fairness

`FairSpec` assumes that the Go scheduler runs the goroutine of `proxyConn` when
it can move, that timers fire, and that the system answers every dial, in
whatever way (the dial of the upstream has no timeout of its own).

Of the relay it assumes that a goroutine whose source is gone and which is back
at its Read again and again reaches the end of it: what is left in the socket is
finite (strong fairness of `UpReadEnds` and `DownReadEnds`, because in between
it may be in a Write), that a Write to a peer that is gone returns, and that a
peer which has been sent end-of-file closes its end at last. Nothing is assumed
of a Write to a peer that is there: it may block for as long as the peer does
not read, because the code sets no deadline for it, and while it does the
goroutine does not notice that its source is gone. So `ClientGoneSessionEnds`
and `UpstreamGoneSessionEnds` claim the end of a session only if its Write does
not stay blocked from some moment on (`[]<>(up[c] # "write")`); without that
condition both fail. Nor is anything assumed of a client that has been told
nothing: it need not send, read or close, and an upstream need not answer.
`NoHalfClose` shows that a peer that closes when told to is not enough by
itself: without the proxy's half-closes nobody tells it. The other modules state
no liveness: a user may always leave a command at a prompt.

### What the failing runs show

- `db_occupied`: the port is held by another program. The daemon exits when it
  cannot bind, but `waitListenReady` reaches the other program and `waitPID` the
  zombie, so `db add` records a dead pid and reports success.
- `db_reboot`: `db-proxy.pid` is in `~/.local/state` and survives a reboot. When
  another program of the user has that pid, `db start` takes it for the daemon,
  rewrites the state files and reports success.
- `bridge_died`: tun2socks dies, the default route stays on the tun device, and
  the next `init` saves that route over the uplink's. `stop` replays it and then
  takes the device down: no default route is left. A failed or killed `init` and
  a second one lead to the same.
- `bridge_force`: `init --force` with the bridge enabled returns at
  `alreadyEnabled`, so it neither asks again nor restarts.
- `bridge_moved`: the machine is on another network. `stop` cannot replay the
  saved route, whose gateway is out of reach, and returns before it has stopped
  tun2socks or restored a file.

The properties of the passing runs fail under the faults that they exclude, in
ways the hazards of `PROJECT.json` list: a daemon slower than two seconds is an
orphan, a command killed between two writes leaves files that disagree, two
command lines lose each other's edits, a foreign program under a recorded pid
passes for tun2socks, the pid of a tun2socks that is still exiting is taken for
its successor's, and a `stop` whose kill has failed reports success. Two rejections
are within what the properties allow, and are listed as hazards: a client that
connects while the routes file is truncated is turned away although its service
is configured, and a cancel request at that moment is lost.

Some of what the models show has no run of its own, and is left to a note here:

- a mask given as a full URL with `<db>` in its path is percent-encoded by
  `RequestURI`; the three placeholders are restored, another `<...>` is not,
  and the mask is then refused;
- a service name with a dot does not survive the derivation of a mask from a
  sample URL, which cuts at the first dot;
- in a network of two addresses or one (/31, /32) the inferred gateway may be
  outside it (`GatewayIsAHost` is about networks with room for two hosts);
- the backup of a file under `/etc` is taken at the first `init` and never again,
  as `backupFileOnce` is named, so `stop` undoes what the user has written there
  since an earlier `stop`;
- where no directory above the one a command is run in has `.git` or `go.mod`,
  `FindProjectRoot` answers the root of the file system and not the directory it
  was given, against its comment ("If nothing found, returns startDir",
  `config_path.go:17`). A configuration at `/.values/values.local.yaml` would
  serve every such directory; `SavedIsFound` is about directories in a project;
- a session whose upstream sends two keys leaves the first in the registry;
- `init` rewrites `/etc/resolv.conf` before the gateway is detected, so the name
  server `InferGateway` sees may be the bridge's own;
- two spellings of one service in a table of `config.yaml` are merged in the
  iteration order of a Go map; `services` begins with files that have one.

## Proofs

Eight modules hold theorems, each about the module it is named after. A result
holds for all values of the constants that satisfy the module's assumptions.
Those are:

- sessions and commands: a positive number of attempts; route maps that are
  maps; distinct values for `None`, `Unreadable`, `Empty` and data; keys that are
  not databases or services; worlds that are sets of faults; a default port that
  is a port;
- bridge: a first file and at most one other; a network to begin with; nothing
  the user writes is the bridge's own, empty or missing;
- catalog: the key of a key is itself; what discovery answers has an address;
  `None` is no spelling, host, discovery or route; the first file is any
  configuration whose tables do not spell a service twice;
- functions: octets of at least two values; sizes of networks that divide the
  addresses; answers that are lists of endpoints; requests of a path and
  parameters; results that are no requests and a user's configuration that is no
  directory.

### ProxySessionsProofs and CancelRefinementProofs

`IInv` is an invariant, and from it type correctness, `KnownKeyIsCancellable`,
`RegistryHasNoLeak`, `CancelReachesIssuer` and the action properties
`RoutedByOfferedMap`, `RelayEndsForCause` and `HalfCloseKeepsAnswer`.

None of the safety properties is inductive by itself. The registry can only be
trusted because a key moves from the upstream to the registry and only then to
the client, and each place it has reached knows the connection it was issued to
(`KeyPath`), and because a connection that asks for a key is not yet, and will
never be, a session (`Stages`). `SnapshotIsOffered` carries the routes from the
file to the choice of the upstream, `HalvesEndForCause` the reason why a relay
goroutine has stopped. The proof that a step preserves `IInv` is split by the
groups of `Next`: the process and its file (`ProcessStep`), the startup stage
(`StartupStep`), cancel requests (`CancelStep`), the relay (`RelayStep`) and the
peers (`PeersStep`), with type correctness apart (`TypeStep`) because every group
needs it.

`CancelRefinementProofs` proves `Spec => CancelsAreRouted`: under the mapping at
the end of `ProxySessions` every step is a step of `CancelRouting` or a
stutter. `FateIn` gives a fate to a request only when its connection ends: one
that is being dialled is not yet sent on, and one that is refused unread has been
asked. The interesting cases are `Lookup`, which must not drop a request for a
key that a client of a live session holds (`KnownKeyIsCancellable`), `LoadRoutes`,
which refuses only while the file cannot be read (`StartupLosses`), `CancelForward`
and `CancelUnreachable`, whose key has been issued by that upstream
(`CancelDialRefines`), `ForwardKey`, which makes a key known, and `Finish` and
`DaemonExits`, which end sessions.

### DbCommandsProofs

Every property of the run `db_all`: type correctness for any number of command
lines, the others under `OneCommandLine` (there is one, whatever its name),
which the code needs: it takes no lock. Three invariants carry them.

- `DaemonInv`: who knows the pid of a daemon. While a command is `Quiet` (it is
  between `Kill` and `Spawn`, or has dropped the routes) there is no daemon;
  while it is `Recording` only the command itself knows the pid; at every other
  step the pid file names every daemon. `NoOrphan`, `OneDaemon` and
  `StopLeavesNoDaemon` follow, in worlds without crashes and slow daemons.
- `FilesInv`: what the two files hold at each step. `Filed` relates both
  files to the configuration in memory once they have been written, `Followed` the two
  files to each other between commands, `Kept` the last configuration written in
  full to what a step is about to write. `RoutesFollowConfig`,
  `SuccessRepairsFiles` and the refinement `CatalogFollowed` follow; the second
  of them with no fault excluded.
- `ServedInv`: which process listens on which port, where only the daemon and
  the machine may fail; `SuccessMeansServing` follows.

### SystemProofs

Every property of the run `system`, under `OneCommandLine`, and with it the
theorems of `ProxySessions` for the composition. `SystemInv` is `DaemonInv` and
`FilesInv` with

- `Truncated`: a command that is about to write the routes has truncated them;
- `PortKnown`: a daemon listens on the port of `db-proxy.json` or, while that is
  being recorded, of the command that started it, and a command that replaces it
  has seen that the ports differ (in worlds without crashes and slow daemons);
- `SessionsInv`: a connection that may still read the routes has had them
  offered (`Watched`), nothing is started or registered while nothing listens
  (`NothingLeft`), and what a connection that began between commands has read is
  the configuration (`FreshRoutes`).

A step of a command changes either the routes or which process listens, never
both; it replaces the routes by nothing or, if they are truncated, by a map with
services (`CommandEffect`). That makes every step one of `ProxySessions`
(`StepIsExpected`), which gives `SessionsFollowed` and `SystemRunsSessions`:
`SystemSpec` implies `Spec` of `ProxySessions`. `SessionsKeepTheirPromises` then
cites the theorems of `ProxySessionsProofs`, instantiated in the place that
`System` gives the sessions, for the registry, cancellation, routing and relays.
In worlds with crashes and slow daemons there may be two daemons, and `System`
keeps the memory of one: about the other one these results say nothing.

### BridgeProofs

Every property of the run `bridge`, without further hypotheses, from one
invariant. Its parts are `Operation` (the steps of `init` are `init`'s),
`FilesKept` (a file that the user has not edited since it has a backup is the
user's own until its backup is; the first is back before `stop` turns to the
second), `RouteValid` (the route is through the machine's network or a device
that is up), `NoOthers` and `OneTun` (one tun2socks, which the pid file or the
command knows), `Found` and `ProxiedLive` (the one that `init` found lives and
proxies to the network `init` read), `Undisturbed` (`init` still has the route
it read, then the device's) and `Reversible` (the route is on the device only
once another one has been saved). Each part that some faults defeat is claimed
for the worlds without them: `StopRestoresFiles` for all worlds, with its two
exceptions in its statement, `InitMeansBridged` without slow exits and other
programs, the rest as the properties say.

### ServiceConfigProofs

Every property of the run `services`, for any services in any spellings and any
file to begin with. `ConfigInv` is the invariant: the types, no service spelled
twice in a table (`Unambiguous`), `cfg` is what the next command loads from
`disk`, and `SuccessMeansRouted`. None of the properties is inductive without
`cfg = Effective(disk)`: a command edits what it has loaded, and the catalog is
what the file says.

The argument has two halves. `Normal(c)` is a configuration with a scheme, names
without blanks, an active service among them, tables keyed by key with values of
the listed services only, and no target of old that the table lacks.

- `EffectiveSays`: whatever the file says, `Effective` makes a normal
  configuration of it that says the same (`SourceOf`, `ServicesOf`,
  `EndpointOf`). It rests on what `Normalized`, `Upserted` and `NormalTable` keep
  (`NormalizedNames`, `UpsertedNames`, `MergedValues`) and on which service is
  the active one when the file names none (`ActiveOf`).
- `InitEdits`, `AddEdits`, `RemoveEdits` and `StartEdits`: each command edits a
  normal configuration into a normal one, changes what `Catalog` says it
  changes, and keeps `Settled`.

`RoutesSay` adds that the routes written from a normal configuration are the
endpoints it says. `NextKeeps` puts these together, action by action, for the
invariant, the step of `Catalog` and `ActiveStaysSettled` at once.

### LookupsProofs and SelectionsProofs

Every property of the run `lookups`.

- `IncrementCarries` and `GatewayIsInNetwork` are about octets of 256 values
  (`Octets`), which TLC cannot enumerate: wherever the carry stops, the value of
  the next address is one more; the gateway of a network of any size with room
  for two hosts is another address of it.
- `BestEndpointIsChosen`: the first endpoint of the best rank, from any list.
- `ConfigurationIsFound`: in a tree of any depth. The nearest marked directory
  is a last element of a set (`LastOf`), and saving marks no other directory of
  the project (`SavedKeepsProjects`).
- `MaskAsksTheSame`: for paths and values of any tokens and any number of
  parameters. Restoring the request URI decodes every token of a sample or a
  mask (`UriDecodes`); what is encoded in between comes back
  (`EncodedAndRestored`); sorting the parameters keeps all of them
  (`SortedQuery`); rendering replaces the one placeholder (`RenderReplaces`).

Statements about all lists or trees need an induction. It is done on sets: a set
of natural numbers that is not empty has a first element (`FirstOf`, from the
well-foundedness of `<`, the one fact of the library about it that takes no
operator), so a place, a directory or an octet that is the first or the last one
exists. `Numbered` and `Kept` derive from cardinalities what `At` keeps of a
list.

### Only model-checked

The three liveness properties of `sessions_one`: neither fairness nor ENABLED is
within reach of TLAPS. The runs that expect a violation show one behaviour each
and have nothing to prove. What the two liveness properties of `sessions_one`
about ends leave open, a Write that stays blocked, is what the code leaves open.

## Not modelled

- `FetchEndpoints`, one HTTP request, and the connectivity check, one dial: a
  target or a failure, from `DbCommands`' point of view.
- `NormalizeServiceDiscoveryInput` and the other checks of single strings
  (`cli/validate.go`), prompts, error texts.
- The parsing of packets beyond what they parse to, and memory: the proxy
  allocates what a message header announces.
- The status commands, which only read.
- Dispatch, drivers, platforms and apt: no state.
- `init` and `db` commands at the same time: `init` loads `config.yaml`, prompts
  and saves all of it, so what a `db` command saved meanwhile is lost. The two
  families are modelled apart, and the hazard is listed.
- A file under `/etc` that is missing at the first `init`: it has no backup, and
  the second `init` backs up the bridge's own. The bridge does that in the
  model; the property is about files that were there or that the user has written
since. Edits are made between commands, not during one.

## Plan

Done: the sessions with their refinement and proofs, the commands and the
content of their configuration with the catalog they implement, both proved, the
composition and the proof that what holds of its parts holds of it, the bridge
and its proofs, the stateless functions and their proofs. Every safety and
action property that a run checks is a theorem.

Next, in this order:

1. `init` together with `db` commands: both save all of `config.yaml`.
2. `DbCommands` with the content of `ServiceConfig` in its files: both implement
   `Catalog`, so that the steps of the one refine the commands of the other.
