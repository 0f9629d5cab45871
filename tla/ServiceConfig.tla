----------------------------- MODULE ServiceConfig -----------------------------
(***************************************************************************)
(* What the `db` commands make of config.yaml (src/internal/db/service.go):*)
(* the names of the services and the tables of their endpoints, the active *)
(* service, the discovery and its legacy URL, and the routes written from  *)
(* them.                                                                   *)
(*                                                                         *)
(* A command is one step here; DbCommands has its steps, the other files   *)
(* and what may go wrong between them.                                     *)
(*                                                                         *)
(* The file the first command finds was edited by hand or written by an    *)
(* older version: names in any spelling, repeated or blank, a table        *)
(* keyed by any spelling, values missing or of unknown services, an        *)
(* active service that is not listed, a URL instead of scheme and host.    *)
(*                                                                         *)
(* What is abstracted:                                                     *)
(*  - a string is trimmed, and a blank one is None; spellings of one       *)
(*    service differ in case, and names are ASCII, for which strings.ToLower *)
(*    and strings.EqualFold agree;                                         *)
(*  - no table of the first file spells one service twice: which value is  *)
(*    kept then depends on the iteration order of a Go map;                *)
(*  - the endpoint mask, role, local host and port are kept or replaced by *)
(*    their defaults, one by one.                                          *)
(***************************************************************************)
EXTENDS Selections

CONSTANTS Spellings,  \* service names as users write them
          KeyOf,      \* serviceKey: the lower-case spelling of each
          Endpoints,  \* what discovery may answer: an address and an instance
                      \* name, which may be None
          Hosts,      \* service discoveries
          Disks,      \* the files to begin with
          Garbled,    \* a legacy URL that cannot be parsed
          None        \* blank or missing

ASSUME KeyAssumption ==
  /\ KeyOf \in [Spellings -> Spellings]
  /\ \A s \in Spellings : KeyOf[KeyOf[s]] = KeyOf[s]
VARIABLES
  disk,    \* the db section of config.yaml
  cfg,     \* the configuration the next command gets when it loads it
  routes,  \* db-routes.json: the endpoint of each service, None when missing
  last,    \* the last command
  result   \* how it ended: "ok", "idle" (ok with nothing to do), "failed"

vars == <<disk, cfg, routes, last, result>>

Keys == {KeyOf[s] : s \in Spellings}
Schemes == {"http", "https"}
Addresses == {e.address : e \in Endpoints}
Instances == {e.instance : e \in Endpoints} \ {None}
Discoveries == [scheme : Schemes, host : Hosts]
Routes == [address : Addresses, instance : Instances \cup {None}]
RouteFiles == UNION {[ks -> Routes] : ks \in SUBSET Keys}

\* The db section of config.yaml.
Configurations ==
  [scheme : Schemes \cup {None}, host : Hosts \cup {None},
   legacy : Discoveries \cup {Garbled, None},
   active : Spellings \cup {None}, names : Seq(Spellings \cup {None}),
   table : [address : [Spellings -> Addresses \cup {None}],
            instance : [Spellings -> Instances \cup {None}]],
   current : [address : Addresses \cup {None}, instance : Instances \cup {None}]]

\* No table spells a service twice.
Unambiguous(d) ==
  \A values \in {d.table.address, d.table.instance} :
    \A s, t \in Spellings :
      KeyOf[s] = KeyOf[t] /\ values[s] # None /\ values[t] # None => s = t

ASSUME EndpointAssumption == Endpoints \subseteq Routes /\ None \notin Addresses
ASSUME DisksAssumption == Disks \subseteq Configurations /\ \A d \in Disks : Unambiguous(d)
ASSUME NoneAssumption ==
  None \notin Spellings \cup Hosts \cup Schemes \cup Discoveries \cup Routes \cup RouteFiles

\* Every variable has a value of the kind the code gives it.
TypeOK ==
  /\ disk \in Configurations
  /\ routes \in RouteFiles \cup {None}
  /\ last \in {"none", "init", "add", "remove", "start"}
  /\ result \in {"none", "ok", "idle", "failed"}

-----------------------------------------------------------------------------
(* Lists of names and tables of values                                      *)

\* Names are compared by strings.EqualFold or by key.
Listed(names, s) == \E i \in DOMAIN names : KeyOf[names[i]] = KeyOf[s]

\* normalizeServiceNames: the first spelling of each service, in order.
Normalized(names) ==
  At(names, {i \in DOMAIN names :
               /\ names[i] # None
               /\ \A j \in 1..(i - 1) : names[j] = None \/ KeyOf[names[j]] # KeyOf[names[i]]})

\* upsertServiceName
Upserted(names, s) ==
  IF s = None \/ Listed(Normalized(names), s)
  THEN Normalized(names)
  ELSE Append(Normalized(names), s)

\* removeServiceName
Without(names, s) ==
  LET list == Normalized(names) IN
  At(list, {i \in DOMAIN list : KeyOf[list[i]] # KeyOf[s]})

\* normalizeServiceValues: keyed by key, and only the services listed.
NormalTable(names, t) ==
  [k \in Spellings |->
     IF k \in Keys /\ Listed(names, k) /\ \E s \in Spellings : KeyOf[s] = k /\ t[s] # None
     THEN t[CHOOSE s \in Spellings : KeyOf[s] = k /\ t[s] # None]
     ELSE None]

\* Mutant of Get: both values come from ServiceTargets.
GetTargets(table, s) ==
  [address |-> table.address[KeyOf[s]], instance |-> table.address[KeyOf[s]]]

\* getServiceValue in ServiceTargets and ServiceInstances.
Get(table, s) == [address |-> table.address[KeyOf[s]], instance |-> table.instance[KeyOf[s]]]

\* setServiceValue or, with None, deleteServiceValue in both.
Set(table, s, e) ==
  [address |-> [table.address EXCEPT ![KeyOf[s]] = e.address],
   instance |-> [table.instance EXCEPT ![KeyOf[s]] = e.instance]]

\* What Start sets for the services it has asked for, one after the other.
Refreshed(table, asked, answer) ==
  [address |-> [k \in Spellings |-> IF k \in asked THEN answer[k].address
                                    ELSE table.address[k]],
   instance |-> [k \in Spellings |-> IF k \in asked THEN answer[k].instance
                                     ELSE table.instance[k]]]

Nothing == [address |-> None, instance |-> None]

\* Each value, or the other one where it is blank.
Or(e, other) == [address |-> IF e.address # None THEN e.address ELSE other.address,
                 instance |-> IF e.instance # None THEN e.instance ELSE other.instance]

-----------------------------------------------------------------------------
(* The configuration a command works on                                     *)

\* Mutant of Backfilled: the default scheme is there before the legacy URL.
BackfilledLate(d) ==
  IF d.legacy \in Discoveries /\ d.host = None
  THEN [d EXCEPT !.scheme = IF @ = None THEN "http" ELSE @, !.host = d.legacy.host]
  ELSE d

\* backfillFromLegacy
Backfilled(d) ==
  IF d.legacy \in Discoveries
  THEN [d EXCEPT !.scheme = IF @ = None THEN d.legacy.scheme ELSE @,
                 !.host = IF @ = None THEN d.legacy.host ELSE @]
  ELSE d

\* applyDefaults
Effective(d) ==
  LET names == Upserted(d.names, d.active)
      active == IF d.active = None /\ names # <<>> THEN names[1] ELSE d.active
      normal == [address |-> NormalTable(names, d.table.address),
                 instance |-> NormalTable(names, d.table.instance)]
      table == IF active = None THEN normal
               ELSE Set(normal, active, Or(Get(normal, active), d.current))
      current == IF active = None THEN d.current ELSE Or(d.current, Get(table, active))
      b == Backfilled(d)
  IN [b EXCEPT !.scheme = IF @ = None THEN "http" ELSE @,
               !.names = names, !.active = active, !.table = table, !.current = current]

\* Discovery is configured.
Configured(c) == c.host # None

\* What is routed for the names that are listed.
RoutesFrom(c) == [k \in {KeyOf[n] : n \in ToSet(c.names)} |-> Get(c.table, k)]

Routable(c) == \A n \in ToSet(c.names) : Get(c.table, n).address # None

Save(c) == disk' = c /\ cfg' = Effective(c)

\* Mutant of SaveAndRoute: services without a target are left out.
SaveAndRouteSome(c) ==
  /\ Save(c)
  /\ routes' = [k \in {x \in DOMAIN RoutesFrom(c) : RoutesFrom(c)[x].address # None}
                  |-> RoutesFrom(c)[k]]
  /\ result' = "ok"

\* The configuration is saved first; a service without a target then makes the
\* routes fail, and the file of before stays.
SaveAndRoute(c) ==
  /\ Save(c)
  /\ IF Routable(c)
     THEN routes' = RoutesFrom(c) /\ result' = "ok"
     ELSE UNCHANGED routes /\ result' = "failed"

-----------------------------------------------------------------------------
(* The commands                                                             *)

Init ==
  /\ disk \in Disks
  /\ cfg = Effective(disk)
  /\ routes = None
  /\ last = "none"
  /\ result = "none"

\* Without --force a configured discovery is left as it is.
DbInit(force, discovery) ==
  /\ last' = "init"
  /\ IF Configured(cfg) /\ ~force
     THEN result' = "idle" /\ UNCHANGED <<disk, cfg>>
     ELSE /\ Save([cfg EXCEPT !.scheme = discovery.scheme, !.host = discovery.host,
                              !.legacy = None])
          /\ result' = "ok"
  /\ UNCHANGED routes

\* The service becomes the active one.
DbAdd(s, e) ==
  /\ Configured(cfg)
  /\ last' = "add"
  /\ SaveAndRoute([cfg EXCEPT !.active = s, !.names = Upserted(@, s),
                              !.table = Set(@, s, e), !.current = e, !.legacy = None])

\* Mutant of Deactivated: the target of the removed service stays.
DeactivatedName(c) == [c EXCEPT !.active = IF c.names = <<>> THEN None ELSE c.names[1]]

\* The first service that is left becomes the active one.
Deactivated(c) ==
  IF c.names = <<>>
  THEN [c EXCEPT !.active = None, !.current = Nothing]
  ELSE [c EXCEPT !.active = c.names[1], !.current = Get(c.table, c.names[1])]

\* The routes file goes with the last service.
DbRemove(s) ==
  LET rest == [cfg EXCEPT !.names = Without(@, s), !.table = Set(@, s, Nothing)]
      edited == IF cfg.active # None /\ KeyOf[cfg.active] = KeyOf[s]
                THEN Deactivated(rest) ELSE rest
  IN
  /\ last' = "remove"
  /\ IF ~Listed(cfg.names, s)
     THEN result' = "idle" /\ UNCHANGED <<disk, cfg, routes>>
     ELSE IF edited.names = <<>>
          THEN Save(edited) /\ routes' = None /\ result' = "ok"
          ELSE SaveAndRoute(edited)

\* Discovery answers for every service, or nothing is saved.
DbStart(answer) ==
  LET table == Refreshed(cfg.table, {KeyOf[n] : n \in ToSet(cfg.names)}, answer) IN
  /\ Configured(cfg) /\ cfg.names # <<>>
  /\ last' = "start"
  /\ SaveAndRoute([cfg EXCEPT !.table = table, !.current = Get(table, cfg.active),
                              !.legacy = None])

\* Nothing is configured, a prompt is abandoned, or discovery or an endpoint
\* does not answer.
CommandFails(o) ==
  /\ last' = o
  /\ result' = "failed"
  /\ UNCHANGED <<disk, cfg, routes>>

Next ==
  \/ \E force \in BOOLEAN, d \in Discoveries : DbInit(force, d)
  \/ \E s \in Spellings, e \in Endpoints : DbAdd(s, e)
  \/ \E s \in Spellings : DbRemove(s)
  \/ \E answer \in [Keys -> Endpoints] : DbStart(answer)
  \/ \E o \in {"init", "add", "start"} : CommandFails(o)

Spec == Init /\ [][Next]_vars

-----------------------------------------------------------------------------
(* Properties                                                               *)

\* What a file says, read without the code: the discovery, the services, and the
\* endpoint of each, which for the active one may be in the fields of old.
SourceOf(d) ==
  IF d.host = None /\ d.legacy \notin Discoveries THEN None
  ELSE [scheme |-> IF d.scheme # None THEN d.scheme
                   ELSE IF d.legacy \in Discoveries THEN d.legacy.scheme ELSE "http",
        host |-> IF d.host # None THEN d.host ELSE d.legacy.host]

ServicesOf(d) == {KeyOf[s] : s \in (ToSet(d.names) \cup {d.active}) \ {None}}

IsActive(d, k) ==
  \/ d.active # None /\ KeyOf[d.active] = k
  \/ /\ d.active = None
     /\ \E i \in DOMAIN d.names :
          /\ d.names[i] # None /\ KeyOf[d.names[i]] = k
          /\ \A j \in 1..(i - 1) : d.names[j] = None

\* What the file has for k among the values, or in the field of old.
Entry(d, k, values, old) ==
  LET entries == {values[s] : s \in {x \in Spellings : KeyOf[x] = k}} \ {None} IN
  IF entries # {} THEN CHOOSE v \in entries : TRUE
  ELSE IF IsActive(d, k) THEN old ELSE None

EndpointOf(d, k) ==
  IF k \in ServicesOf(d) /\ Entry(d, k, d.table.address, d.current.address) # None
  THEN [address |-> Entry(d, k, d.table.address, d.current.address),
        instance |-> Entry(d, k, d.table.instance, d.current.instance)]
  ELSE None

\* However the file spells, repeats and omits things, the commands treat it as a
\* catalog of services: adding, removing and refreshing a service under one
\* spelling concerns all of them and nothing else, removing one for good; and the
\* discovery of a legacy URL stays the one that was configured.
C == INSTANCE Catalog WITH
  Sources <- Discoveries, Endpoints <- Routes,
  source <- SourceOf(disk), services <- ServicesOf(disk),
  endpoint <- [k \in Keys |-> EndpointOf(disk, k)]
CatalogFollowed == C!CatalogSpec

\* A command that succeeds leaves exactly the configured services routed, each to
\* its endpoint in the configuration it leaves.
SuccessMeansRouted ==
  result = "ok" /\ last \in {"add", "remove", "start"} =>
    IF ServicesOf(disk) = {} THEN routes = None
    ELSE routes # None /\ routes = [k \in ServicesOf(disk) |-> EndpointOf(disk, k)]

\* Once the target the file names is that of its active service, it stays so,
\* whichever service is active.
Settled(c) ==
  IF c.active = None THEN c.current = Nothing ELSE c.current = Get(c.table, c.active)
ActiveStaysSettled == [][Settled(cfg) => Settled(cfg')]_vars
=============================================================================
