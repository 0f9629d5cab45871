-------------------------------- MODULE Catalog --------------------------------
(***************************************************************************)
(* What the `db` commands promise about the services a user has            *)
(* configured, whatever files they keep them in: where services are looked *)
(* up, which services there are, and the endpoint each one was last given. *)
(*                                                                         *)
(* ServiceConfig implements it with a config.yaml that spells, repeats and *)
(* omits things as users and older versions of the program wrote them;     *)
(* DbCommands implements it with files written step by step.               *)
(***************************************************************************)
CONSTANTS Keys,       \* the services, whatever their spelling
          Endpoints,  \* what a service may be given
          Sources,    \* service discoveries
          None        \* no source, no endpoint

VARIABLES
  source,    \* where services are looked up
  services,  \* the services configured
  endpoint   \* the endpoint of each, None for the others and when not known

catalog == <<source, services, endpoint>>

CatalogInit ==
  /\ source \in Sources \cup {None}
  /\ services \in SUBSET Keys
  /\ endpoint \in [Keys -> Endpoints \cup {None}]
  /\ \A k \in Keys \ services : endpoint[k] = None

\* Discovery is configured, again or for the first time; services stay.
Configure(s) ==
  /\ source' = s
  /\ UNCHANGED <<services, endpoint>>

\* A service is added, or given a new endpoint, once discovery is configured;
\* the others stay as they are.
Add(k, e) ==
  /\ source # None
  /\ services' = services \cup {k}
  /\ endpoint' = [endpoint EXCEPT ![k] = e]
  /\ UNCHANGED source

\* A service is removed; the others and the discovery stay as they are.
Remove(k) ==
  /\ k \in services
  /\ services' = services \ {k}
  /\ endpoint' = [endpoint EXCEPT ![k] = None]
  /\ UNCHANGED source

\* Every service is given an endpoint.
Refresh ==
  /\ source # None /\ services # {}
  /\ endpoint' \in [Keys -> Endpoints \cup {None}]
  /\ \A k \in Keys : endpoint'[k] # None <=> k \in services
  /\ UNCHANGED <<source, services>>

CatalogNext ==
  \/ \E s \in Sources : Configure(s)
  \/ \E k \in Keys, e \in Endpoints : Add(k, e)
  \/ \E k \in Keys : Remove(k)
  \/ Refresh

CatalogSpec == CatalogInit /\ [][CatalogNext]_catalog
=============================================================================
