---------------------------- MODULE CancelRouting ----------------------------
(***************************************************************************)
(* What the proxy promises about query cancellation, with no connections,  *)
(* goroutines or registry in sight.                                        *)
(*                                                                         *)
(* An upstream issues cancel keys to a session, the session's client       *)
(* learns them, the session ends.  Anyone may ask for a key to be          *)
(* cancelled.  A request has one fate: it is sent to the upstream that     *)
(* issued the key, or it is lost, for one of five reasons.  Only the first *)
(* of them is harmless:                                                    *)
(*   dropped      no client of a live session holds the key;               *)
(*   refused      the routes cannot be read, although a request for a key  *)
(*                needs none of them;                                      *)
(*   unreachable  the upstream that issued the key cannot be reached;      *)
(*   late         the proxy has waited too long to read the request;       *)
(*   killed       the proxy goes down, and with it every session and every *)
(*                request without a fate.                                  *)
(***************************************************************************)

CONSTANTS Requests,    \* cancel requests, each answered at most once
          CancelKeys,  \* (process id, secret key) pairs of BackendKeyData
          Targets,     \* upstream addresses
          None         \* no value

VARIABLES issued,    \* {<<key, target>>}: the keys the upstreams have given out
          live,      \* keys held by the clients of the sessions still relayed
          readable,  \* whether the routes can be read
          asked,     \* the key a request names, or None before it is made
          fate       \* "none", the target the request is sent to, or its loss

vars == <<issued, live, readable, asked, fate>>

Losses == {"dropped", "refused", "unreachable", "late", "killed"}

TypeOK ==
  /\ issued \subseteq CancelKeys \X Targets
  /\ live \subseteq CancelKeys
  /\ readable \in BOOLEAN
  /\ asked \in [Requests -> CancelKeys \cup {None}]
  /\ fate \in [Requests -> Targets \cup {"none"} \cup Losses]

Init ==
  /\ issued = {}
  /\ live = {}
  /\ readable = FALSE
  /\ asked = [r \in Requests |-> None]
  /\ fate = [r \in Requests |-> "none"]

KeysOf(pairs) == {p[1] : p \in pairs}

\* An upstream gives out a key nobody has been given before.
Issue(k, t) ==
  /\ k \notin KeysOf(issued)
  /\ issued' = issued \cup {<<k, t>>}
  /\ UNCHANGED <<live, readable, asked, fate>>

\* The client of the session the key was issued to reads it.
Learn(k) ==
  /\ k \in KeysOf(issued)
  /\ live' = live \cup {k}
  /\ UNCHANGED <<issued, readable, asked, fate>>

\* A session ends, and with it the keys of its client.
End(ended) ==
  /\ live' = live \ ended
  /\ UNCHANGED <<issued, readable, asked, fate>>

RoutesChange ==
  /\ readable' = ~readable
  /\ UNCHANGED <<issued, live, asked, fate>>

Ask(r, k) ==
  /\ asked[r] = None
  /\ asked' = [asked EXCEPT ![r] = k]
  /\ UNCHANGED <<issued, live, readable, fate>>

Pending(r) == asked[r] # None /\ fate[r] = "none"

Decide(r, f) ==
  /\ fate' = [fate EXCEPT ![r] = f]
  /\ UNCHANGED <<issued, live, readable, asked>>

\* The request goes to the upstream that issued its key.
Send(r, t) == Pending(r) /\ <<asked[r], t>> \in issued /\ Decide(r, t)

\* Only a request for a key that no live session's client holds is dropped.
Drop(r) == Pending(r) /\ asked[r] \notin live /\ Decide(r, "dropped")

\* Only while the routes cannot be read is a request refused.
Refuse(r) == Pending(r) /\ ~readable /\ Decide(r, "refused")

\* Only a request for a key that has been issued is lost on its way.
Fail(r) == Pending(r) /\ asked[r] \in KeysOf(issued) /\ Decide(r, "unreachable")

Expire(r) == Pending(r) /\ Decide(r, "late")

\* The proxy goes down: no session is left, and no request without a fate.
Stop ==
  /\ live' = {}
  /\ fate' = [r \in Requests |-> IF Pending(r) THEN "killed" ELSE fate[r]]
  /\ UNCHANGED <<issued, readable, asked>>

Next ==
  \/ \E k \in CancelKeys, t \in Targets : Issue(k, t)
  \/ \E k \in CancelKeys : Learn(k)
  \/ \E ended \in SUBSET live : End(ended)
  \/ RoutesChange
  \/ \E r \in Requests, k \in CancelKeys : Ask(r, k)
  \/ \E r \in Requests, t \in Targets : Send(r, t)
  \/ \E r \in Requests : Drop(r) \/ Refuse(r) \/ Fail(r) \/ Expire(r)
  \/ Stop

Spec == Init /\ [][Next]_vars
==============================================================================
