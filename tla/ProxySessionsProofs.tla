------------------------- MODULE ProxySessionsProofs -------------------------
(***************************************************************************)
(* Machine-checked proofs about ProxySessions, for every set of            *)
(* connections, databases, targets, keys and route maps.                   *)
(*                                                                         *)
(* The argument: IInv is inductive (InitIInv, TypeStep, ProcessStep,       *)
(* StartupStep, CancelStep, RelayStep, PeersStep, gathered in NextIInv),   *)
(* it holds the state properties as conjuncts, and the action properties   *)
(* and the refinement follow from it one step at a time.                   *)
(***************************************************************************)
EXTENDS ProxySessions, TLAPS

USE DEF fileVars, startVars, relayVars, peerVars, keyVars

-----------------------------------------------------------------------------
(* The initial state                                                        *)

\* The invariant holds before the daemon is started.
LEMMA InitIInv == Init => IInv
<1> SUFFICES ASSUME Init PROVE IInv
  OBVIOUS
<1>1. TypeOK
  BY MaxAttemptsAssumption DEF Init, TypeOK, Started, Ended
<1>2. KeyPath /\ Stages /\ KnownKeyIsCancellable
  BY DEF Init, KeyPath, Stages, KnownKeyIsCancellable
<1>3. RegistryHasNoLeak /\ CancelReachesIssuer /\ SnapshotIsOffered /\ HalvesEndForCause
  BY DEF Init, RegistryHasNoLeak, CancelReachesIssuer, SnapshotIsOffered, HalvesEndForCause
<1>4. QED
  BY <1>1, <1>2, <1>3 DEF IInv

-----------------------------------------------------------------------------
(* Types                                                                    *)

\* A route map offers pairs of a database and a target.
LEMMA PairsType == \A m : Pairs(m) \subseteq Databases \X Targets
  BY DEF Pairs

\* What a snapshot says of a database is a target or None.
LEMMA RouteType ==
  ASSUME NEW m \in RouteMaps, NEW d \in Databases
  PROVE  m[d] \in Targets \cup {None}
  BY RouteMapsAssumption

\* Leaving the startup stage keeps the types of the variables it resets.
LEMMA LeaveStartupType ==
  ASSUME TypeOK, NEW c \in Conns, NEW next \in Started \cup Ended, LeaveStartup(c, next)
  PROVE  /\ phase' \in [Conns -> {"idle"} \cup Started \cup Ended]
         /\ snapshot' \in [Conns -> RouteMaps \cup {None}]
         /\ attempts' \in [Conns -> 0 .. MaxAttempts - 1]
         /\ deadline' \in [Conns -> {"off", "armed"}]
         /\ offered' \in [Conns -> SUBSET (Databases \X Targets)]
<1>1. 0 \in 0 .. MaxAttempts - 1
  BY MaxAttemptsAssumption
<1>2. QED
  BY <1>1 DEF TypeOK, LeaveStartup

\* Every step keeps the types; a lookup does because the client has named a key,
\* reading a startup packet because the connection holds a snapshot, forwarding a
\* key because one has been read.
LEMMA TypeStep ==
  TypeOK /\ KeyPath /\ Stages /\ SnapshotIsOffered /\ [Next]_vars => TypeOK'
<1> SUFFICES ASSUME TypeOK, KeyPath, Stages, SnapshotIsOffered, [Next]_vars PROVE TypeOK'
  OBVIOUS
<1> USE DEF TypeOK
<1>1. CASE UNCHANGED vars
  BY <1>1 DEF vars
<1>2. CASE Process
  <2>1. CASE TruncateRoutes
    BY <2>1 DEF TruncateRoutes
  <2>2. CASE StartDaemon
    BY <2>2 DEF StartDaemon
  <2>3. CASE DaemonExits
    <3>1. phase' \in [Conns -> {"idle"} \cup Started \cup Ended]
      BY <2>3 DEF DaemonExits, Ended
    <3>2. attempts' \in [Conns -> 0 .. MaxAttempts - 1]
      BY <2>3, MaxAttemptsAssumption DEF DaemonExits
    <3>3. QED
      BY <2>3, <3>1, <3>2 DEF DaemonExits
  <2>4. ASSUME NEW m \in RouteMaps, WriteRoutes(m) PROVE TypeOK'
    BY <2>4, PairsType DEF WriteRoutes
  <2>5. QED
    BY <1>2, <2>1, <2>2, <2>3, <2>4 DEF Process
<1>3. ASSUME NEW c \in Conns, Accept(c) PROVE TypeOK'
  BY <1>3, PairsType DEF Accept, Started
<1>4. ASSUME NEW c \in Conns, Main(c) PROVE TypeOK'
  <2>1. CASE LoadRoutes(c)
    BY <2>1, LeaveStartupType DEF LoadRoutes, Started, Ended
  <2>2. CASE ReadEOF(c)
    BY <2>2, LeaveStartupType DEF ReadEOF, Started, Ended
  <2>3. CASE DeadlineFires(c)
    BY <2>3, LeaveStartupType DEF DeadlineFires, Started, Ended
  <2>4. CASE Lookup(c)
    BY <2>4 DEF Lookup, Stages, Started, Ended
  <2>5. CASE CancelForward(c) \/ CancelUnreachable(c)
    BY <2>5 DEF CancelForward, CancelUnreachable, Started, Ended
  <2>6. CASE Dial(c) \/ DialFails(c)
    BY <2>6 DEF Dial, DialFails, Started, Ended
  <2>7. CASE SendStartup(c) \/ SendFails(c)
    BY <2>7 DEF SendStartup, SendFails, Started, Ended
  <2>8. CASE Finish(c)
    BY <2>8 DEF Finish, DeleteKey, Close, Started, Ended
  <2>9. ASSUME NEW k \in CancelKeys, ReadCancel(c, k) PROVE TypeOK'
    BY <2>9, LeaveStartupType DEF ReadCancel, Started, Ended
  <2>10. ASSUME NEW d \in Databases, ReadStartup(c, d) PROVE TypeOK'
    <3>1. snapshot[c][d] \in Targets \cup {None}
      BY <2>10, RouteType DEF ReadStartup, SnapshotIsOffered
    <3>2. QED
      BY <2>10, <3>1, LeaveStartupType DEF ReadStartup, Started, Ended
  <2>11. QED
    BY <1>4, <2>1, <2>2, <2>3, <2>4, <2>5, <2>6, <2>7, <2>8, <2>9, <2>10 DEF Main
<1>5. ASSUME NEW c \in Conns, Opening(c) PROVE TypeOK'
  <2>1. CASE ReadNegotiation(c)
    BY <2>1, LeaveStartupType, MaxAttemptsAssumption DEF ReadNegotiation, Started, Ended
  <2>2. CASE RejectPacket(c)
    BY <2>2, LeaveStartupType DEF RejectPacket, Started, Ended
  <2>3. QED
    BY <1>5, <2>1, <2>2 DEF Opening
<1>6. ASSUME NEW c \in Conns, Up(c) \/ Down(c) PROVE TypeOK'
  <2>1. CASE Up(c)
    BY <2>1 DEF Up, ClientData, UpWritten, UpWriteFails, UpReadEnds
  <2>2. CASE RelayKeyData(c)
    BY <2>2 DEF RelayKeyData
  <2>3. CASE ForwardKey(c)
    <3>1. cancelKey[c] \in CancelKeys
      BY <2>3 DEF ForwardKey, KeyPath
    <3>2. QED
      BY <2>3, <3>1 DEF ForwardKey
  <2>4. CASE ServerData(c) \/ DownWritten(c) \/ DownWriteFails(c) \/ DownReadEnds(c)
    BY <2>4 DEF ServerData, DownWritten, DownWriteFails, DownReadEnds
  <2>5. QED
    BY <1>6, <2>1, <2>2, <2>3, <2>4 DEF Down
<1>7. ASSUME NEW c \in Conns, Peers(c) PROVE TypeOK'
  BY <1>7 DEF Peers, ClientAsks, ClientShut, ClientClose, ServerGarbles, ServerClose, IssueKey
<1>8. QED
  BY <1>1, <1>2, <1>3, <1>4, <1>5, <1>6, <1>7 DEF Next

-----------------------------------------------------------------------------
(* The inductive invariant                                                  *)

\* A step that changes nothing the invariant speaks of keeps it.
LEMMA StutterStep == IInv /\ UNCHANGED vars => IInv'
  BY DEF vars, IInv, TypeOK, KeyPath, Stages, KnownKeyIsCancellable, RegistryHasNoLeak,
         SecondKey, CancelReachesIssuer, SnapshotIsOffered, HalvesEndForCause, Pairs,
         Started, Ended

\* Rewriting the routes file and starting or losing the daemon.
LEMMA ProcessStep ==
  ASSUME IInv, TypeOK', Process
  PROVE  IInv'
<1> USE DEF IInv, TypeOK, KeyPath, Stages, KnownKeyIsCancellable,
            RegistryHasNoLeak, SecondKey, CancelReachesIssuer, SnapshotIsOffered,
            HalvesEndForCause
<1>1. CASE TruncateRoutes
  BY <1>1, UnreadableAssumption DEF TruncateRoutes, Pairs
<1>2. CASE StartDaemon
  BY <1>2 DEF StartDaemon
<1>3. CASE DaemonExits
  BY <1>3 DEF DaemonExits, Started, Ended
<1>4. ASSUME NEW m \in RouteMaps, WriteRoutes(m) PROVE IInv'
  \* Every connection in its startup stage is offered the new map as well.
  <2>1. SnapshotIsOffered'
    BY <1>4 DEF WriteRoutes, InStartup
  <2>2. QED
    BY <1>4, <2>1 DEF WriteRoutes
<1>5. QED
  BY <1>1, <1>2, <1>3, <1>4 DEF Process

\* From accept to the choice of an upstream or a cancel key.
LEMMA StartupStep ==
  ASSUME IInv, TypeOK', NEW c \in Conns,
         \/ Accept(c) \/ LoadRoutes(c) \/ ReadEOF(c) \/ DeadlineFires(c) \/ Opening(c)
         \/ \E k \in CancelKeys : ReadCancel(c, k)
         \/ \E d \in Databases : ReadStartup(c, d)
  PROVE  IInv'
<1> USE DEF IInv, TypeOK, KeyPath, Stages, KnownKeyIsCancellable,
            RegistryHasNoLeak, SecondKey, CancelReachesIssuer, SnapshotIsOffered,
            HalvesEndForCause, Ended
<1>1. CASE Accept(c)
  BY <1>1 DEF Accept
<1>2. CASE LoadRoutes(c)
  <2>1. CASE routes = Unreadable
    <3>1. phase[c] = "accepted" /\ LeaveStartup(c, "refused")
      BY <1>2, <2>1 DEF LoadRoutes
    <3>2. UNCHANGED <<routes, registry, asked, target, up, down, cancelKey, client, server,
                      wire, issuer, known>>
      BY <1>2 DEF LoadRoutes
    <3>3. QED
      BY <3>1, <3>2 DEF LeaveStartup
  \* The snapshot is what the file holds, and that has been offered since accept.
  <2>2. CASE routes # Unreadable
    <3>1. SnapshotIsOffered'
      BY <1>2, <2>2 DEF LoadRoutes
    <3>2. Stages'
      BY <1>2, <2>2 DEF LoadRoutes
    <3>6. HalvesEndForCause'
      BY <1>2, <2>2 DEF LoadRoutes
    <3>3. KnownKeyIsCancellable' /\ RegistryHasNoLeak'
      BY <1>2, <2>2 DEF LoadRoutes
    <3>4. KeyPath' /\ CancelReachesIssuer'
      BY <1>2, <2>2 DEF LoadRoutes
    <3>5. QED
      BY <3>1, <3>2, <3>3, <3>4, <3>6
  <2>3. QED
    BY <2>1, <2>2
<1>3. CASE ReadEOF(c)
  BY <1>3 DEF ReadEOF, LeaveStartup
<1>4. CASE DeadlineFires(c)
  BY <1>4 DEF DeadlineFires, LeaveStartup
<1>5. CASE ReadNegotiation(c)
  <2>1. CASE attempts[c] + 1 < MaxAttempts
    BY <1>5, <2>1 DEF ReadNegotiation
  <2>2. CASE ~(attempts[c] + 1 < MaxAttempts)
    <3>1. phase[c] = "reading" /\ LeaveStartup(c, "rejected")
      BY <1>5, <2>2 DEF ReadNegotiation
    <3>2. UNCHANGED <<routes, registry, asked, target, up, down, cancelKey, client, server,
                      wire, issuer, known>>
      BY <1>5 DEF ReadNegotiation
    <3>3. QED
      BY <3>1, <3>2 DEF LeaveStartup
  <2>3. QED
    BY <2>1, <2>2
<1>6. CASE RejectPacket(c)
  BY <1>6 DEF RejectPacket, LeaveStartup
<1>7. ASSUME NEW k \in CancelKeys, ReadCancel(c, k) PROVE IInv'
  BY <1>7 DEF ReadCancel, LeaveStartup
<1>8. ASSUME NEW d \in Databases, ReadStartup(c, d) PROVE IInv'
  <2>1. snapshot[c][d] \in Targets \cup {None}
    BY <1>8, RouteType DEF ReadStartup
  <2>2. Stages'
    BY <1>8, <2>1 DEF ReadStartup, LeaveStartup
  \* What the client asked for is a database, hence no cancel key.
  <2>3. CancelReachesIssuer'
    BY <1>8, KeysAreNotDatabases, NoneAssumption DEF ReadStartup, LeaveStartup
  <2>4. QED
    BY <1>8, <2>2, <2>3 DEF ReadStartup, LeaveStartup
<1>9. QED
  BY <1>1, <1>2, <1>3, <1>4, <1>5, <1>6, <1>7, <1>8 DEF Opening

\* A cancel request is looked up and sent.
LEMMA CancelStep ==
  ASSUME IInv, TypeOK', NEW c \in Conns,
         Lookup(c) \/ CancelForward(c) \/ CancelUnreachable(c)
  PROVE  IInv'
<1> USE DEF IInv, TypeOK, KeyPath, Stages, KnownKeyIsCancellable,
            RegistryHasNoLeak, SecondKey, CancelReachesIssuer, SnapshotIsOffered,
            HalvesEndForCause, Ended
<1>1. CASE Lookup(c)
  <2>1. asked[c] \in CancelKeys
    BY <1>1 DEF Lookup
  \* The entry that is found was put by the session that was issued the key.
  <2>2. registry[asked[c]] # None =>
          issuer[asked[c]] # None /\ registry[asked[c]] = target[issuer[asked[c]]]
    BY <2>1
  \* The targets of sessions that were issued a key stay.
  <2>3. \A k \in CancelKeys : issuer[k] # None => target'[issuer[k]] = target[issuer[k]]
    BY <1>1 DEF Lookup
  <2>4. CancelReachesIssuer'
    BY <1>1, <2>1, <2>2, <2>3 DEF Lookup
  <2>5. KeyPath' /\ KnownKeyIsCancellable'
    BY <1>1, <2>3 DEF Lookup
  <2>6. Stages' /\ RegistryHasNoLeak'
    BY <1>1, <2>3 DEF Lookup
  <2>7. QED
    BY <1>1, <2>4, <2>5, <2>6 DEF Lookup
<1>2. CASE CancelForward(c)
  BY <1>2 DEF CancelForward
<1>3. CASE CancelUnreachable(c)
  BY <1>3 DEF CancelUnreachable
<1>4. QED
  BY <1>1, <1>2, <1>3

\* A session is opened, relayed and closed.
LEMMA RelayStep ==
  ASSUME IInv, TypeOK', NEW c \in Conns,
         \/ Dial(c) \/ DialFails(c) \/ SendStartup(c) \/ SendFails(c)
         \/ Up(c) \/ Down(c) \/ Finish(c)
  PROVE  IInv'
<1> USE DEF IInv, TypeOK, KeyPath, Stages, KnownKeyIsCancellable,
            RegistryHasNoLeak, SecondKey, CancelReachesIssuer, SnapshotIsOffered,
            HalvesEndForCause, Ended
<1>1. CASE Dial(c)
  BY <1>1 DEF Dial
<1>2. CASE DialFails(c)
  BY <1>2 DEF DialFails
<1>3. CASE SendStartup(c)
  BY <1>3 DEF SendStartup
<1>4. CASE SendFails(c)
  BY <1>4 DEF SendFails
<1>5. CASE Up(c)
  BY <1>5 DEF Up, ClientData, UpWritten, UpWriteFails, UpReadEnds
<1>6. CASE RelayKeyData(c)
  <2> DEFINE key == wire[c]
  <2>1. /\ phase[c] = "relay" /\ target[c] \in Targets /\ key \in CancelKeys
        /\ issuer[key] = c
        /\ registry' = [registry EXCEPT ![key] = target[c]]
        /\ cancelKey' = [cancelKey EXCEPT ![c] = key]
        /\ wire' = [wire EXCEPT ![c] = None]
        /\ down' = [down EXCEPT ![c] = "forward"]
        /\ UNCHANGED <<phase, target, issuer, known>>
    BY <1>6 DEF RelayKeyData
  \* No other session was issued the key, so no other entry is overwritten.
  <2>2. KeyPath' /\ KnownKeyIsCancellable'
    BY <2>1, NoneAssumption
  \* The key that proxyConn no longer remembers is not the only one.
  <2>3. RegistryHasNoLeak'
    <3> SUFFICES ASSUME NEW k \in CancelKeys, registry'[k] # None
                 PROVE  \/ \E d \in Conns : /\ phase'[d] = "relay" /\ cancelKey'[d] = k
                                            /\ target'[d] = registry'[k]
                        \/ SecondKey(k)'
      OBVIOUS
    <3>1. CASE k = key
      BY <2>1, <3>1
    <3>2. CASE k # key
      <4>1. registry[k] = registry'[k] /\ registry[k] # None
        BY <2>1, <3>2
      <4>2. CASE SecondKey(k)
        BY <2>1, <4>2
      <4>3. ASSUME NEW d \in Conns, phase[d] = "relay", cancelKey[d] = k, target[d] = registry[k]
            PROVE  (phase'[d] = "relay" /\ cancelKey'[d] = k /\ target'[d] = registry'[k]) \/ SecondKey(k)'
        \* It is the other key of the session.
        <5>1. CASE d = c
          <6>1. issuer[k] = c /\ issuer'[k] = c /\ issuer'[key] = c
            BY <2>1, <4>3, <5>1, NoneAssumption
          <6>2. QED
            BY <2>1, <3>2, <6>1
        <5>2. CASE d # c
          BY <2>1, <4>1, <4>3, <5>2
        <5>3. QED
          BY <5>1, <5>2
      <4>4. QED
        BY <4>1, <4>2, <4>3
    <3>3. QED
      BY <3>1, <3>2
  <2>4. Stages' /\ CancelReachesIssuer' /\ SnapshotIsOffered' /\ HalvesEndForCause'
    BY <1>6, <2>1 DEF RelayKeyData
  <2>5. QED
    BY <2>2, <2>3, <2>4
<1>7. CASE ForwardKey(c)
  <2>1. /\ cancelKey[c] \in CancelKeys /\ issuer[cancelKey[c]] = c
        /\ registry[cancelKey[c]] = target[c]
        /\ known' \in {known, known \cup {cancelKey[c]}}
    BY <1>7 DEF ForwardKey
  <2>2. KeyPath' /\ KnownKeyIsCancellable'
    BY <1>7, <2>1, NoneAssumption DEF ForwardKey
  <2>3. QED
    BY <1>7, <2>2 DEF ForwardKey
<1>8. CASE ServerData(c) \/ DownWritten(c)
  BY <1>8 DEF ServerData, DownWritten
<1>9. CASE DownWriteFails(c)
  BY <1>9 DEF DownWriteFails
<1>10. CASE DownReadEnds(c)
  BY <1>10 DEF DownReadEnds
<1>11. CASE Finish(c)
  <2>1. /\ phase[c] = "relay"
        /\ phase' = [phase EXCEPT ![c] = "served"]
        /\ cancelKey' = [cancelKey EXCEPT ![c] = None]
        /\ wire' = [wire EXCEPT ![c] = None]
        /\ down'[c] = "off" /\ up'[c] = "off"
        /\ UNCHANGED <<target, issuer, known>>
    BY <1>11 DEF Finish, Close
  \* Only the key that the session was issued last is deleted.
  <2>2. \A k \in CancelKeys :
          /\ k # cancelKey[c] => registry'[k] = registry[k]
          /\ k = cancelKey[c] => registry'[k] = None /\ issuer[k] = c
    BY <1>11, NoneAssumption DEF Finish, DeleteKey
  <2>3. KeyPath'
    <3>1. ASSUME NEW d \in Conns, cancelKey'[d] # None
          PROVE  /\ phase'[d] = "relay"
                 /\ issuer'[cancelKey'[d]] = d
                 /\ registry'[cancelKey'[d]] = target'[d]
      <4>1. d # c /\ cancelKey'[d] = cancelKey[d] /\ cancelKey[d] \in CancelKeys
        BY <2>1, <3>1
      <4>2. cancelKey[d] # cancelKey[c]
        BY <3>1, <4>1
      <4>3. QED
        BY <2>1, <2>2, <3>1, <4>1, <4>2
    <3>2. ASSUME NEW d \in Conns
          PROVE  /\ wire'[d] # None => issuer'[wire'[d]] = d
                 /\ down'[d] = "forward" => cancelKey'[d] # None
      BY <1>11, <2>1 DEF Finish, Close
    <3>3. ASSUME NEW k \in CancelKeys
          PROVE  /\ registry'[k] # None => issuer'[k] # None /\ registry'[k] = target'[issuer'[k]]
                 /\ k \in known' => issuer'[k] # None
      BY <2>1, <2>2, <3>3
    <3>4. QED
      BY <3>1, <3>2, <3>3
  <2>8. KnownKeyIsCancellable'
    BY <2>1, <2>2, NoneAssumption
  \* The session that ends deletes the entry that nothing else accounted for.
  <2>4. RegistryHasNoLeak'
    BY <2>1, <2>2, NoneAssumption
  <2>5. Stages' /\ HalvesEndForCause'
    BY <1>11, <2>1, NoneAssumption DEF Finish, Close
  <2>6. CancelReachesIssuer' /\ SnapshotIsOffered'
    BY <1>11, <2>1 DEF Finish
  <2>7. QED
    BY <2>3, <2>4, <2>5, <2>6, <2>8
<1>12. QED
  BY <1>1, <1>2, <1>3, <1>4, <1>5, <1>6, <1>7, <1>8, <1>9, <1>10, <1>11 DEF Down

\* What the clients and the upstreams do.
LEMMA PeersStep ==
  ASSUME IInv, TypeOK', NEW c \in Conns, Peers(c)
  PROVE  IInv'
<1> USE DEF IInv, TypeOK, KeyPath, Stages, KnownKeyIsCancellable,
            RegistryHasNoLeak, SecondKey, CancelReachesIssuer, SnapshotIsOffered,
            HalvesEndForCause, Ended
<1>1. CASE ClientShut(c)
  BY <1>1 DEF ClientShut
<1>2. CASE ClientClose(c)
  BY <1>2 DEF ClientClose
<1>3. CASE ServerGarbles(c)
  BY <1>3 DEF ServerGarbles
<1>4. CASE ServerClose(c)
  BY <1>4 DEF ServerClose
<1>5. ASSUME NEW k \in CancelKeys, IssueKey(c, k) PROVE IInv'
  <2>1. /\ phase[c] = "relay" /\ target[c] \in Targets /\ issuer[k] = None
        /\ wire' = [wire EXCEPT ![c] = k]
        /\ issuer' = [issuer EXCEPT ![k] = c]
        /\ UNCHANGED <<registry, phase, target, asked, cancelKey, known, down, up>>
    BY <1>5 DEF IssueKey
  \* Nothing is known yet of a key that is fresh, and the others stay.
  <2>2. registry[k] = None /\ k \notin known /\ \A d \in Conns : cancelKey[d] # k /\ wire[d] # k
    BY <2>1, NoneAssumption
  <2>3. KeyPath'
    BY <2>1, <2>2, NoneAssumption
  <2>7. KnownKeyIsCancellable'
    BY <2>1, <2>2
  <2>4. RegistryHasNoLeak'
    <3> SUFFICES ASSUME NEW l \in CancelKeys, registry[l] # None
                 PROVE  \/ \E d \in Conns : phase[d] = "relay" /\ cancelKey[d] = l /\ target[d] = registry[l]
                        \/ SecondKey(l)'
      BY <2>1
    <3>1. CASE SecondKey(l)
      BY <2>1, <2>2, <3>1, NoneAssumption
    <3>2. QED
      BY <3>1
  <2>5. Stages' /\ CancelReachesIssuer'
    BY <2>1, NoneAssumption
  <2>6. QED
    BY <1>5, <2>3, <2>4, <2>5, <2>7 DEF IssueKey
<1>0. ASSUME NEW r \in Databases \cup CancelKeys, ClientAsks(c, r) PROVE IInv'
  BY <1>0 DEF ClientAsks, InStartup
<1>6. QED
  BY <1>0, <1>1, <1>2, <1>3, <1>4, <1>5 DEF Peers

\* The invariant is inductive.
LEMMA NextIInv == IInv /\ [Next]_vars => IInv'
<1> SUFFICES ASSUME IInv, [Next]_vars PROVE IInv'
  OBVIOUS
<1>1. TypeOK'
  BY TypeStep DEF IInv
<1>2. CASE UNCHANGED vars
  BY <1>2, StutterStep
<1>3. CASE Process
  BY <1>1, <1>3, ProcessStep
<1>4. ASSUME NEW c \in Conns,
             Accept(c) \/ Main(c) \/ Opening(c) \/ Up(c) \/ Down(c) \/ Peers(c)
      PROVE  IInv'
  BY <1>1, <1>4, StartupStep, CancelStep, RelayStep, PeersStep DEF Main
<1>5. QED
  BY <1>2, <1>3, <1>4 DEF Next

-----------------------------------------------------------------------------
(* Safety                                                                   *)

\* The invariant holds in every reachable state.
THEOREM Inductive == Spec => []IInv
  BY InitIInv, NextIInv, PTL DEF Spec

\* Every variable always has a value of its type.
THEOREM TypeCorrect == Spec => []TypeOK
<1>1. IInv => TypeOK
  BY DEF IInv
<1>2. QED
  BY <1>1, Inductive, PTL

\* A cancel key a client has received leads, while its session is relayed, to
\* the upstream of that session.
THEOREM KnownKeysAreCancellable == Spec => []KnownKeyIsCancellable
<1>1. IInv => KnownKeyIsCancellable
  BY DEF IInv
<1>2. QED
  BY <1>1, Inductive, PTL

\* The registry holds keys of relayed sessions only, and keys of upstreams that sent
\* more than one.
THEOREM NoRegistryLeak == Spec => []RegistryHasNoLeak
<1>1. IInv => RegistryHasNoLeak
  BY DEF IInv
<1>2. QED
  BY <1>1, Inductive, PTL

\* A cancel request that is sent goes to the upstream that issued its key.
THEOREM CancelsReachTheIssuer == Spec => []CancelReachesIssuer
<1>1. IInv => CancelReachesIssuer
  BY DEF IInv
<1>2. QED
  BY <1>1, Inductive, PTL

-----------------------------------------------------------------------------
(* Action properties                                                        *)

\* Which step can make the changes the action properties speak of.
LEMMA StepOfAChange ==
  ASSUME TypeOK, [Next]_vars, NEW c \in Conns
  PROVE  /\ phase[c] = "reading" /\ phase'[c] = "dial" =>
              \E d \in Databases : ReadStartup(c, d)
         /\ up[c] \in {"read", "write"} /\ up'[c] = "done" => UpReadEnds(c) \/ UpWriteFails(c)
         /\ phase[c] = "relay" /\ phase'[c] = "served" => Finish(c)
  BY DEF TypeOK, Started, Next, vars, Process, TruncateRoutes, WriteRoutes,
     StartDaemon, DaemonExits, Accept, Main, LoadRoutes, ReadEOF, DeadlineFires,
     ReadCancel, ReadStartup, Lookup, CancelForward, CancelUnreachable, Dial, DialFails,
     SendStartup, SendFails, Finish, Close, Opening, ReadNegotiation, RejectPacket,
     LeaveStartup, Up, ClientData, UpWritten, UpWriteFails, UpReadEnds, Down,
     RelayKeyData, ForwardKey, ServerData, DownWritten, DownReadEnds, DownWriteFails,
     Peers, ClientAsks, ClientShut, ClientClose, ServerGarbles, ServerClose, IssueKey

\* A session goes to a target its database had in the routes file at some
\* moment since the client connected.
THEOREM SessionsFollowOfferedRoutes == Spec => RoutedByOfferedMap
<1>1. ASSUME IInv, [Next]_vars, NEW c \in Conns, phase[c] = "reading", phase'[c] = "dial"
      PROVE  <<asked[c], target'[c]>> \in offered[c]
  <2>1. PICK d \in Databases : ReadStartup(c, d)
    BY <1>1, StepOfAChange DEF IInv
  <2>2. QED
    BY <1>1, <2>1, RouteType
    DEF ReadStartup, LeaveStartup, Pairs, IInv, TypeOK, SnapshotIsOffered
<1>2. IInv /\ [Next]_vars =>
        [\A c \in Conns :
           phase[c] = "reading" /\ phase'[c] = "dial" =>
             <<asked[c], target'[c]>> \in offered[c]]_vars
  BY <1>1
<1>3. QED
  BY <1>2, Inductive, PTL DEF Spec, RoutedByOfferedMap

\* The up goroutine never stops while both ends of its session are there.
THEOREM RelaysEndForCause == Spec => RelayEndsForCause
<1>1. ASSUME IInv, [Next]_vars, NEW c \in Conns, up[c] \in {"read", "write"}, up'[c] = "done"
      PROVE  client[c] # "open" \/ server[c] = "closed"
  <2>1. UpReadEnds(c) \/ UpWriteFails(c)
    BY <1>1, StepOfAChange DEF IInv
  <2>2. deadline[c] = "off"
    BY <1>1 DEF IInv, TypeOK, Stages, HalvesEndForCause
  <2>3. QED
    BY <2>1, <2>2 DEF UpReadEnds, UpWriteFails, ClientReadReturns
<1>2. IInv /\ [Next]_vars =>
        [\A c \in Conns :
           up[c] \in {"read", "write"} /\ up'[c] = "done" =>
             client[c] # "open" \/ server[c] = "closed"]_vars
  BY <1>1
<1>3. QED
  BY <1>2, Inductive, PTL DEF Spec, RelayEndsForCause

\* A session is not torn down under a client that may still be reading.
THEOREM HalfClosesKeepTheAnswer == Spec => HalfCloseKeepsAnswer
<1>1. ASSUME IInv, [Next]_vars, NEW c \in Conns, phase[c] = "relay", phase'[c] = "served"
      PROVE  server[c] # "open" \/ client[c] = "closed"
  <2>1. Finish(c)
    BY <1>1, StepOfAChange DEF IInv
  <2>2. QED
    BY <1>1, <2>1 DEF Finish, IInv, HalvesEndForCause
<1>2. IInv /\ [Next]_vars =>
        [\A c \in Conns :
           phase[c] = "relay" /\ phase'[c] = "served" =>
             server[c] # "open" \/ client[c] = "closed"]_vars
  BY <1>1
<1>3. QED
  BY <1>2, Inductive, PTL DEF Spec, HalfCloseKeepsAnswer

=============================================================================
