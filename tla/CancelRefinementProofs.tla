----------------------- MODULE CancelRefinementProofs -----------------------
(***************************************************************************)
(* ProxySessions implements CancelRouting: the proof behind the property   *)
(* CancelsAreRouted, for every value of the constants.                     *)
(*                                                                         *)
(* The steps visible in the abstract state: the routes file becomes        *)
(* readable or unreadable (RoutesChange), an upstream issues a key         *)
(* (Issue), a client receives it (Learn), a session ends (End), a client   *)
(* sends a request (Ask), and the request's fate is decided: it is written *)
(* to an upstream (Send) or lost (Drop, Refuse, Fail, Expire, and Stop for *)
(* all that are pending when the daemon goes down).  All others are        *)
(* stutters.                                                               *)
(***************************************************************************)
EXTENDS ProxySessionsProofs

USE DEF fileVars, startVars, relayVars, peerVars, keyVars

\* The initial state has issued nothing and asked for nothing.
LEMMA InitRefines == Init => CR!Init
<1> SUFFICES ASSUME Init PROVE CR!Init
  OBVIOUS
<1>1. Issued = {} /\ Live = {} /\ Readable = FALSE
  BY DEF Init, Issued, Live, Readable
<1>2. AskedKey = [c \in Conns |-> None] /\ Fate = [c \in Conns |-> "none"]
  BY NoneAssumption DEF Init, AskedKey, Fate
<1>3. QED
  BY <1>1, <1>2 DEF CR!Init

\* What a step must leave alone for keys and sessions, and for requests, to look the
\* same.
SameKeys ==
  /\ UNCHANGED <<issuer, known>>
  /\ \A k \in CancelKeys :
       issuer[k] # None =>
         /\ target'[issuer[k]] = target[issuer[k]]
         /\ phase'[issuer[k]] = "relay" <=> phase[issuer[k]] = "relay"

SameRequests ==
  /\ UNCHANGED asked
  /\ \A c \in Conns :
       asked[c] \in CancelKeys => FateIn(phase'[c], target'[c]) = FateIn(phase[c], target[c])

\* The abstract state follows.
LEMMA SameKeysAre == ASSUME TypeOK, KeyPath, SameKeys PROVE UNCHANGED <<Issued, Live>>
  BY DEF TypeOK, KeyPath, SameKeys, Issued, Live

LEMMA SameRequestsAre == SameRequests => UNCHANGED <<AskedKey, Fate>>
  BY DEF SameRequests, AskedKey, Fate

LEMMA StutterIs ==
  ASSUME TypeOK, KeyPath, SameKeys, SameRequests, UNCHANGED Readable
  PROVE  UNCHANGED CR!vars
  BY SameKeysAre, SameRequestsAre DEF CR!vars

\* A connection that has not become a session was issued no key.
LEMMA Keyless ==
  ASSUME IInv, NEW c \in Conns, phase[c] \notin Ended \cup {"relay"}
  PROVE  \A k \in CancelKeys : issuer[k] # c
  BY NoneAssumption DEF IInv, Stages

\* A connection that moves without becoming, or ceasing to be, a session.
LEMMA MoveKeepsKeys ==
  ASSUME IInv, NEW c \in Conns, phase[c] \notin Ended \cup {"relay"},
         UNCHANGED <<issuer, known>>,
         \A d \in Conns \ {c} : phase'[d] = phase[d] /\ target'[d] = target[d]
  PROVE  SameKeys
<1>1. \A k \in CancelKeys : issuer[k] \in Conns \cup {None}
  BY DEF IInv, TypeOK
<1>2. QED
  BY <1>1, Keyless DEF SameKeys

-----------------------------------------------------------------------------
(* Stutters                                                                 *)

\* From accept to the end of the startup stage, unless a request is lost in it.
LEMMA StartupStutters ==
  ASSUME IInv, NEW c \in Conns,
         \/ Accept(c) \/ ReadEOF(c) \/ Opening(c)
         \/ (LoadRoutes(c) \/ DeadlineFires(c)) /\ ~(asked[c] \in CancelKeys /\ phase'[c] \in Ended)
         \/ \E k \in CancelKeys : ReadCancel(c, k)
         \/ \E d \in Databases : ReadStartup(c, d)
  PROVE  UNCHANGED CR!vars
<1>1. /\ phase[c] \in {"idle", "accepted", "reading"}
      /\ UNCHANGED <<routes, issuer, known, asked>>
      /\ \A d \in Conns \ {c} : phase'[d] = phase[d] /\ target'[d] = target[d]
      /\ asked[c] \in CancelKeys => phase'[c] \in {"accepted", "reading", "cancel"}
  BY NoneAssumption, KeysAreNotDatabases
  DEF IInv, TypeOK, Stages, Accept, ReadEOF, Opening, ReadNegotiation, RejectPacket,
      LoadRoutes, DeadlineFires, ReadCancel, ReadStartup, LeaveStartup, Ended
<1>2. SameKeys
  BY <1>1, MoveKeepsKeys DEF Ended
<1>3. SameRequests
  BY <1>1 DEF SameRequests, FateIn, Ended
<1>4. QED
  BY <1>1, <1>2, <1>3, StutterIs DEF IInv, Readable

\* A lookup that finds the key, and the dials of sessions.
LEMMA DialsStutter ==
  ASSUME IInv, NEW c \in Conns,
         \/ Lookup(c) /\ registry[asked[c]] # None
         \/ Dial(c) \/ DialFails(c) \/ SendStartup(c) \/ SendFails(c)
  PROVE  UNCHANGED CR!vars
<1>1. /\ phase[c] \in {"cancel", "dial", "send"}
      /\ UNCHANGED <<routes, issuer, known, asked>>
      /\ \A d \in Conns \ {c} : phase'[d] = phase[d] /\ target'[d] = target[d]
      /\ asked[c] \in CancelKeys => phase[c] = "cancel" /\ phase'[c] = "cancelDial"
  BY KeysAreNotDatabases
  DEF IInv, TypeOK, Stages, Lookup, Dial, DialFails, SendStartup, SendFails
<1>2. SameKeys
  BY <1>1, MoveKeepsKeys DEF Ended
<1>3. SameRequests
  BY <1>1 DEF SameRequests, FateIn, Ended
<1>4. QED
  BY <1>1, <1>2, <1>3, StutterIs DEF IInv, Readable

\* The relaying of what is not a key, and most of what the peers do.
LEMMA RelayStutters ==
  ASSUME IInv, NEW c \in Conns,
         \/ UNCHANGED vars \/ StartDaemon \/ Up(c)
         \/ RelayKeyData(c) \/ ServerData(c) \/ DownWritten(c) \/ DownWriteFails(c)
         \/ DownReadEnds(c)
         \/ ClientShut(c) \/ ClientClose(c) \/ ServerGarbles(c) \/ ServerClose(c)
         \/ \E d \in Databases : ClientAsks(c, d)
  PROVE  UNCHANGED CR!vars
<1>1. /\ UNCHANGED <<routes, issuer, known, phase, target>>
      /\ asked' = asked \/ \E d \in Databases : ClientAsks(c, d)
  BY DEF vars, StartDaemon, Up, ClientData, UpWritten, UpWriteFails, UpReadEnds,
     RelayKeyData, ServerData, DownWritten, DownWriteFails, DownReadEnds, ClientShut,
     ClientClose, ServerGarbles, ServerClose, ClientAsks
<1>2. UNCHANGED <<Issued, Live, Readable>>
  BY <1>1 DEF Issued, Live, Readable
<1>3. UNCHANGED <<AskedKey, Fate>>
  <2>1. CASE UNCHANGED asked
    BY <1>1, <2>1 DEF AskedKey, Fate
  \* Naming a database asks for no key.
  <2>2. ASSUME NEW d \in Databases, ClientAsks(c, d) PROVE UNCHANGED <<AskedKey, Fate>>
    <3>1. asked[c] \notin CancelKeys /\ asked'[c] \notin CancelKeys
          /\ \A e \in Conns \ {c} : asked'[e] = asked[e]
      BY <2>2, NoneAssumption, KeysAreNotDatabases DEF ClientAsks, IInv, TypeOK
    <3>2. QED
      BY <1>1, <3>1 DEF AskedKey, Fate
  <2>3. QED
    BY <1>1, <2>1, <2>2
<1>4. QED
  BY <1>2, <1>3 DEF CR!vars

-----------------------------------------------------------------------------
(* The environment and the keys                                             *)

\* A command truncates the routes file or fills it.
LEMMA RoutesRefine ==
  ASSUME IInv, TruncateRoutes \/ \E m \in RouteMaps : WriteRoutes(m)
  PROVE  CR!RoutesChange
<1>1. /\ UNCHANGED <<issuer, known, phase, target, asked>>
      /\ Readable' = ~Readable
  BY UnreadableAssumption DEF TruncateRoutes, WriteRoutes, Readable
<1>2. UNCHANGED <<Issued, Live, AskedKey, Fate>>
  BY <1>1 DEF Issued, Live, AskedKey, Fate
<1>3. QED
  BY <1>1, <1>2 DEF CR!RoutesChange

\* BackendKeyData leaves the upstream.
LEMMA IssueRefines ==
  ASSUME IInv, NEW c \in Conns, NEW k \in CancelKeys, IssueKey(c, k)
  PROVE  CR!Issue(k, target[c]) /\ target[c] \in Targets
<1>1. /\ target[c] \in Targets /\ issuer[k] = None /\ k \notin known
      /\ issuer' = [issuer EXCEPT ![k] = c]
      /\ UNCHANGED <<routes, phase, known, asked, target>>
  BY DEF IssueKey, IInv, TypeOK, Stages, KeyPath
<1>2. k \notin CR!KeysOf(Issued)
  BY <1>1 DEF CR!KeysOf, Issued
<1>3. Issued' = Issued \cup {<<k, target[c]>>}
  <2>1. \A j \in CancelKeys : issuer'[j] = IF j = k THEN c ELSE issuer[j]
    BY <1>1 DEF IInv, TypeOK
  <2>2. c # None
    BY NoneAssumption
  <2>3. QED
    BY <1>1, <2>1, <2>2 DEF Issued
<1>4. Live' = Live
  BY <1>1 DEF Live, IInv, TypeOK
<1>5. UNCHANGED <<Readable, AskedKey, Fate>>
  BY <1>1 DEF Readable, AskedKey, Fate
<1>6. QED
  BY <1>1, <1>2, <1>3, <1>4, <1>5 DEF CR!Issue

\* BackendKeyData reaches the client, or is lost with it.
LEMMA ForwardKeyRefines ==
  ASSUME IInv, NEW c \in Conns, ForwardKey(c)
  PROVE  (\E k \in CancelKeys : CR!Learn(k)) \/ UNCHANGED CR!vars
<1> DEFINE k == cancelKey[c]
<1>1. /\ phase[c] = "relay" /\ k \in CancelKeys /\ issuer[k] = c /\ c # None
      /\ UNCHANGED <<routes, phase, issuer, asked, target>>
      /\ known' = IF client[c] = "closed" THEN known ELSE known \cup {k}
  BY NoneAssumption DEF ForwardKey, IInv, TypeOK, Stages, KeyPath
<1>2. UNCHANGED <<Issued, Readable, AskedKey, Fate>>
  BY <1>1 DEF Issued, Readable, AskedKey, Fate
<1>3. CASE known' = known
  BY <1>1, <1>2, <1>3 DEF Live, CR!vars
<1>4. CASE known' = known \cup {k}
  <2>1. <<k, target[c]>> \in Issued
    BY <1>1 DEF Issued
  <2>2. k \in CR!KeysOf(Issued)
    BY <2>1 DEF CR!KeysOf
  <2>3. Live' = Live \cup {k}
    BY <1>1, <1>4 DEF Live
  <2>4. QED
    BY <1>1, <1>2, <2>2, <2>3 DEF CR!Learn
<1>5. QED
  BY <1>1, <1>3, <1>4

\* A session ends, and with it the keys of its client.
LEMMA EndRefines ==
  ASSUME IInv, NEW c \in Conns, Finish(c)
  PROVE  \E ended \in SUBSET Live : CR!End(ended)
<1>1. /\ phase[c] = "relay" /\ asked[c] \notin CancelKeys
      /\ phase' = [phase EXCEPT ![c] = "served"]
      /\ UNCHANGED <<routes, issuer, known, asked, target>>
  BY KeysAreNotDatabases DEF Finish, Close, IInv, TypeOK, Stages
<1>2. Live' \subseteq Live
  BY <1>1 DEF Live, IInv, TypeOK, KeyPath
<1>3. SameRequests
  BY <1>1 DEF SameRequests, IInv, TypeOK
<1>4. UNCHANGED <<Issued, Readable, AskedKey, Fate>>
  BY <1>1, <1>3, SameRequestsAre DEF Issued, Readable
<1>5. Live' = Live \ (Live \ Live')
  BY <1>2
<1>6. CR!End(Live \ Live')
  BY <1>4, <1>5 DEF CR!End
<1>7. QED
  BY <1>6

-----------------------------------------------------------------------------
(* Requests                                                                 *)

\* A client sends its cancel request.
LEMMA AskRefines ==
  ASSUME IInv, NEW c \in Conns, NEW k \in CancelKeys, ClientAsks(c, k)
  PROVE  CR!Ask(c, k)
<1>1. /\ asked[c] = None /\ phase[c] \in {"accepted", "reading"}
      /\ asked' = [asked EXCEPT ![c] = k]
      /\ UNCHANGED <<routes, phase, issuer, known, target>>
  BY DEF ClientAsks, InStartup
<1>2. AskedKey[c] = None
  BY <1>1, NoneAssumption DEF AskedKey
<1>3. AskedKey' = [AskedKey EXCEPT ![c] = k]
  BY <1>1 DEF AskedKey, IInv, TypeOK
<1>4. Fate' = Fate
  BY <1>1, NoneAssumption DEF Fate, FateIn, Ended, IInv, TypeOK
<1>5. UNCHANGED <<Issued, Live, Readable>>
  BY <1>1 DEF Issued, Live, Readable
<1>6. QED
  BY <1>2, <1>3, <1>4, <1>5 DEF CR!Ask

\* What is common to the steps that decide the fate of a request.
LEMMA FateDecided ==
  ASSUME IInv, NEW c \in Conns, asked[c] \in CancelKeys, phase[c] \in Started,
         phase[c] # "relay", NEW p \in Ended, phase' = [phase EXCEPT ![c] = p],
         UNCHANGED <<routes, issuer, known, asked, target>>
  PROVE  /\ CR!Pending(c)
         /\ AskedKey[c] = asked[c]
         /\ CR!Decide(c, FateIn(p, target[c]))
<1>1. phase[c] \notin Ended
  BY DEF Started, Ended
<1>2. AskedKey[c] = asked[c] /\ Fate[c] = "none"
  BY <1>1 DEF AskedKey, Fate, FateIn, Ended
<1>3. Fate' = [Fate EXCEPT ![c] = FateIn(p, target[c])]
  BY DEF Fate, IInv, TypeOK
<1>4. UNCHANGED <<Issued, Live, Readable, AskedKey>>
  <2>1. SameKeys
    BY <1>1, MoveKeepsKeys DEF IInv, TypeOK
  <2>2. QED
    BY <2>1, SameKeysAre DEF IInv, Readable, AskedKey
<1>5. QED
  BY <1>2, <1>3, <1>4, NoneAssumption DEF CR!Pending, CR!Decide

\* A request is refused because the routes cannot be read, or found too late.
LEMMA StartupLosses ==
  ASSUME IInv, NEW c \in Conns, asked[c] \in CancelKeys, phase'[c] \in Ended,
         LoadRoutes(c) \/ DeadlineFires(c)
  PROVE  CR!Refuse(c) \/ CR!Expire(c)
<1>1. CASE LoadRoutes(c)
  <2>1. routes = Unreadable
    BY <1>1 DEF LoadRoutes, Ended, IInv, TypeOK
  <2>2. /\ phase[c] = "accepted" /\ phase' = [phase EXCEPT ![c] = "refused"]
        /\ UNCHANGED <<routes, issuer, known, asked, target>>
    BY <1>1, <2>1 DEF LoadRoutes, LeaveStartup
  <2>3. CR!Pending(c) /\ CR!Decide(c, "refused")
    BY <2>2, FateDecided DEF Started, Ended, FateIn
  <2>4. QED
    BY <2>1, <2>3 DEF CR!Refuse, Readable
<1>2. CASE DeadlineFires(c)
  <2>1. /\ phase[c] = "reading" /\ phase' = [phase EXCEPT ![c] = "late"]
        /\ UNCHANGED <<routes, issuer, known, asked, target>>
    BY <1>2 DEF DeadlineFires, LeaveStartup
  <2>2. CR!Pending(c) /\ CR!Decide(c, "late")
    BY <2>1, FateDecided DEF Started, Ended, FateIn
  <2>3. QED
    BY <2>2 DEF CR!Expire
<1>3. QED
  BY <1>1, <1>2

\* A key that is not registered is held by no client of a live session.
LEMMA DropRefines ==
  ASSUME IInv, NEW c \in Conns, Lookup(c), registry[asked[c]] = None
  PROVE  CR!Drop(c)
<1>1. /\ asked[c] \in CancelKeys /\ phase[c] = "cancel"
      /\ phase' = [phase EXCEPT ![c] = "dropped"]
      /\ target' = [target EXCEPT ![c] = None] /\ target[c] = None
      /\ UNCHANGED <<routes, issuer, known, asked>>
  BY DEF Lookup, IInv, TypeOK, Stages
<1>2. target' = target
  BY <1>1 DEF IInv, TypeOK
<1>3. CR!Pending(c) /\ AskedKey[c] = asked[c] /\ CR!Decide(c, "dropped")
  BY <1>1, <1>2, FateDecided DEF Started, Ended, FateIn
<1>4. asked[c] \notin Live
  BY <1>1, NoneAssumption DEF Live, IInv, KnownKeyIsCancellable, Stages, KeyPath
<1>5. QED
  BY <1>3, <1>4 DEF CR!Drop

\* A request that is written goes to the upstream that issued its key, and one that
\* cannot be written was on its way there.
LEMMA CancelDialRefines ==
  ASSUME IInv, NEW c \in Conns, CancelForward(c) \/ CancelUnreachable(c)
  PROVE  (target[c] \in Targets /\ CR!Send(c, target[c])) \/ CR!Fail(c)
<1>1. /\ phase[c] = "cancelDial" /\ asked[c] \in CancelKeys /\ target[c] \in Targets
      /\ UNCHANGED <<routes, issuer, known, asked, target>>
  BY DEF CancelForward, CancelUnreachable, IInv, Stages
<1>2. <<asked[c], target[c]>> \in Issued
  <2>1. issuer[asked[c]] # None /\ target[issuer[asked[c]]] = target[c]
    BY <1>1, NoneAssumption DEF IInv, CancelReachesIssuer
  <2>2. QED
    BY <1>1, <2>1 DEF Issued
<1>3. CASE CancelForward(c)
  <2>1. CR!Pending(c) /\ AskedKey[c] = asked[c] /\ CR!Decide(c, target[c])
    BY <1>1, <1>3, FateDecided DEF CancelForward, Started, Ended, FateIn
  <2>2. QED
    BY <1>1, <1>2, <2>1 DEF CR!Send
<1>4. CASE CancelUnreachable(c)
  <2>1. CR!Pending(c) /\ AskedKey[c] = asked[c] /\ CR!Decide(c, "unreachable")
    BY <1>1, <1>4, FateDecided DEF CancelUnreachable, Started, Ended, FateIn
  <2>2. asked[c] \in CR!KeysOf(Issued)
    BY <1>2 DEF CR!KeysOf
  <2>3. QED
    BY <2>1, <2>2 DEF CR!Fail
<1>5. QED
  BY <1>3, <1>4

\* The daemon goes down, with every session and every request it was at.
LEMMA StopRefines ==
  ASSUME IInv, DaemonExits
  PROVE  CR!Stop
<1>1. /\ UNCHANGED <<routes, issuer, known, asked, target>>
      /\ phase' = [c \in Conns |-> IF phase[c] \in Started THEN "killed" ELSE phase[c]]
  BY DEF DaemonExits
<1>2. Live' = {}
  <2>1. \A c \in Conns : phase'[c] # "relay"
    BY <1>1 DEF Started
  <2>2. QED
    BY <1>1, <2>1 DEF Live, IInv, TypeOK, KeyPath
<1>3. Fate' = [c \in Conns |-> IF CR!Pending(c) THEN "killed" ELSE Fate[c]]
  <2> SUFFICES ASSUME NEW c \in Conns
               PROVE  Fate'[c] = IF CR!Pending(c) THEN "killed" ELSE Fate[c]
    BY DEF Fate
  <2>1. CASE asked[c] \notin CancelKeys
    BY <1>1, <2>1 DEF Fate, AskedKey, CR!Pending
  <2>2. CASE asked[c] \in CancelKeys
    <3>1. AskedKey[c] = asked[c] /\ asked[c] # None
      BY <2>2, NoneAssumption DEF AskedKey
    <3>2. Fate[c] = FateIn(phase[c], target[c]) /\ Fate'[c] = FateIn(phase'[c], target[c])
      BY <1>1, <2>2 DEF Fate
    <3>3. CASE phase[c] \in Started
      BY <1>1, <3>1, <3>2, <3>3 DEF FateIn, Started, Ended, CR!Pending
    <3>4. CASE phase[c] \in Ended
      <4>1. phase[c] = "forwarded" => target[c] \in Targets
        BY DEF IInv, Stages
      <4>2. Fate'[c] = Fate[c]
        BY <1>1, <3>2, <3>4 DEF Started, Ended
      <4>3. Fate[c] = "none" => phase[c] = "forwarded" /\ target[c] = "none"
        BY <3>2, <3>4 DEF FateIn, Ended
      <4>4. QED
        BY <3>1, <4>2, <4>3, <4>1, TargetsAreNoFates DEF CR!Pending
    <3>5. CASE phase[c] = "idle"
      BY <2>2, <3>5, NoneAssumption DEF IInv, Stages
    <3>6. QED
      BY <3>3, <3>4, <3>5 DEF IInv, TypeOK
  <2>3. QED
    BY <2>1, <2>2
<1>4. UNCHANGED <<Issued, Readable, AskedKey>>
  BY <1>1 DEF Issued, Readable, AskedKey
<1>5. QED
  BY <1>2, <1>3, <1>4 DEF CR!Stop

-----------------------------------------------------------------------------

\* Every step of the proxy is a step of CancelRouting or a stutter.
LEMMA StepRefines == IInv /\ [Next]_vars => [CR!Next]_(CR!vars)
<1> SUFFICES ASSUME IInv, [Next]_vars PROVE CR!Next \/ UNCHANGED CR!vars
  OBVIOUS
<1>1. CASE UNCHANGED vars
  BY <1>1 DEF vars, CR!vars, Issued, Live, Readable, AskedKey, Fate
<1>2. CASE StartDaemon
  BY <1>2 DEF StartDaemon, CR!vars, Issued, Live, Readable, AskedKey, Fate
<1>3. CASE DaemonExits
  BY <1>3, StopRefines DEF CR!Next
<1>4. CASE TruncateRoutes \/ \E m \in RouteMaps : WriteRoutes(m)
  BY <1>4, RoutesRefine DEF CR!Next
<1>5. ASSUME NEW c \in Conns, Accept(c) \/ Main(c) \/ Opening(c)
      PROVE  CR!Next \/ UNCHANGED CR!vars
  <2>1. CASE (LoadRoutes(c) \/ DeadlineFires(c)) /\ asked[c] \in CancelKeys /\ phase'[c] \in Ended
    BY <2>1, StartupLosses DEF CR!Next
  <2>2. CASE Lookup(c) /\ registry[asked[c]] = None
    BY <2>2, DropRefines DEF CR!Next
  <2>3. CASE CancelForward(c) \/ CancelUnreachable(c)
    BY <2>3, CancelDialRefines DEF CR!Next
  <2>4. CASE Finish(c)
    BY <2>4, EndRefines DEF CR!Next
  <2>5. QED
    BY <1>5, <2>1, <2>2, <2>3, <2>4, StartupStutters, DialsStutter DEF Main
<1>6. ASSUME NEW c \in Conns, Up(c) \/ Down(c) \/ Peers(c)
      PROVE  CR!Next \/ UNCHANGED CR!vars
  <2>1. CASE ForwardKey(c)
    BY <2>1, ForwardKeyRefines DEF CR!Next
  <2>2. ASSUME NEW k \in CancelKeys, IssueKey(c, k) PROVE CR!Next
    BY <2>2, IssueRefines DEF CR!Next
  <2>3. ASSUME NEW k \in CancelKeys, ClientAsks(c, k) PROVE CR!Next
    BY <2>3, AskRefines DEF CR!Next
  <2>4. QED
    BY <1>6, <2>1, <2>2, <2>3, RelayStutters DEF Down, Peers
<1>7. QED
  BY <1>1, <1>2, <1>3, <1>4, <1>5, <1>6 DEF Next, Process

\* The proxy implements the abstract specification of cancellation: every request a
\* client has sent has one fate, the upstream that issued its key or one of five
\* losses, each only for its reason.
THEOREM ProxyRoutesCancels == Spec => CancelsAreRouted
  BY InitRefines, StepRefines, Inductive, PTL DEF Spec, CancelsAreRouted, CR!Spec

=============================================================================
