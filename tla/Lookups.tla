-------------------------------- MODULE Lookups --------------------------------
(***************************************************************************)
(* Calls of the functions that look something up and keep no state: the    *)
(* gateway inferred from eth0, the endpoint of a service, the mask of a    *)
(* URL, the path of config.yaml.  Each is compared with what it is for.    *)
(***************************************************************************)
EXTENDS Gateway, Discovery, ConfigPath

CONSTANTS Sizes,     \* sizes of networks
          MaxDepth,  \* of the directory tree
          Lists,     \* answers of service discovery
          Requests,  \* URLs given to `db init`
          NoCall

\* The addresses are divided among networks of a size; an answer is a list.
ASSUME SizesAssumption ==
  \A s \in Sizes : s \in Nat \ {0} /\ (Base * Base * Base * Base) % s = 0
ASSUME ListsAssumption ==
  Lists \subseteq Seq([address : BOOLEAN, role : STRING, default : BOOLEAN])
ASSUME RequestsAssumption == Requests \subseteq URLs
ASSUME PathAssumption == MaxDepth \in Nat /\ UserConfig \notin 0..MaxDepth

VARIABLE call  \* the arguments of a call and what it returned

Init == call = NoCall

GatewayCall ==
  \E host \in IPv4, size \in Sizes :
    \E server \in {NoServer, host, Network(host, size), Increment(host), Address(2)} \ {Overflow} :
      call' = [of |-> "gateway", host |-> host, size |-> size, server |-> server,
               next |-> Increment(host), gateway |-> InferGateway(host, size, server)]

EndpointCall ==
  \E list \in Lists, role \in {"any", "master", "sync"} :
    call' = [of |-> "endpoint", list |-> list, role |-> role,
             chosen |-> ChooseEndpoint(list, role)]

\* The mask of the URL, and the request it makes for a service.
MaskCall ==
  \E request \in Requests :
    LET mask == ExtractMask(request) IN
    call' = [of |-> "mask", request |-> request,
             asked |-> IF mask \in {Failed, NoMask} THEN mask ELSE Render(mask)]

\* A command that saves its configuration, and one that is run elsewhere.
PathCall ==
  \E dirs \in [0..MaxDepth -> Directory], cwd, other \in 0..MaxDepth :
    LET path == ResolveConfigPath(dirs, cwd) IN
    call' = [of |-> "path", dirs |-> dirs, cwd |-> cwd, other |-> other,
             path |-> path,
             found |-> ResolveConfigPath(SavedAt(dirs, path), other)]

Return == call # NoCall /\ call' = NoCall

Next ==
  \/ call = NoCall /\ (GatewayCall \/ EndpointCall \/ MaskCall \/ PathCall)
  \/ Return

Spec == Init /\ [][Next]_call

-----------------------------------------------------------------------------

Called(f) == call # NoCall /\ call.of = f

\* The inferred gateway is an address of the machine's network and another one
\* than the machine's, and without a name server to go by neither the network's
\* own address nor the broadcast address; whatever the octets carry, in every
\* network that has room for two hosts.
GatewayIsAHost ==
  Called("gateway") /\ call.size >= 4 =>
    LET net == Network(call.host, call.size) IN
    /\ call.gateway \in IPv4 \ {call.host}
    /\ InNetwork(net, call.size, call.gateway)
    /\ call.gateway # call.server =>
         Value(call.gateway) \notin {Value(net), Value(net) + call.size - 1}

\* The next address is the one whose value is one more ("incrementIPv4 carries"),
\* and only the last one has none.
IncrementIsSuccessor ==
  Called("gateway") =>
    IF Value(call.host) = Value([i \in 1..4 |-> Base - 1])
    THEN call.next = Overflow
    ELSE call.next \in IPv4 /\ Value(call.next) = Value(call.host) + 1

\* The endpoint chosen has an address, and no other with one comes before it: of
\* the preferred role and a default route, of the role, a default route, the rest,
\* and in the order of the answer ("selects a preferred endpoint by role/default
\* route").  There is none only when no endpoint has an address.
Rank(e, role) ==
  CASE role # "any" /\ e.role = role /\ e.default -> 0
    [] role # "any" /\ e.role = role /\ ~e.default -> 1
    [] (role = "any" \/ e.role # role) /\ e.default -> 2
    [] OTHER -> 3
ChosenIsBest ==
  Called("endpoint") =>
    LET usable == {i \in DOMAIN call.list : call.list[i].address}
        rank(i) == Rank(call.list[i], call.role)
    IN IF usable = {} THEN call.chosen = Failed
       ELSE /\ call.chosen \in usable
            /\ \A i \in usable \ {call.chosen} :
                 \/ rank(call.chosen) < rank(i)
                 \/ rank(call.chosen) = rank(i) /\ call.chosen < i

\* What a request asks for, however it is written and in whatever order.
Meaning(request) ==
  [path |-> Each(DecodeToken, request.path),
   query |-> ToSet(EachValue(DecodeToken, request.query))]

\* The same with another token for one.
Filled(meaning, t) ==
  LET Fill(x) == IF x = t THEN "service" ELSE x IN
  [path |-> Each(Fill, meaning.path),
   query |-> {<<p[1], Each(Fill, p[2])>> : p \in meaning.query}]

\* Where a request has tokens of a set: the path is text 0, then come the parameters.
Marks == Placeholders \cup {"db%", "other%", "s%"}
Text(request, q) == IF q = 0 THEN request.path ELSE request.query[q][2]
Places(request, set) ==
  UNION {{q} \X {i \in DOMAIN Text(request, q) : Text(request, q)[i] \in set} :
         q \in {0} \cup DOMAIN request.query}

\* No placeholder, and a name, up to a dot or the end, in the one parameter "service".
IsSample(request) ==
  /\ Places(request, Marks) = {}
  /\ \E s \in DOMAIN request.query :
       LET value == request.query[s][2] IN
       /\ \A q \in DOMAIN request.query : request.query[q][1] = "service" <=> q = s
       /\ value # <<>> /\ (Len(value) = 1 \/ value[2] = "dot")
       /\ Places(request, {"name"}) = {<<s, 1>>}

\* One placeholder, written where it is recognised.
IsMask(request, t) ==
  /\ \E p \in Places(request, {t}) : Places(request, Marks) = {p}
  /\ ~Has(request.path, {"s", "other"})

\* The mask derived from a URL, rendered for a service, asks what the URL asked
\* with the service in the place of the sample's name, if the URL has no
\* placeholder and its one parameter "service" begins with the name, up to a dot
\* or the end; or in the place of the placeholder, if there is one only, written
\* where it is recognised ("tries to derive endpoint mask from a full Service
\* discovery URL").  Not so for a name that has a dot of its own.
MaskAsksForService ==
  Called("mask") =>
    /\ IsSample(call.request) =>
         call.asked \notin {Failed, NoMask}
         /\ Meaning(call.asked) = Filled(Meaning(call.request), "name")
    /\ \A t \in Placeholders \cup {"db%", "s%"} : IsMask(call.request, t) =>
         call.asked \notin {Failed, NoMask}
         /\ Meaning(call.asked) = Filled(Meaning(call.request), DecodeToken(t))

\* The project a directory is in: the nearest directory above it, or itself, that
\* is marked as one, and none when there is none.
Project(dirs, cwd) ==
  LET Marked(d) == dirs[d].git \/ dirs[d].module # "none" IN
  {d \in 0..cwd : Marked(d) /\ \A e \in (d + 1)..cwd : ~Marked(e)}

\* A command that is run in the project where an earlier one saved its configuration
\* finds that configuration: whichever of the two files it was, and although saving
\* may have made the file that decides.  (A directory outside every project is in
\* none: there the search answers the root of the file system.)
SavedIsFound ==
  Called("path")
  /\ Project(call.dirs, call.cwd) # {}
  /\ Project(call.dirs, call.cwd) = Project(call.dirs, call.other)
  => call.found = call.path
=============================================================================
