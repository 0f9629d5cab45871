----------------------------- MODULE LookupsProofs -----------------------------
(***************************************************************************)
(* Proofs about the functions called in Lookups: the gateway inferred from *)
(* eth0 for octets of eight bits and networks of any size, the endpoint    *)
(* chosen from any answer, the mask derived from any URL, and the          *)
(* configuration found in any directory tree.                              *)
(***************************************************************************)
EXTENDS Lookups, SelectionsProofs

\* Octets have eight bits.
Octets == Base = 256

\* The value of four octets.
Number(w, x, y, z) == ((w * 256 + x) * 256 + y) * 256 + z

\* The value of the octets grows by one, wherever the carry stops.
LEMMA IncrementByOne ==
  ASSUME Octets, NEW a \in IPv4
  PROVE  IF \A i \in 1..4 : a[i] = 255
         THEN Increment(a) = Overflow
         ELSE Increment(a) \in IPv4 /\ Value(Increment(a)) = Value(a) + 1
<1>1. CASE \A i \in 1..4 : a[i] = 255
  BY <1>1 DEF Increment, Octets
<1>2. CASE ~ \A i \in 1..4 : a[i] = 255
  <2>1. /\ a[1] \in 0..255 /\ a[2] \in 0..255 /\ a[3] \in 0..255 /\ a[4] \in 0..255
    BY DEF IPv4, Octets
  <2>2. PICK last \in 1..4 :
          /\ a[last] # 255 /\ \A j \in 1..4 : j > last => a[j] = 255
          /\ Increment(a) = [j \in 1..4 |-> IF j < last THEN a[j]
                                            ELSE IF j = last THEN a[j] + 1 ELSE 0]
    <3>1. \E i \in 1..4 : a[i] # 255 /\ \A j \in 1..4 : j > i => a[j] = 255
      <4>1. \/ a[4] # 255
            \/ a[4] = 255 /\ a[3] # 255
            \/ a[4] = 255 /\ a[3] = 255 /\ a[2] # 255
            \/ a[4] = 255 /\ a[3] = 255 /\ a[2] = 255 /\ a[1] # 255
        BY <1>2
      <4>2. QED BY <4>1
    <3>2. QED BY <1>2, <3>1 DEF Increment, Octets
  <2> DEFINE b == Increment(a)
  <2>3. b \in IPv4
    BY <2>1, <2>2 DEF IPv4, Octets
  <2>4. Value(a) = Number(a[1], a[2], a[3], a[4]) /\ Value(b) = Number(b[1], b[2], b[3], b[4])
    BY DEF Value, Number, Octets
  <2> HIDE DEF b
  <2>5. PICK w \in 0..255, x \in 0..255, y \in 0..255, z \in 0..255 :
          a[1] = w /\ a[2] = x /\ a[3] = y /\ a[4] = z
    BY <2>1
  <2>6. Value(b) = Value(a) + 1
    <3>1. CASE last = 1
      <4>1. a[2] = 255 /\ a[3] = 255 /\ a[4] = 255
        BY <2>2, <3>1
      <4>2. b[1] = a[1] + 1 /\ b[2] = 0 /\ b[3] = 0 /\ b[4] = 0
        BY <2>2, <3>1 DEF b
      <4>3. Number(w + 1, 0, 0, 0) = Number(w, 255, 255, 255) + 1
        BY DEF Number
      <4>4. QED BY <2>4, <2>5, <4>1, <4>2, <4>3
    <3>2. CASE last = 2
      <4>1. a[3] = 255 /\ a[4] = 255
        BY <2>2, <3>2
      <4>2. b[1] = a[1] /\ b[2] = a[2] + 1 /\ b[3] = 0 /\ b[4] = 0
        BY <2>2, <3>2 DEF b
      <4>3. Number(w, x + 1, 0, 0) = Number(w, x, 255, 255) + 1
        BY DEF Number
      <4>4. QED BY <2>4, <2>5, <4>1, <4>2, <4>3
    <3>3. CASE last = 3
      <4>1. a[4] = 255
        BY <2>2, <3>3
      <4>2. b[1] = a[1] /\ b[2] = a[2] /\ b[3] = a[3] + 1 /\ b[4] = 0
        BY <2>2, <3>3 DEF b
      <4>3. Number(w, x, y + 1, 0) = Number(w, x, y, 255) + 1
        BY DEF Number
      <4>4. QED BY <2>4, <2>5, <4>1, <4>2, <4>3
    <3>4. CASE last = 4
      <4>1. b[1] = a[1] /\ b[2] = a[2] /\ b[3] = a[3] /\ b[4] = a[4] + 1
        BY <2>2, <3>4 DEF b
      <4>2. Number(w, x, y, z + 1) = Number(w, x, y, z) + 1
        BY DEF Number
      <4>3. QED BY <2>4, <2>5, <4>1, <4>2
    <3>5. QED BY <3>1, <3>2, <3>3, <3>4
  <2>7. QED BY <1>2, <2>3, <2>6 DEF b
<1>3. QED BY <1>1, <1>2

\* The last address is the only one with its value.
LEMMA LastAddress ==
  ASSUME Octets, NEW a \in IPv4, Value(a) = Value([i \in 1..4 |-> Base - 1])
  PROVE  \A i \in 1..4 : a[i] = 255
<1>1. /\ a[1] \in 0..255 /\ a[2] \in 0..255 /\ a[3] \in 0..255 /\ a[4] \in 0..255
  BY DEF IPv4, Octets
<1>2. Number(a[1], a[2], a[3], a[4]) = Number(255, 255, 255, 255)
  BY DEF Value, Number, Octets
<1>3. PICK w \in 0..255, x \in 0..255, y \in 0..255, z \in 0..255 :
        a[1] = w /\ a[2] = x /\ a[3] = y /\ a[4] = z
  BY <1>1
<1>4. Number(w, x, y, z) = Number(255, 255, 255, 255)
  BY <1>2, <1>3
<1>5. w = 255 /\ x = 255 /\ y = 255 /\ z = 255
  BY <1>4 DEF Number
<1>6. QED BY <1>3, <1>5

\* The next address of incrementIPv4 is the one whose value is one more, whatever
\* carries, and only 255.255.255.255 has none.
THEOREM IncrementCarries ==
  ASSUME Octets
  PROVE  Spec => []IncrementIsSuccessor
<1>1. Init => IncrementIsSuccessor
  BY DEF Init, IncrementIsSuccessor, Called
<1>2. IncrementIsSuccessor /\ [Next]_call => IncrementIsSuccessor'
  <2> SUFFICES ASSUME IncrementIsSuccessor, [Next]_call, Called("gateway")'
               PROVE  IF Value(call'.host) = Value([i \in 1..4 |-> Base - 1])
                      THEN call'.next = Overflow
                      ELSE call'.next \in IPv4 /\ Value(call'.next) = Value(call'.host) + 1
    BY DEF IncrementIsSuccessor
  <2>1. CASE GatewayCall
    <3>1. PICK a \in IPv4 : call'.host = a /\ call'.next = Increment(a)
      BY <2>1 DEF GatewayCall
    <3>2. QED BY <3>1, IncrementByOne, LastAddress DEF Octets, Value
  <2>2. CASE EndpointCall \/ MaskCall \/ PathCall
    BY <2>2 DEF EndpointCall, MaskCall, PathCall, Called
  <2>3. CASE Return
    BY <2>3 DEF Return, Called
  <2>4. CASE UNCHANGED call
    BY <2>4 DEF IncrementIsSuccessor, Called
  <2>5. QED BY <2>1, <2>2, <2>3, <2>4 DEF Next
<1>3. QED BY <1>1, <1>2, PTL DEF Spec

-----------------------------------------------------------------------------
(* The gateway                                                              *)

\* There are as many addresses as this.
Space == 256 * 256 * 256 * 256

\* An address has a value, and a value of that range has an address.
LEMMA AddressOfValue ==
  ASSUME Octets
  PROVE  /\ \A a \in IPv4 : Value(a) \in Nat /\ Value(a) < Space
         /\ \A n \in Nat : n < Space => Address(n) \in IPv4 /\ Value(Address(n)) = n
<1>1. ASSUME NEW a \in IPv4
      PROVE  Value(a) \in Nat /\ Value(a) < Space
  <2>1. PICK w \in 0..255, x \in 0..255, y \in 0..255, z \in 0..255 :
          a[1] = w /\ a[2] = x /\ a[3] = y /\ a[4] = z
    <3>1. /\ a[1] \in 0..255 /\ a[2] \in 0..255 /\ a[3] \in 0..255 /\ a[4] \in 0..255
      BY DEF IPv4, Octets
    <3>2. QED BY <3>1
  <2>2. LET n == ((w * 256 + x) * 256 + y) * 256 + z IN n \in Int /\ n >= 0 /\ n < Space
    BY DEF Space
  <2>3. QED BY <2>1, <2>2 DEF Value, Octets
<1>2. ASSUME NEW n \in Nat, n < Space
      PROVE  Address(n) \in IPv4 /\ Value(Address(n)) = n
  <2>1. PICK p \in Int, z \in 0..255 : n = p * 256 + z
    <3>1. n = (n \div 256) * 256 + (n % 256) /\ n \div 256 \in Int /\ n % 256 \in 0..255
      OBVIOUS
    <3>2. QED BY <3>1
  <2>2. PICK q \in Int, y \in 0..255 : p = q * 256 + y
    <3>1. p = (p \div 256) * 256 + (p % 256) /\ p \div 256 \in Int /\ p % 256 \in 0..255
      OBVIOUS
    <3>2. QED BY <3>1
  <2>3. PICK w \in Int, x \in 0..255 : q = w * 256 + x
    <3>1. q = (q \div 256) * 256 + (q % 256) /\ q \div 256 \in Int /\ q % 256 \in 0..255
      OBVIOUS
    <3>2. QED BY <3>1
  <2>4. w \in 0..255
    <3>1. n = ((w * 256 + x) * 256 + y) * 256 + z
      BY <2>1, <2>2, <2>3
    <3>2. w \in Int /\ w >= 0 /\ w < 256
      BY <1>2, <3>1 DEF Space
    <3>3. QED BY <3>2
  <2> DEFINE a == [i \in 1..4 |-> IF i = 1 THEN w ELSE IF i = 2 THEN x ELSE IF i = 3 THEN y ELSE z]
  <2>5. a \in IPv4 /\ a[1] = w /\ a[2] = x /\ a[3] = y /\ a[4] = z
    BY <2>4 DEF IPv4, Octets
  <2>6. Value(a) = n
    <3>1. n = ((w * 256 + x) * 256 + y) * 256 + z
      BY <2>1, <2>2, <2>3
    <3>2. QED BY <2>5, <3>1 DEF Value, Octets
  <2>7. QED BY <2>5, <2>6 DEF Address
<1>3. QED BY <1>1, <1>2

\* Addresses are divided among networks.
Divides(size) == size \in Nat \ {0} /\ Space % size = 0

\* The network of an address begins at or before it and ends after it, within the
\* addresses.
LEMMA NetworkOfAddress ==
  ASSUME Octets, NEW a \in IPv4, NEW size, Divides(size)
  PROVE  /\ Network(a, size) \in IPv4
         /\ InNetwork(Network(a, size), size, a)
         /\ Value(Network(a, size)) + size <= Space
<1> DEFINE v == Value(a)
           r == v % size
           k == v \div size
           m == Space \div size
<1>1. v \in Nat /\ v < Space
  BY AddressOfValue
<1>2. Space \in Nat /\ size \in Nat /\ size > 0
  BY DEF Space, Divides
<1> HIDE DEF v
<1>3. v = size * k + r /\ r \in 0..(size - 1) /\ k \in Nat
  BY <1>1, <1>2
<1>4. Space = size * m /\ m \in Nat
  BY <1>2 DEF Divides
<1> HIDE DEF r, k, m
<1>5. k < m
  BY <1>1, <1>2, <1>3, <1>4
<1>6. size * k + size <= size * m
  <2>1. size * (k + 1) <= size * m
    BY <1>2, <1>3, <1>4, <1>5
  <2>2. QED BY <1>2, <1>3, <2>1
<1>7. v - r \in Nat /\ v - r < Space /\ v - r + size <= Space
  BY <1>1, <1>2, <1>3, <1>4, <1>6
<1>8. Network(a, size) \in IPv4 /\ Value(Network(a, size)) = v - r
  BY <1>7, AddressOfValue DEF Network, v, r
<1>9. QED BY <1>1, <1>2, <1>3, <1>7, <1>8 DEF InNetwork, v

\* The gateway is another host of the network, and the one that is not a name server
\* is neither the network's own address nor the last one.
LEMMA GatewayOfNetwork ==
  ASSUME Octets, NEW host \in IPv4, NEW size, Divides(size), size >= 4,
         NEW server \in IPv4 \cup {NoServer}
  PROVE  LET net == Network(host, size)
             gateway == InferGateway(host, size, server)
         IN  /\ gateway \in IPv4 \ {host}
             /\ InNetwork(net, size, gateway)
             /\ gateway # server => Value(gateway) \notin {Value(net), Value(net) + size - 1}
<1> DEFINE net == Network(host, size)
           gateway == InferGateway(host, size, server)
<1>1. /\ net \in IPv4 /\ InNetwork(net, size, host)
      /\ Value(net) \in Nat /\ size \in Nat /\ Value(net) + size <= Space
  <2>1. net \in IPv4 /\ InNetwork(net, size, host) /\ Value(net) + size <= Space
    BY NetworkOfAddress
  <2>2. Value(net) \in Nat
    BY <2>1, AddressOfValue
  <2>3. QED BY <2>1, <2>2 DEF Divides
<1>2. ASSUME NEW a \in IPv4, Value(a) + 1 < Space
      PROVE  Increment(a) \in IPv4 /\ Value(Increment(a)) = Value(a) + 1
  <2>1. (\A i \in 1..4 : a[i] = 255) => Value(a) = Space - 1
    BY DEF Value, Octets, Space
  <2>2. ~ \A i \in 1..4 : a[i] = 255
    BY <1>2, <2>1 DEF Space
  <2>3. QED BY <2>2, IncrementByOne
<1> HIDE DEF net
<1>3. CASE server # NoServer /\ InNetwork(net, size, server) /\ server # host
  <2>1. gateway = server
    BY <1>3 DEF InferGateway, net
  <2>2. QED BY <1>3, <2>1 DEF net
<1>4. CASE ~(server # NoServer /\ InNetwork(net, size, server) /\ server # host)
  <2>1. gateway = FirstHost(net, host)
    BY <1>4 DEF InferGateway, net
  <2>2. Increment(net) \in IPv4 /\ Value(Increment(net)) = Value(net) + 1
    BY <1>1, <1>2 DEF Space
  <2>3. CASE Increment(net) = host
    <3>1. Value(host) = Value(net) + 1
      BY <2>2, <2>3
    <3>2. Increment(host) \in IPv4 /\ Value(Increment(host)) = Value(net) + 2
      BY <1>1, <1>2, <3>1 DEF Space
    <3>3. gateway = Increment(host)
      BY <2>1, <2>2, <2>3, OverflowAssumption DEF FirstHost
    <3>4. gateway # host
      BY <1>1, <3>1, <3>2, <3>3
    <3>5. QED BY <1>1, <3>2, <3>3, <3>4 DEF InNetwork, net
  <2>4. CASE Increment(net) # host
    <3>1. gateway = Increment(net)
      BY <2>1, <2>2, <2>4, OverflowAssumption DEF FirstHost
    <3>2. QED BY <1>1, <2>2, <2>4, <3>1 DEF InNetwork, net
  <2>5. QED BY <2>3, <2>4
<1>5. QED BY <1>3, <1>4

\* Only calls of a function are about it.
LEMMA OtherCalls ==
  ASSUME NEW f \in {"gateway", "endpoint", "mask", "path"}, [Next]_call, Called(f)'
  PROVE  \/ UNCHANGED call
         \/ f = "gateway" /\ GatewayCall
         \/ f = "endpoint" /\ EndpointCall
         \/ f = "mask" /\ MaskCall
         \/ f = "path" /\ PathCall
BY DEF Next, Called, GatewayCall, EndpointCall, MaskCall, PathCall, Return

\* For octets of eight bits, and a network of any size with room for two hosts, the
\* inferred gateway is another address of the machine's network and, unless it is a
\* name server, one that a host may have.
THEOREM GatewayIsInNetwork ==
  ASSUME Octets
  PROVE  Spec => []GatewayIsAHost
<1>1. ASSUME GatewayCall
      PROVE  GatewayIsAHost'
  <2>0. PICK host \in IPv4, size \in Sizes :
          \E server \in {NoServer, host, Network(host, size), Increment(host), Address(2)} \ {Overflow} :
            call' = [of |-> "gateway", host |-> host, size |-> size, server |-> server,
                     next |-> Increment(host), gateway |-> InferGateway(host, size, server)]
    BY <1>1 DEF GatewayCall
  <2>1. PICK server \in {NoServer, host, Network(host, size), Increment(host), Address(2)} \ {Overflow} :
          call' = [of |-> "gateway", host |-> host, size |-> size, server |-> server,
                   next |-> Increment(host), gateway |-> InferGateway(host, size, server)]
    BY <2>0
  <2>2. Divides(size)
    <3>1. 256 * 256 = 65536 /\ 65536 * 256 = 16777216 /\ 16777216 * 256 = Space
      BY DEF Space
    <3>2. Base * Base * Base * Base = Space
      BY <3>1 DEF Octets
    <3>3. QED BY <3>2, SizesAssumption DEF Divides
  <2>3. server \in IPv4 \cup {NoServer}
    <3>1. Network(host, size) \in IPv4
      BY <2>2, NetworkOfAddress
    <3>2. Increment(host) \in IPv4 \cup {Overflow}
      BY IncrementByOne
    <3>3. Address(2) \in IPv4
      BY AddressOfValue DEF Space
    <3>4. QED BY <2>1, <3>1, <3>2, <3>3
  <2>4. /\ call'.host = host /\ call'.size = size /\ call'.server = server
        /\ call'.gateway = InferGateway(host, size, server)
    BY <2>1
  <2>5. size >= 4 =>
          LET net == Network(host, size)
              gateway == InferGateway(host, size, server)
          IN  /\ gateway \in IPv4 \ {host}
              /\ InNetwork(net, size, gateway)
              /\ gateway # server => Value(gateway) \notin {Value(net), Value(net) + size - 1}
    BY <2>2, <2>3, GatewayOfNetwork
  <2>6. QED BY <2>4, <2>5 DEF GatewayIsAHost
<1>2. GatewayIsAHost /\ [Next]_call => GatewayIsAHost'
  <2>1. ASSUME GatewayIsAHost, [Next]_call, Called("gateway")'
        PROVE  GatewayIsAHost'
    BY <1>1, <2>1, OtherCalls DEF GatewayIsAHost, Called
  <2>2. ~Called("gateway")' => GatewayIsAHost'
    BY DEF GatewayIsAHost
  <2>3. QED BY <2>1, <2>2
<1>3. Init => GatewayIsAHost
  BY DEF Init, GatewayIsAHost, Called
<1>4. QED BY <1>2, <1>3, PTL DEF Spec

-----------------------------------------------------------------------------
(* The last one                                                             *)

\* Natural numbers up to a bound have a last one.
LEMMA LastOf ==
  ASSUME NEW n \in Nat, NEW S \in SUBSET (0..n), S # {}
  PROVE  Max(S) \in S /\ \A y \in S : y <= Max(S)
<1> DEFINE T == {n - x : x \in S}
<1>1. \A x \in S : x \in Nat /\ n - x \in Nat
  OBVIOUS
<1>2. T \in SUBSET Nat /\ T # {}
  BY <1>1
<1>3. PICK x \in S : n - x = Min(T) /\ \A t \in T : Min(T) <= t
  BY <1>2, FirstOf
<1>4. \A y \in S : n - x <= n - y
  BY <1>3
<1>5. \A y \in S : x >= y
  BY <1>1, <1>4
<1>6. \E m \in S : \A y \in S : m >= y
  BY <1>5
<1>7. Max(S) \in S /\ \A y \in S : Max(S) >= y
  BY <1>6 DEF Max
<1>8. QED BY <1>1, <1>7

-----------------------------------------------------------------------------
(* The configuration                                                        *)

\* The root of a project is the directory that Project has, if any.
LEMMA RootIsProject ==
  ASSUME NEW dirs \in [0..MaxDepth -> Directory], NEW cwd \in 0..MaxDepth
  PROVE  /\ FindProjectRoot(dirs, cwd) \in 0..cwd
         /\ Project(dirs, cwd) # {} => Project(dirs, cwd) = {FindProjectRoot(dirs, cwd)}
<1> DEFINE marked == {d \in 0..cwd : dirs[d].git \/ dirs[d].module # "none"}
           root == FindProjectRoot(dirs, cwd)
<1>1. cwd \in Nat /\ marked \cup {0} \subseteq 0..cwd
  BY PathAssumption
<1>2. root \in marked \cup {0} /\ \A d \in marked \cup {0} : d <= root
  BY <1>1, LastOf DEF FindProjectRoot
<1>3. Project(dirs, cwd) = {d \in marked : \A e \in (d + 1)..cwd : e \notin marked}
  BY <1>1 DEF Project
<1> HIDE DEF marked, root
<1>4. CASE marked = {}
  BY <1>1, <1>2, <1>3, <1>4 DEF root
<1>5. CASE marked # {}
  <2>1. root \in marked
    <3>1. PICK d \in marked : TRUE
      BY <1>5
    <3>2. root # 0 => root \in marked
      BY <1>2
    <3>3. root = 0 => d = 0
      BY <1>1, <1>2
    <3>4. QED BY <3>2, <3>3
  <2>2. ASSUME NEW d \in marked
        PROVE  (\A e \in (d + 1)..cwd : e \notin marked) <=> d = root
    <3>1. d \in 0..cwd /\ root \in 0..cwd /\ d <= root
      BY <1>1, <1>2
    <3>2. QED BY <1>1, <1>2, <2>1, <3>1
  <2>3. QED BY <1>1, <1>2, <1>3, <2>1, <2>2 DEF root
<1>6. QED BY <1>4, <1>5

\* Saving a configuration marks no directory.
LEMMA SavedKeepsProjects ==
  ASSUME NEW dirs \in [0..MaxDepth -> Directory], NEW cwd \in 0..MaxDepth,
         NEW root \in 0..MaxDepth
  PROVE  /\ SavedAt(dirs, root) \in [0..MaxDepth -> Directory]
         /\ SavedAt(dirs, root)[root].local
         /\ FindProjectRoot(SavedAt(dirs, root), cwd) = FindProjectRoot(dirs, cwd)
<1> DEFINE saved == SavedAt(dirs, root)
<1>1. /\ saved \in [0..MaxDepth -> Directory] /\ saved[root].local
      /\ \A d \in 0..MaxDepth : saved[d].git = dirs[d].git /\ saved[d].module = dirs[d].module
  BY PathAssumption DEF SavedAt, Directory
<1>2. \A d \in 0..cwd : d \in 0..MaxDepth
  BY PathAssumption
<1> HIDE DEF saved
<1>3. {d \in 0..cwd : saved[d].git \/ saved[d].module # "none"}
        = {d \in 0..cwd : dirs[d].git \/ dirs[d].module # "none"}
  BY <1>1, <1>2
<1>4. FindProjectRoot(saved, cwd) = FindProjectRoot(dirs, cwd)
  BY <1>3 DEF FindProjectRoot
<1>5. QED BY <1>1, <1>4 DEF saved

\* In every directory tree, a command finds the configuration that an earlier one of
\* the same project has saved.
THEOREM ConfigurationIsFound == Spec => []SavedIsFound
<1>1. ASSUME PathCall
      PROVE  SavedIsFound'
  <2>1. PICK dirs \in [0..MaxDepth -> Directory], cwd \in 0..MaxDepth, other \in 0..MaxDepth :
          call' = [of |-> "path", dirs |-> dirs, cwd |-> cwd, other |-> other,
                   path |-> ResolveConfigPath(dirs, cwd),
                   found |-> ResolveConfigPath(SavedAt(dirs, ResolveConfigPath(dirs, cwd)), other)]
    BY <1>1 DEF PathCall
  <2> DEFINE root == FindProjectRoot(dirs, cwd)
             path == ResolveConfigPath(dirs, cwd)
  <2>2. SUFFICES ASSUME Project(dirs, cwd) # {}, Project(dirs, cwd) = Project(dirs, other)
                 PROVE  ResolveConfigPath(SavedAt(dirs, path), other) = path
    BY <2>1 DEF SavedIsFound, Called
  <2>3. FindProjectRoot(dirs, other) = root /\ root \in 0..MaxDepth
    <3>1. root \in 0..cwd
      BY RootIsProject
    <3>2. FindProjectRoot(dirs, other) = root
      BY <2>2, RootIsProject
    <3>3. QED BY <3>1, <3>2, PathAssumption
  <2> HIDE DEF root
  <2>4. CASE path = UserConfig
    BY <2>3, <2>4 DEF ResolveConfigPath, SavedAt, root
  <2>5. CASE path # UserConfig
    <3>1. path = root
      BY <2>5 DEF ResolveConfigPath, root
    <3>2. FindProjectRoot(SavedAt(dirs, root), other) = root /\ SavedAt(dirs, root)[root].local
      BY <2>3, SavedKeepsProjects
    <3>3. QED BY <3>1, <3>2 DEF ResolveConfigPath
  <2>6. QED BY <2>4, <2>5
<1>2. SavedIsFound /\ [Next]_call => SavedIsFound'
  <2>1. ASSUME SavedIsFound, [Next]_call, Called("path")'
        PROVE  SavedIsFound'
    BY <1>1, <2>1, OtherCalls DEF SavedIsFound, Called
  <2>2. ~Called("path")' => SavedIsFound'
    BY DEF SavedIsFound
  <2>3. QED BY <2>1, <2>2
<1>3. Init => SavedIsFound
  BY DEF Init, SavedIsFound, Called
<1>4. QED BY <1>2, <1>3, PTL DEF Spec

-----------------------------------------------------------------------------
(* The endpoint                                                             *)

\* Of an answer of any length, the endpoint chosen is the first of the best rank.
LEMMA ChoiceIsBest ==
  ASSUME NEW list \in Seq([address : BOOLEAN, role : STRING, default : BOOLEAN]),
         NEW role \in {"any", "master", "sync"}
  PROVE  LET usable == {i \in DOMAIN list : list[i].address}
             chosen == ChooseEndpoint(list, role)
         IN  IF usable = {} THEN chosen = Failed
             ELSE /\ chosen \in usable
                  /\ \A i \in usable \ {chosen} :
                       \/ Rank(list[chosen], role) < Rank(list[i], role)
                       \/ Rank(list[chosen], role) = Rank(list[i], role) /\ chosen < i
<1> DEFINE any == {i \in 1..Len(list) : list[i].address}
           default == {i \in 1..Len(list) : list[i].address /\ list[i].default}
           same == {i \in 1..Len(list) : list[i].address /\ role # "any" /\ list[i].role = role}
           best == {i \in 1..Len(list) : /\ list[i].address /\ role # "any" /\ list[i].role = role
                                         /\ list[i].default}
           first(S) == IF S # {} THEN Min(S) ELSE 0
           chosen == ChooseEndpoint(list, role)
<1>1. DOMAIN list = 1..Len(list) /\ Len(list) \in Nat
  OBVIOUS
<1>2. chosen = CASE first(best) # 0 -> first(best)
                 [] first(best) = 0 /\ first(same) # 0 -> first(same)
                 [] first(best) = 0 /\ first(same) = 0 /\ first(default) # 0 -> first(default)
                 [] first(best) = 0 /\ first(same) = 0 /\ first(default) = 0 /\ first(any) # 0 -> first(any)
                 [] OTHER -> Failed
  BY DEF ChooseEndpoint, SelectInSeq
<1>3. \A S \in {any, default, same, best} :
        /\ S = {} => first(S) = 0
        /\ S # {} => first(S) \in S /\ first(S) # 0 /\ \A i \in S : first(S) <= i
  <2>1. ASSUME NEW S \in {any, default, same, best}, S # {}
        PROVE  first(S) \in S /\ first(S) # 0 /\ \A i \in S : first(S) <= i
    <3>1. S \in SUBSET Nat /\ 0 \notin S
      OBVIOUS
    <3>2. Min(S) \in S /\ \A i \in S : Min(S) <= i
      BY <2>1, <3>1, FirstOf
    <3>3. QED BY <2>1, <3>1, <3>2
  <2>2. QED BY <2>1
<1> HIDE DEF first, chosen
<1>4. \A i \in any : i \in Nat /\ Rank(list[i], role) =
        IF i \in best THEN 0 ELSE IF i \in same THEN 1 ELSE IF i \in default THEN 2 ELSE 3
  BY DEF Rank
<1>5. best \subseteq same /\ same \subseteq any /\ default \subseteq any
  OBVIOUS
<1> HIDE DEF any, default, same, best
<1>6. CASE any = {}
  BY <1>1, <1>2, <1>3, <1>5, <1>6 DEF any, chosen
<1>7. CASE any # {}
  <2>1. /\ chosen \in any
        /\ \A i \in any \ {chosen} :
             \/ Rank(list[chosen], role) < Rank(list[i], role)
             \/ Rank(list[chosen], role) = Rank(list[i], role) /\ chosen < i
    <3>1. CASE best # {}
      <4>1. chosen \in best /\ \A i \in best : chosen <= i
        BY <1>2, <1>3, <3>1
      <4>2. QED BY <1>4, <1>5, <4>1
    <3>2. CASE best = {} /\ same # {}
      <4>1. chosen \in same /\ \A i \in same : chosen <= i
        BY <1>2, <1>3, <3>2
      <4>2. QED BY <1>4, <1>5, <3>2, <4>1
    <3>3. CASE best = {} /\ same = {} /\ default # {}
      <4>1. chosen \in default /\ \A i \in default : chosen <= i
        BY <1>2, <1>3, <3>3
      <4>2. QED BY <1>4, <1>5, <3>3, <4>1
    <3>4. CASE best = {} /\ same = {} /\ default = {}
      <4>1. chosen \in any /\ \A i \in any : chosen <= i
        BY <1>2, <1>3, <1>7, <3>4
      <4>2. QED BY <1>4, <1>5, <3>4, <4>1
    <3>5. QED BY <3>1, <3>2, <3>3, <3>4
  <2>2. QED BY <1>1, <1>7, <2>1 DEF any, chosen
<1>8. QED BY <1>6, <1>7

\* Whatever discovery answers, the endpoint chosen is the best one and there is none
\* only when no endpoint has an address.
THEOREM BestEndpointIsChosen == Spec => []ChosenIsBest
<1>1. ASSUME EndpointCall
      PROVE  ChosenIsBest'
  <2>1. PICK list \in Lists, role \in {"any", "master", "sync"} :
          call' = [of |-> "endpoint", list |-> list, role |-> role,
                   chosen |-> ChooseEndpoint(list, role)]
    BY <1>1 DEF EndpointCall
  <2>2. list \in Seq([address : BOOLEAN, role : STRING, default : BOOLEAN])
    BY ListsAssumption
  <2>3. call'.list = list /\ call'.role = role /\ call'.chosen = ChooseEndpoint(list, role)
    BY <2>1
  <2>4. QED BY <2>2, <2>3, ChoiceIsBest DEF ChosenIsBest
<1>2. ChosenIsBest /\ [Next]_call => ChosenIsBest'
  <2>1. ASSUME ChosenIsBest, [Next]_call, Called("endpoint")'
        PROVE  ChosenIsBest'
    BY <1>1, <2>1, OtherCalls DEF ChosenIsBest, Called
  <2>2. ~Called("endpoint")' => ChosenIsBest'
    BY DEF ChosenIsBest
  <2>3. QED BY <2>1, <2>2
<1>3. Init => ChosenIsBest
  BY DEF Init, ChosenIsBest, Called
<1>4. QED BY <1>2, <1>3, PTL DEF Spec

-----------------------------------------------------------------------------
(* The mask                                                                 *)

\* Every token as it is meant.
Decoded(request) ==
  [path |-> Each(DecodeToken, request.path), query |-> EachValue(DecodeToken, request.query)]

\* d wherever it is gives way to the service.
Replaced(request, d) ==
  LET Fill(x) == IF x = d THEN "service" ELSE x IN
  [path |-> Each(Fill, request.path), query |-> EachValue(Fill, request.query)]

\* What becomes of a token.
LEMMA TokenFacts ==
  /\ \A t \in Tokens : /\ DecodeToken(t) \in Plain
                       /\ DecodeToken(t) \in Placeholders <=> t \in Marks
                       /\ DecodeToken(t) = "name" <=> t = "name"
                       /\ t # "other%" => RestoreToken(t) = DecodeToken(t)
                       /\ DecodeToken(t) # "other" =>
                            RestoreToken(IF DecodeToken(t) = "colon" THEN DecodeToken(t)
                                         ELSE EncodeToken(DecodeToken(t))) = DecodeToken(t)
  /\ \A t \in Plain : /\ t \in Tokens
                      /\ DecodeToken(t) = t
                      /\ EncodeToken(t) \in Tokens /\ DecodeToken(EncodeToken(t)) = t
                      /\ t # "other" => EncodeToken(t) # "other%"
  /\ DecodeToken("service") = "service" /\ "service" \notin Tokens
BY DEF Tokens, Plain, Encoded, Placeholders, Marks, DecodeToken, EncodeToken, RestoreToken

\* Where a token is.
LEMMA WhereTokensAre ==
  ASSUME NEW request, NEW S
  PROVE  /\ \A q, i : <<q, i>> \in Places(request, S) <=>
              /\ q \in {0} \cup DOMAIN request.query
              /\ i \in DOMAIN Text(request, q) /\ Text(request, q)[i] \in S
         /\ \A p \in Places(request, S) : p = <<p[1], p[2]>>
BY DEF Places

\* A sequence has a token of a set at some place.
LEMMA HasToken ==
  ASSUME NEW T, NEW ts \in Seq(T), NEW S
  PROVE  Has(ts, S) <=> \E i \in DOMAIN ts : ts[i] \in S
BY DEF Has, ToSet

\* What is in one of the texts is in the path or in a parameter.
LEMMA TextsOf ==
  ASSUME NEW request, request.query \in Seq(Parameters(Tokens))
  PROVE  /\ Text(request, 0) = request.path
         /\ \A q \in DOMAIN request.query :
              /\ q # 0 /\ Text(request, q) = request.query[q][2]
              /\ Text(request, q) \in Seq(Tokens)
              /\ request.query[q] \in Parameters(Tokens)
              /\ request.query[q] = <<request.query[q][1], request.query[q][2]>>
BY DEF Text, Parameters

\* When no placeholder but %s and <db> is written in the path, and none is encoded
\* elsewhere, restoring the request URI decodes every token.
LEMMA UriDecodes ==
  ASSUME NEW request \in URLs,
         \A i \in DOMAIN request.path : request.path[i] \notin {"other", "other%"},
         \A q \in DOMAIN request.query : \A i \in DOMAIN request.query[q][2] :
           request.query[q][2][i] # "other%"
  PROVE  Restore(RequestURI(request)) = Decoded(request)
<1> DEFINE uri == RequestURI(request)
<1>1. /\ request.path \in Seq(Tokens) /\ request.query \in Seq(Parameters(Tokens))
      /\ \A i \in DOMAIN request.path : request.path[i] \in Tokens
      /\ \A q \in DOMAIN request.query : \A i \in DOMAIN request.query[q][2] :
           request.query[q][2][i] \in Tokens
  BY DEF URLs, RequestsOf, Parameters
<1>2. uri.query = request.query
  BY DEF RequestURI, URLs, RequestsOf, Parameters
<1>3. EachValue(RestoreToken, uri.query) = EachValue(DecodeToken, request.query)
  BY <1>1, <1>2, TokenFacts DEF EachValue, Each
<1>4. Each(RestoreToken, uri.path) = Each(DecodeToken, request.path)
  <2>1. CASE Has(request.path, {"db", "other"})
    <3>1. uri.path = [i \in DOMAIN request.path |->
                        IF DecodeToken(request.path[i]) = "colon" THEN DecodeToken(request.path[i])
                        ELSE EncodeToken(DecodeToken(request.path[i]))]
      BY <2>1 DEF RequestURI, Each, URLs, RequestsOf, Parameters
    <3>2. \A i \in DOMAIN request.path : DecodeToken(request.path[i]) # "other"
      BY DEF DecodeToken
    <3>3. QED BY <1>1, <3>1, <3>2, TokenFacts DEF Each
  <2>2. CASE ~Has(request.path, {"db", "other"})
    <3>1. uri.path = request.path
      BY <2>2 DEF RequestURI, URLs, RequestsOf, Parameters
    <3>2. QED BY <1>1, <3>1, TokenFacts DEF Each
  <2>3. QED BY <2>1, <2>2
<1>5. QED BY <1>3, <1>4 DEF Restore, Decoded

\* Masks are written with the tokens that are meant.
Masks == RequestsOf(Plain)

\* The first <...> of a text.
Angle(ts) ==
  LET places == {i \in 1..Len(ts) : ts[i] \in {"db", "other"}} IN
  IF places # {} THEN Min(places) ELSE 0

LEMMA AngleIsFirst ==
  ASSUME NEW ts \in Seq(Plain)
  PROVE  /\ Angle(ts) = 0 <=> \A i \in DOMAIN ts : ts[i] \notin {"db", "other"}
         /\ Angle(ts) # 0 => Angle(ts) \in DOMAIN ts /\ ts[Angle(ts)] \in {"db", "other"}
<1> DEFINE places == {i \in 1..Len(ts) : ts[i] \in {"db", "other"}}
<1>1. places \in SUBSET Nat /\ 0 \notin places /\ DOMAIN ts = 1..Len(ts)
  OBVIOUS
<1>2. places # {} => Min(places) \in places
  BY <1>1, FirstOf
<1>3. QED BY <1>1, <1>2 DEF Angle

\* Replacing a placeholder leaves the texts without it.
LEMMA NothingToReplace ==
  ASSUME NEW mask \in Masks, NEW d
  PROVE  LET new == Replaced(mask, d) IN
         /\ new.query = [q \in DOMAIN mask.query |-> new.query[q]]
         /\ new = [path |-> new.path, query |-> new.query]
         /\ (\A i \in DOMAIN mask.path : mask.path[i] # d) => new.path = mask.path
         /\ \A q \in DOMAIN mask.query :
              (\A i \in DOMAIN mask.query[q][2] : mask.query[q][2][i] # d)
              => new.query[q] = mask.query[q]
<1>1. mask.path \in Seq(Plain)
  BY DEF Masks, RequestsOf, Parameters
<1>2. \A q \in DOMAIN mask.query :
        /\ mask.query[q] = <<mask.query[q][1], mask.query[q][2]>>
        /\ mask.query[q][2] \in Seq(Plain)
  BY DEF Masks, RequestsOf, Parameters
<1> DEFINE new == Replaced(mask, d)
<1>3. /\ new.path = [i \in DOMAIN mask.path |->
                       IF mask.path[i] = d THEN "service" ELSE mask.path[i]]
      /\ new.query = [q \in DOMAIN mask.query |->
                        <<mask.query[q][1],
                          [i \in DOMAIN mask.query[q][2] |->
                             IF mask.query[q][2][i] = d THEN "service"
                             ELSE mask.query[q][2][i]]>>]
      /\ new = [path |-> new.path, query |-> new.query]
  BY DEF Replaced, Each, EachValue
<1> HIDE DEF new
<1>4. (\A i \in DOMAIN mask.path : mask.path[i] # d) => new.path = mask.path
  BY <1>1, <1>3
<1>5. ASSUME NEW q \in DOMAIN mask.query,
             \A i \in DOMAIN mask.query[q][2] : mask.query[q][2][i] # d
      PROVE  new.query[q] = mask.query[q]
  <2>1. PICK ts \in Seq(Plain) : ts = mask.query[q][2]
    BY <1>2
  <2>2. [i \in DOMAIN ts |-> IF ts[i] = d THEN "service" ELSE ts[i]] = ts
    BY <1>5, <2>1
  <2>3. new.query[q] = <<mask.query[q][1],
                        [i \in DOMAIN ts |-> IF ts[i] = d THEN "service" ELSE ts[i]]>>
    BY <1>3, <2>1
  <2>4. QED BY <1>2, <2>1, <2>2, <2>3
<1>6. QED BY <1>3, <1>4, <1>5 DEF new

\* The one placeholder of a mask gives way to the service.
LEMMA RenderReplaces ==
  ASSUME NEW mask \in Masks, NEW q, NEW i, Places(mask, Placeholders) = {<<q, i>>}
  PROVE  Render(mask) = Replaced(mask, Text(mask, q)[i])
<1> DEFINE d == Text(mask, q)[i]
           new == Replaced(mask, d)
<1>1. /\ mask.path \in Seq(Plain) /\ Text(mask, 0) = mask.path
      /\ mask = [path |-> mask.path, query |-> mask.query]
      /\ DOMAIN mask.query = 1..Len(mask.query) /\ Len(mask.query) \in Nat
      /\ \A r \in DOMAIN mask.query :
           /\ r # 0 /\ Text(mask, r) = mask.query[r][2] /\ mask.query[r][2] \in Seq(Plain)
           /\ mask.query[r] = <<mask.query[r][1], mask.query[r][2]>>
  BY DEF Masks, Text, RequestsOf, Parameters
<1>2. /\ q \in {0} \cup DOMAIN mask.query /\ i \in DOMAIN Text(mask, q) /\ d \in Placeholders
      /\ \A r \in {0} \cup DOMAIN mask.query : \A j \in DOMAIN Text(mask, r) :
           Text(mask, r)[j] \in Placeholders => r = q /\ j = i
  <2>1. \A r, j : <<r, j>> \in Places(mask, Placeholders) <=> r = q /\ j = i
    OBVIOUS
  <2>2. \A r, j : <<r, j>> \in Places(mask, Placeholders) <=>
          /\ r \in {0} \cup DOMAIN mask.query
          /\ j \in DOMAIN Text(mask, r) /\ Text(mask, r)[j] \in Placeholders
    BY WhereTokensAre
  <2>3. QED BY <2>1, <2>2
<1>3. Placeholders = {"s"} \cup {"db", "other"}
  BY DEF Placeholders
<1>4. AnyHas(mask, {"s"}) <=> d = "s"
  <2>1. AnyHas(mask, {"s"}) <=> \E r \in {0} \cup DOMAIN mask.query : \E j \in DOMAIN Text(mask, r) :
                                  Text(mask, r)[j] = "s"
    BY <1>1, HasToken DEF AnyHas
  <2>2. QED BY <1>2, <1>3, <2>1
<1>5. CASE d = "s"
  BY <1>4, <1>5 DEF Render, Replaced, Each, EachValue
<1>6. CASE d # "s"
  <2> DEFINE angled == {r \in 1..Len(mask.query) : Angle(mask.query[r][2]) # 0}
             first == IF angled # {} THEN Min(angled) ELSE 0
  <2>1. Render(mask) =
          IF Angle(mask.path) # 0 THEN [mask EXCEPT !.path[Angle(mask.path)] = "service"]
          ELSE [mask EXCEPT !.query[first] =
                  <<mask.query[first][1],
                    [mask.query[first][2] EXCEPT ![Angle(mask.query[first][2])] = "service"]>>]
    BY <1>4, <1>6 DEF Render, Angle, SelectInSeq
  <2>2. d \in {"db", "other"}
    BY <1>2, <1>3, <1>6
  <2>3. \A r \in {0} \cup DOMAIN mask.query :
          /\ r # q => Angle(Text(mask, r)) = 0
          /\ r = q => Angle(Text(mask, r)) = i /\ i # 0
    BY <1>1, <1>2, <1>3, <2>2, AngleIsFirst
  <2>4. \A r \in {0} \cup DOMAIN mask.query : \A j \in DOMAIN Text(mask, r) :
          Text(mask, r)[j] = d <=> r = q /\ j = i
    BY <1>2
  <2> HIDE DEF d
  <2>5. /\ new.query = [r \in DOMAIN mask.query |-> new.query[r]]
        /\ new = [path |-> new.path, query |-> new.query]
        /\ (\A j \in DOMAIN mask.path : mask.path[j] # d) => new.path = mask.path
        /\ \A r \in DOMAIN mask.query :
              (\A j \in DOMAIN mask.query[r][2] : mask.query[r][2][j] # d)
              => new.query[r] = mask.query[r]
    BY NothingToReplace
  <2> HIDE DEF new
  <2>6. mask.query = [r \in DOMAIN mask.query |-> mask.query[r]]
    BY DEF Masks, RequestsOf, Parameters
  <2>7. CASE q = 0
    <3>1. Render(mask) = [mask EXCEPT !.path[i] = "service"]
      BY <1>1, <2>1, <2>3, <2>7
    <3>2. new.query = mask.query
      <4>1. \A r \in DOMAIN mask.query : new.query[r] = mask.query[r]
        BY <1>1, <2>4, <2>7, <2>5
      <4>2. QED BY <2>5, <2>6, <4>1
    <3>3. new.path = [mask.path EXCEPT ![i] = "service"]
      <4>1. new.path = [j \in DOMAIN mask.path |->
                          IF mask.path[j] = d THEN "service" ELSE mask.path[j]]
        BY DEF new, Replaced, Each
      <4>2. QED BY <1>1, <2>4, <2>7, <4>1
    <3>4. Render(mask) = [path |-> [mask.path EXCEPT ![i] = "service"], query |-> mask.query]
      BY <1>1, <3>1
    <3>5. QED BY <2>5, <3>2, <3>3, <3>4 DEF d, new
  <2>8. CASE q \in DOMAIN mask.query
    <3> DEFINE ts == mask.query[q][2]
    <3>1. first = q
      <4>1. angled = {q}
        BY <1>1, <2>3, <2>8
      <4>2. Min({q}) = q
        BY <1>1, <2>8 DEF Min
      <4>3. QED BY <4>1, <4>2
    <3> HIDE DEF first
    <3>2. Render(mask) = [mask EXCEPT !.query[q] = <<mask.query[q][1], [ts EXCEPT ![i] = "service"]>>]
      <4>1. Angle(mask.path) = 0 /\ Angle(mask.query[q][2]) = i
        BY <1>1, <2>3, <2>8
      <4>2. QED BY <2>1, <3>1, <4>1
    <3>3. new.query[q] = <<mask.query[q][1], [ts EXCEPT ![i] = "service"]>>
      <4>1. new.query[q] = <<mask.query[q][1], [j \in DOMAIN ts |->
                               IF ts[j] = d THEN "service" ELSE ts[j]]>>
        BY <2>8 DEF new, Replaced, Each, EachValue
      <4>2. [j \in DOMAIN ts |-> IF ts[j] = d THEN "service" ELSE ts[j]] = [ts EXCEPT ![i] = "service"]
        BY <1>1, <2>4, <2>8
      <4>3. QED BY <4>1, <4>2
    <3>4. \A r \in DOMAIN mask.query \ {q} : new.query[r] = mask.query[r]
      BY <1>1, <2>4, <2>8, <2>5
    <3>5. new.query = [mask.query EXCEPT ![q] = <<mask.query[q][1], [ts EXCEPT ![i] = "service"]>>]
      BY <2>8, <2>5, <2>6, <3>3, <3>4
    <3>6. new.path = mask.path
      BY <1>1, <2>4, <2>8, <2>5
    <3>7. Render(mask) = [path |-> mask.path,
                          query |-> [mask.query EXCEPT ![q] =
                                       <<mask.query[q][1], [ts EXCEPT ![i] = "service"]>>]]
      BY <1>1, <3>2
    <3>8. QED BY <2>5, <3>5, <3>6, <3>7 DEF d, new
  <2>9. QED BY <1>2, <2>7, <2>8 DEF d, new
<1>7. QED BY <1>5, <1>6

\* What a request means is what its decoded tokens say, where they were.
LEMMA DecodedSays ==
  ASSUME NEW request \in URLs
  PROVE  /\ Decoded(request) \in Masks
         /\ Meaning(request) = [path |-> Decoded(request).path,
                                query |-> ToSet(Decoded(request).query)]
         /\ DOMAIN Decoded(request).query = DOMAIN request.query
         /\ \A q \in {0} \cup DOMAIN request.query :
              /\ DOMAIN Text(Decoded(request), q) = DOMAIN Text(request, q)
              /\ \A i \in DOMAIN Text(request, q) :
                   /\ Text(request, q)[i] \in Tokens
                   /\ Text(Decoded(request), q)[i] = DecodeToken(Text(request, q)[i])
         /\ Places(Decoded(request), Placeholders) = Places(request, Marks)
<1> DEFINE new == Decoded(request)
<1>1. /\ request.path \in Seq(Tokens) /\ request.query \in Seq(Parameters(Tokens))
      /\ DOMAIN request.query = 1..Len(request.query) /\ Len(request.query) \in Nat
      /\ \A q \in DOMAIN request.query :
           /\ q # 0 /\ request.query[q][1] \in {"a", "service", "z"}
           /\ request.query[q][2] \in Seq(Tokens)
  BY DEF URLs, RequestsOf, Parameters
<1>2. \A ts \in Seq(Tokens) :
        Each(DecodeToken, ts) \in Seq(Plain) /\ \A i \in DOMAIN ts : ts[i] \in Tokens
  BY TokenFacts DEF Each
<1>3. /\ new.path = Each(DecodeToken, request.path)
      /\ new.query = [q \in DOMAIN request.query |->
                        <<request.query[q][1], Each(DecodeToken, request.query[q][2])>>]
      /\ new = [path |-> new.path, query |-> new.query]
  BY DEF Decoded, EachValue
<1>4. new \in Masks
  <2>1. new.path \in Seq(Plain)
    BY <1>1, <1>2, <1>3
  <2>2. \A q \in DOMAIN request.query :
          <<request.query[q][1], Each(DecodeToken, request.query[q][2])>>
            \in {"a", "service", "z"} \X Seq(Plain)
    BY <1>1, <1>2
  <2>3. new.query \in Seq({"a", "service", "z"} \X Seq(Plain))
    BY <1>1, <1>3, <2>2
  <2>4. QED BY <1>3, <2>1, <2>3 DEF Masks, RequestsOf, Parameters
<1>5. Meaning(request) = [path |-> new.path, query |-> ToSet(new.query)]
  BY DEF Meaning, Decoded
<1> HIDE DEF new
<1>6. \A q \in {0} \cup DOMAIN request.query :
        /\ DOMAIN Text(new, q) = DOMAIN Text(request, q)
        /\ \A i \in DOMAIN Text(request, q) :
             Text(request, q)[i] \in Tokens /\ Text(new, q)[i] = DecodeToken(Text(request, q)[i])
  BY <1>1, <1>2, <1>3 DEF Text, Each
<1>7. DOMAIN new.query = DOMAIN request.query
  BY <1>3
<1>8. \A q, i : <<q, i>> \in Places(new, Placeholders) <=> <<q, i>> \in Places(request, Marks)
  <2>1. \A q, i : <<q, i>> \in Places(new, Placeholders) <=>
          /\ q \in {0} \cup DOMAIN new.query
          /\ i \in DOMAIN Text(new, q) /\ Text(new, q)[i] \in Placeholders
    BY WhereTokensAre
  <2>2. \A q, i : <<q, i>> \in Places(request, Marks) <=>
          /\ q \in {0} \cup DOMAIN request.query
          /\ i \in DOMAIN Text(request, q) /\ Text(request, q)[i] \in Marks
    BY WhereTokensAre
  <2>3. \A q \in {0} \cup DOMAIN request.query : \A i \in DOMAIN Text(request, q) :
          Text(new, q)[i] \in Placeholders <=> Text(request, q)[i] \in Marks
    BY <1>6, TokenFacts
  <2>4. QED BY <1>6, <1>7, <2>1, <2>2, <2>3
<1>9. Places(new, Placeholders) = Places(request, Marks)
  <2>1. \A p \in Places(new, Placeholders) : p \in Places(request, Marks)
    BY <1>8, WhereTokensAre
  <2>2. \A p \in Places(request, Marks) : p \in Places(new, Placeholders)
    BY <1>8, WhereTokensAre
  <2>3. QED BY <2>1, <2>2
<1>10. QED BY <1>4, <1>5, <1>6, <1>7, <1>9 DEF new

\* A function on the first natural numbers is a sequence.
LEMMA SequenceOf ==
  ASSUME NEW S, NEW n \in Nat, NEW f, f = [i \in 1..n |-> f[i]], \A i \in 1..n : f[i] \in S
  PROVE  f \in Seq(S)
OBVIOUS

\* A rendered mask means what the mask says, with the service.
LEMMA ReplacedMeans ==
  ASSUME NEW mask \in Masks, NEW d
  PROVE  /\ Meaning(Replaced(mask, d)) = Filled([path |-> mask.path, query |-> ToSet(mask.query)], d)
         /\ Replaced(mask, d) \notin {Failed, NoMask}
<1> DEFINE Fill(x) == IF x = d THEN "service" ELSE x
           new == Replaced(mask, d)
           Written == Tokens \cup {"service"}
<1>1. /\ mask.path \in Seq(Plain)
      /\ DOMAIN mask.query = 1..Len(mask.query) /\ Len(mask.query) \in Nat
      /\ \A q \in DOMAIN mask.query :
           /\ mask.query[q][1] \in {"a", "service", "z"}
           /\ mask.query[q][2] \in Seq(Plain)
  BY DEF Masks, RequestsOf, Parameters
<1>2. \A ts \in Seq(Plain) :
        /\ Each(Fill, ts) \in Seq(Written)
        /\ Each(DecodeToken, Each(Fill, ts)) = Each(Fill, ts)
  <2> SUFFICES ASSUME NEW ts \in Seq(Plain)
               PROVE  /\ Each(Fill, ts) \in Seq(Written)
                      /\ Each(DecodeToken, Each(Fill, ts)) = Each(Fill, ts)
    OBVIOUS
  <2>1. \A i \in DOMAIN ts : Fill(ts[i]) \in Written /\ DecodeToken(Fill(ts[i])) = Fill(ts[i])
    BY TokenFacts
  <2> HIDE DEF Fill
  <2>2. QED BY <2>1 DEF Each
<1>3. /\ new.path = Each(Fill, mask.path)
      /\ new.query = [q \in DOMAIN mask.query |->
                        <<mask.query[q][1], Each(Fill, mask.query[q][2])>>]
      /\ new = [path |-> new.path, query |-> new.query]
  BY DEF Replaced, EachValue
<1>4. Filled([path |-> mask.path, query |-> ToSet(mask.query)], d)
        = [path |-> Each(Fill, mask.path),
           query |-> {<<p[1], Each(Fill, p[2])>> : p \in ToSet(mask.query)}]
  BY DEF Filled
<1>5. Meaning(new) = [path |-> Each(DecodeToken, new.path),
                      query |-> ToSet([q \in DOMAIN new.query |->
                                  <<new.query[q][1], Each(DecodeToken, new.query[q][2])>>])]
  BY DEF Meaning, EachValue
<1> HIDE DEF Fill, new
<1>6. Each(DecodeToken, new.path) = Each(Fill, mask.path)
  BY <1>1, <1>2, <1>3
<1>7. \A q \in DOMAIN mask.query :
        <<new.query[q][1], Each(DecodeToken, new.query[q][2])>>
          = <<mask.query[q][1], Each(Fill, mask.query[q][2])>>
  BY <1>1, <1>2, <1>3
<1>8. ToSet([q \in DOMAIN new.query |-> <<new.query[q][1], Each(DecodeToken, new.query[q][2])>>])
        = {<<p[1], Each(Fill, p[2])>> : p \in ToSet(mask.query)}
  <2> DEFINE meant(q) == <<new.query[q][1], Each(DecodeToken, new.query[q][2])>>
             filled(p) == <<p[1], Each(Fill, p[2])>>
  <2>1. DOMAIN new.query = DOMAIN mask.query
    BY <1>3
  <2>2. \A q \in DOMAIN mask.query : meant(q) = filled(mask.query[q])
    BY <1>7
  <2> HIDE DEF meant, filled
  <2>3. ToSet([q \in DOMAIN new.query |-> meant(q)]) = {filled(p) : p \in ToSet(mask.query)}
    BY <2>1, <2>2 DEF ToSet
  <2>4. QED BY <2>3 DEF meant, filled
<1>9. new \in RequestsOf(Written)
  <2>1. \A q \in DOMAIN mask.query :
          <<mask.query[q][1], Each(Fill, mask.query[q][2])>> \in Parameters(Written)
    BY <1>1, <1>2 DEF Parameters
  <2>2. new.query \in Seq(Parameters(Written))
    <3>1. \A q \in 1..Len(mask.query) : new.query[q] \in Parameters(Written)
      BY <1>1, <1>3, <2>1
    <3>2. new.query = [q \in 1..Len(mask.query) |-> new.query[q]]
      BY <1>1, <1>3
    <3> HIDE DEF Written
    <3>3. QED BY <1>1, <3>1, <3>2, SequenceOf
  <2>3. new.path \in Seq(Written)
    BY <1>1, <1>2, <1>3
  <2>4. QED BY <1>3, <2>2, <2>3 DEF RequestsOf
<1>10. QED BY <1>4, <1>5, <1>6, <1>8, <1>9, ResultAssumption DEF new

\* A request has tokens of a set when it has places with them.
LEMMA PlacesAreHad ==
  ASSUME NEW T, NEW request \in RequestsOf(T), NEW S
  PROVE  AnyHas(request, S) <=> Places(request, S) # {}
<1>1. /\ request.path \in Seq(T) /\ Text(request, 0) = request.path
      /\ \A q \in DOMAIN request.query :
           /\ q # 0 /\ Text(request, q) = request.query[q][2]
           /\ request.query[q][2] \in Seq(T)
  BY DEF RequestsOf, Parameters, Text
<1>2. AnyHas(request, S) <=> \E q \in {0} \cup DOMAIN request.query :
                               \E i \in DOMAIN Text(request, q) : Text(request, q)[i] \in S
  BY <1>1, HasToken DEF AnyHas
<1>3. \A q, i : <<q, i>> \in Places(request, S) <=>
        /\ q \in {0} \cup DOMAIN request.query
        /\ i \in DOMAIN Text(request, q) /\ Text(request, q)[i] \in S
  BY WhereTokensAre
<1>4. ASSUME NEW p \in Places(request, S)
      PROVE  AnyHas(request, S)
  <2>1. p = <<p[1], p[2]>>
    BY WhereTokensAre
  <2>2. QED BY <1>2, <1>3, <1>4, <2>1
<1>5. AnyHas(request, S) => Places(request, S) # {}
  BY <1>2, <1>3
<1>6. QED BY <1>4, <1>5

\* A mask is neither of the other two results.
LEMMA MasksAreResults ==
  ASSUME NEW mask \in Masks
  PROVE  mask \notin {Failed, NoMask}
<1>1. Plain \subseteq Tokens \cup {"service"}
  BY DEF Tokens
<1>2. mask \in RequestsOf(Tokens \cup {"service"})
  <2> DEFINE T == Tokens \cup {"service"}
  <2>1. \A ts \in Seq(Plain) : ts \in Seq(T)
    BY <1>1
  <2> HIDE DEF T
  <2>2. Parameters(Plain) \subseteq Parameters(T)
    BY <2>1 DEF Parameters
  <2>3. mask.query \in Seq(Parameters(T)) /\ mask.path \in Seq(T)
    BY <2>1, <2>2 DEF Masks, RequestsOf
  <2>4. mask = [path |-> mask.path, query |-> mask.query]
    BY DEF Masks, RequestsOf
  <2>5. mask \in RequestsOf(T)
    BY <2>3, <2>4 DEF RequestsOf
  <2>6. QED BY <2>5 DEF T
<1>3. QED BY <1>2, ResultAssumption

\* A mask that a request gives itself is rendered for the service.
LEMMA MaskIsRendered ==
  ASSUME NEW request \in URLs, NEW t \in Placeholders \cup {"db%", "s%"}, IsMask(request, t)
  PROVE  LET mask == ExtractMask(request) IN
         /\ mask \notin {Failed, NoMask}
         /\ Render(mask) \notin {Failed, NoMask}
         /\ Meaning(Render(mask)) = Filled(Meaning(request), DecodeToken(t))
<1> DEFINE mask == Decoded(request)
<1>1. PICK q, i : Places(request, Marks) = {<<q, i>>} /\ <<q, i>> \in Places(request, {t})
  <2>1. PICK p \in Places(request, {t}) : Places(request, Marks) = {p}
    BY DEF IsMask
  <2>2. p = <<p[1], p[2]>>
    BY WhereTokensAre
  <2>3. QED BY <2>1, <2>2
<1>2. /\ q \in {0} \cup DOMAIN request.query /\ i \in DOMAIN Text(request, q)
      /\ Text(request, q)[i] = t
      /\ \A r \in {0} \cup DOMAIN request.query : \A j \in DOMAIN Text(request, r) :
           Text(request, r)[j] \in Marks => r = q /\ j = i
  <2>1. \A r, j : <<r, j>> \in Places(request, Marks) <=> r = q /\ j = i
    BY <1>1
  <2>2. \A r, j : <<r, j>> \in Places(request, Marks) <=>
          /\ r \in {0} \cup DOMAIN request.query
          /\ j \in DOMAIN Text(request, r) /\ Text(request, r)[j] \in Marks
    BY WhereTokensAre
  <2>3. Text(request, q)[i] = t
    BY <1>1, WhereTokensAre
  <2>4. QED BY <2>1, <2>2, <2>3
<1>3. /\ request.path \in Seq(Tokens) /\ request.query \in Seq(Parameters(Tokens))
  BY DEF URLs, RequestsOf
<1>4. \A r \in {0} \cup DOMAIN request.query : \A j \in DOMAIN Text(request, r) :
        Text(request, r)[j] # "other%"
  <2>1. t # "other%" /\ "other%" \in Marks
    BY DEF Marks, Placeholders
  <2>2. QED BY <1>2, <2>1
<1>5. \A j \in DOMAIN request.path : request.path[j] \notin {"s", "other"}
  BY <1>3, HasToken DEF IsMask
<1>6. Restore(RequestURI(request)) = mask
  BY <1>3, <1>4, <1>5, TextsOf, UriDecodes
<1>7. /\ mask \in Masks /\ Places(mask, Placeholders) = {<<q, i>>}
      /\ Text(mask, q)[i] = DecodeToken(t)
      /\ Meaning(request) = [path |-> mask.path, query |-> ToSet(mask.query)]
  BY <1>1, <1>2, DecodedSays
<1> HIDE DEF mask
<1>8. AnyHas(mask, Placeholders)
  <2>1. Places(mask, Placeholders) # {} /\ mask \in RequestsOf(Plain)
    BY <1>7 DEF Masks
  <2>2. QED BY <2>1, PlacesAreHad
<1>9. mask \notin {Failed, NoMask}
  BY <1>7, MasksAreResults
<1>10. ExtractMask(request) = mask
  <2>1. Parses(request)
    BY <1>3, <1>5, HasToken DEF Parses
  <2>2. QED BY <1>6, <1>8, <2>1 DEF ExtractMask, Normalize
<1>11. Render(mask) = Replaced(mask, DecodeToken(t))
  BY <1>7, RenderReplaces
<1>12. QED BY <1>7, <1>9, <1>10, <1>11, ReplacedMeans

\* A name that ends, or goes on with a dot, gives way to <db>.
LEMMA DerivedValue ==
  ASSUME NEW value \in Seq(Plain), value # <<>>, value[1] = "name",
         Len(value) = 1 \/ value[2] = "dot",
         \A i \in DOMAIN value : value[i] \notin Placeholders
  PROVE  /\ DeriveValue(value) = [value EXCEPT ![1] = "db"]
         /\ DeriveValue(value) \in Seq(Plain)
<1> DEFINE dots == {i \in 1..Len(value) : value[i] = "dot"}
           dot == IF dots # {} THEN Min(dots) ELSE 0
<1>1. ~Has(value, Placeholders)
  BY HasToken
<1>2. DeriveValue(value) = IF dot > 1 THEN <<"db">> \o SubSeq(value, dot, Len(value)) ELSE <<"db">>
  BY <1>1 DEF DeriveValue, SelectInSeq
<1>3. Len(value) \in Nat /\ Len(value) # 0 /\ "db" \in Plain
  BY DEF Plain
<1>4. CASE Len(value) = 1
  <2>1. dots = {}
    BY <1>4
  <2>2. DeriveValue(value) = <<"db">>
    BY <1>2, <2>1
  <2>3. QED BY <1>3, <1>4, <2>2
<1>5. CASE Len(value) # 1
  <2>0. \A n \in Nat : n # 0 /\ n # 1 => 2 \in 1..n
    OBVIOUS
  <2>1. value[2] = "dot" /\ 2 \in 1..Len(value)
    BY <1>3, <1>5, <2>0
  <2>2. dots # {} /\ dots \in SUBSET Nat /\ 0 \notin dots /\ 1 \notin dots /\ 2 \in dots
    BY <2>1
  <2>3. Min(dots) \in dots /\ Min(dots) <= 2
    BY <2>2, FirstOf
  <2>4. dot = 2
    BY <2>2, <2>3
  <2> HIDE DEF dot
  <2>5. DeriveValue(value) = <<"db">> \o SubSeq(value, 2, Len(value))
    BY <1>2, <2>4
  <2>6. <<"db">> \o SubSeq(value, 2, Len(value)) = [value EXCEPT ![1] = "db"]
    BY <1>3, <2>1
  <2>7. [value EXCEPT ![1] = "db"] \in Seq(Plain)
    BY <1>3
  <2>8. QED BY <2>5, <2>6, <2>7
<1>6. QED BY <1>4, <1>5

\* A path and parameters in any order.
Asks(path, parameters) == [path |-> path, query |-> parameters]

\* The parameters but one.
Others(query, s) == {query[i] : i \in DOMAIN query \ {s}}

\* A parameter between what is kept of a query before and after it.
LEMMA SortedQuery ==
  ASSUME NEW T, NEW query \in Seq(Parameters(T)), NEW s \in DOMAIN query,
         \A i \in DOMAIN query : query[i][1] = "service" <=> i = s,
         NEW new \in Parameters(T)
  PROVE  LET sorted == WithService(query, new) IN
         /\ sorted \in Seq(Parameters(T))
         /\ ToSet(sorted) = Others(query, s) \cup {new}
         /\ \E f \in DOMAIN sorted :
              sorted[f] = new /\ \A i \in DOMAIN sorted \ {f} : sorted[i] \in Others(query, s)
<1> DEFINE Of(key) == At(query, {i \in DOMAIN query : query[i][1] = key})
           others == Others(query, s)
<1>1. \A i \in DOMAIN query : query[i] \in Parameters(T) /\ query[i][1] \in {"a", "service", "z"}
  BY DEF Parameters
<1>2. \A key \in {"a", "z"} : /\ Of(key) \in Seq(Parameters(T))
                              /\ ToSet(Of(key)) = {query[i] : i \in {j \in DOMAIN query : query[j][1] = key}}
  <2> SUFFICES ASSUME NEW key \in {"a", "z"}
               PROVE  /\ Of(key) \in Seq(Parameters(T))
                      /\ ToSet(Of(key)) = {query[i] : i \in {j \in DOMAIN query : query[j][1] = key}}
    OBVIOUS
  <2> DEFINE places == {j \in DOMAIN query : query[j][1] = key}
  <2>1. places \in SUBSET DOMAIN query
    OBVIOUS
  <2>2. /\ Of(key) \in Seq({query[j] : j \in places})
        /\ ToSet(Of(key)) = {query[j] : j \in places}
    <3>1. PICK ps \in SUBSET DOMAIN query : ps = places
      BY <2>1
    <3>2. Of(key) = At(query, ps)
      BY <3>1
    <3> HIDE DEF Of, places
    <3>3. /\ At(query, ps) \in Seq({query[j] : j \in ps})
          /\ ToSet(At(query, ps)) = {query[j] : j \in ps}
      BY Kept
    <3>4. QED BY <3>1, <3>2, <3>3
  <2>3. {query[j] : j \in places} \subseteq Parameters(T)
    BY <1>1
  <2> HIDE DEF Of, places
  <2>4. Of(key) \in Seq(Parameters(T))
    BY <2>2, <2>3
  <2>5. QED BY <2>2, <2>4 DEF places
<1>3. PICK before \in Seq(Parameters(T)) : before = Of("a")
  BY <1>2
<1>4. PICK after \in Seq(Parameters(T)) : after = Of("z")
  BY <1>2
<1>5. ToSet(before) \cup ToSet(after) = others
  BY <1>1, <1>2, <1>3, <1>4 DEF Others
<1> DEFINE sorted == before \o <<new>> \o after
<1>6. /\ sorted \in Seq(Parameters(T)) /\ Len(before) \in Nat /\ Len(after) \in Nat
      /\ Len(sorted) = Len(before) + 1 + Len(after)
      /\ sorted[Len(before) + 1] = new
      /\ \A i \in 1..Len(before) : sorted[i] = before[i]
      /\ \A i \in 1..Len(after) : sorted[Len(before) + 1 + i] = after[i]
  OBVIOUS
<1> HIDE DEF sorted
<1>7. \A i \in DOMAIN sorted \ {Len(before) + 1} : sorted[i] \in ToSet(before) \cup ToSet(after)
  <2> SUFFICES ASSUME NEW i \in 1..Len(sorted), i # Len(before) + 1
               PROVE  sorted[i] \in ToSet(before) \cup ToSet(after)
    BY <1>6
  <2>1. CASE i <= Len(before)
    BY <1>6, <2>1 DEF ToSet
  <2>2. CASE i > Len(before)
    <3>1. PICK j \in 1..Len(after) : i = Len(before) + 1 + j
      <4>1. /\ i - (Len(before) + 1) \in 1..Len(after)
            /\ i = Len(before) + 1 + (i - (Len(before) + 1))
        BY <1>6, <2>2
      <4>2. QED BY <1>6, <4>1
    <3>2. QED BY <1>6, <3>1 DEF ToSet
  <2>3. QED BY <1>6, <2>1, <2>2
<1>8. ToSet(sorted) = others \cup {new}
  <2>1. \A x \in ToSet(before) \cup ToSet(after) \cup {new} : x \in ToSet(sorted)
    <3>1. \A i \in 1..Len(before) : i \in DOMAIN sorted
      BY <1>6
    <3>2. \A i \in 1..Len(after) : Len(before) + 1 + i \in DOMAIN sorted
      BY <1>6
    <3>3. Len(before) + 1 \in DOMAIN sorted
      BY <1>6
    <3>4. \A i \in DOMAIN sorted : sorted[i] \in ToSet(sorted)
      BY DEF ToSet
    <3>5. \A x \in ToSet(before) : \E i \in 1..Len(before) : x = before[i]
      BY DEF ToSet
    <3>6. \A x \in ToSet(after) : \E i \in 1..Len(after) : x = after[i]
      BY DEF ToSet
    <3>7. \A x \in ToSet(before) : x \in ToSet(sorted)
      BY <1>6, <3>1, <3>4, <3>5
    <3>8. \A x \in ToSet(after) : x \in ToSet(sorted)
      BY <1>6, <3>2, <3>4, <3>6
    <3>9. QED BY <1>6, <3>3, <3>4, <3>7, <3>8
  <2>2. \A x \in ToSet(sorted) : x \in ToSet(before) \cup ToSet(after) \cup {new}
    BY <1>6, <1>7 DEF ToSet
  <2>3. QED BY <1>5, <2>1, <2>2
<1>9. Len(before) + 1 \in DOMAIN sorted
  BY <1>6
<1>10. \A i \in DOMAIN sorted \ {Len(before) + 1} : sorted[i] \in others
  BY <1>5, <1>7
<1>11. sorted = WithService(query, new)
  BY <1>3, <1>4 DEF sorted, WithService
<1>12. /\ sorted \in Seq(Parameters(T))
       /\ ToSet(sorted) = others \cup {new}
       /\ \E f \in DOMAIN sorted :
            /\ sorted[f] = new
            /\ \A i \in DOMAIN sorted \ {f} : sorted[i] \in others
  BY <1>6, <1>8, <1>9, <1>10
<1>13. QED BY <1>11, <1>12

\* What is decoded of a sample: one parameter "service" that begins with the name,
\* and neither that name nor a placeholder anywhere else.
LEMMA SampleDecoded ==
  ASSUME NEW request \in URLs, IsSample(request)
  PROVE  LET sample == Decoded(request) IN
         /\ Restore(RequestURI(request)) = sample
         /\ Parses(request)
         /\ \A i \in DOMAIN request.path : request.path[i] \notin Marks
         /\ Places(sample, Placeholders) = {}
         /\ \E s \in DOMAIN sample.query :
              LET value == sample.query[s][2] IN
              /\ \A q \in DOMAIN sample.query : sample.query[q][1] = "service" <=> q = s
              /\ value # <<>> /\ value[1] = "name" /\ (Len(value) = 1 \/ value[2] = "dot")
              /\ \A q \in {0} \cup DOMAIN sample.query : \A i \in DOMAIN Text(sample, q) :
                   /\ Text(sample, q)[i] \notin Placeholders
                   /\ Text(sample, q)[i] = "name" <=> q = s /\ i = 1
<1> DEFINE sample == Decoded(request)
<1>1. request.path \in Seq(Tokens) /\ request.query \in Seq(Parameters(Tokens))
  BY DEF URLs, RequestsOf
<1>2. \A q \in {0} \cup DOMAIN request.query : \A i \in DOMAIN Text(request, q) :
        Text(request, q)[i] \notin Marks
  <2>1. \A q, i : <<q, i>> \notin Places(request, Marks)
    BY DEF IsSample
  <2>2. \A q, i : <<q, i>> \in Places(request, Marks) <=>
          /\ q \in {0} \cup DOMAIN request.query
          /\ i \in DOMAIN Text(request, q) /\ Text(request, q)[i] \in Marks
    BY WhereTokensAre
  <2>3. QED BY <2>1, <2>2
<1>3. PICK s \in DOMAIN request.query :
        /\ \A q \in DOMAIN request.query : request.query[q][1] = "service" <=> q = s
        /\ request.query[s][2] # <<>>
        /\ Len(request.query[s][2]) = 1 \/ request.query[s][2][2] = "dot"
        /\ Places(request, {"name"}) = {<<s, 1>>}
  BY DEF IsSample
<1>4. \A q \in {0} \cup DOMAIN request.query : \A i \in DOMAIN Text(request, q) :
        Text(request, q)[i] = "name" <=> q = s /\ i = 1
  <2>1. \A q, i : <<q, i>> \in Places(request, {"name"}) <=> q = s /\ i = 1
    BY <1>3
  <2>2. \A q, i : <<q, i>> \in Places(request, {"name"}) <=>
          /\ q \in {0} \cup DOMAIN request.query
          /\ i \in DOMAIN Text(request, q) /\ Text(request, q)[i] \in {"name"}
    BY WhereTokensAre
  <2>3. QED BY <2>1, <2>2
<1>5. \A i \in DOMAIN request.path : request.path[i] \notin Marks
  BY <1>1, <1>2, TextsOf
<1>6. {"s", "other", "other%"} \subseteq Marks /\ "name" \notin Marks
  BY DEF Marks, Placeholders
<1>7. Restore(RequestURI(request)) = sample /\ Parses(request)
  <2>1. \A q \in DOMAIN request.query : \A i \in DOMAIN request.query[q][2] :
          request.query[q][2][i] # "other%"
    BY <1>1, <1>2, <1>6, TextsOf
  <2>2. Parses(request)
    BY <1>1, <1>5, <1>6, HasToken DEF Parses
  <2>3. QED BY <1>5, <1>6, <2>1, <2>2, UriDecodes
<1>8. /\ DOMAIN sample.query = DOMAIN request.query
      /\ Places(sample, Placeholders) = {}
      /\ \A q \in {0} \cup DOMAIN request.query :
           /\ DOMAIN Text(sample, q) = DOMAIN Text(request, q)
           /\ \A i \in DOMAIN Text(request, q) :
                /\ Text(request, q)[i] \in Tokens
                /\ Text(sample, q)[i] = DecodeToken(Text(request, q)[i])
  BY DecodedSays DEF IsSample
<1>9. \A q \in {0} \cup DOMAIN request.query : \A i \in DOMAIN Text(request, q) :
        /\ Text(sample, q)[i] \notin Placeholders
        /\ Text(sample, q)[i] = "name" <=> q = s /\ i = 1
  BY <1>2, <1>4, <1>8, TokenFacts
<1>10. \A q \in DOMAIN request.query :
         /\ sample.query[q][1] = request.query[q][1]
         /\ sample.query[q][2] = Each(DecodeToken, request.query[q][2])
  BY DEF Decoded, EachValue
<1> HIDE DEF sample
<1>11. PICK value \in Seq(Tokens) : value = request.query[s][2]
  BY <1>1, TextsOf
<1>12. LET new == sample.query[s][2] IN
       new # <<>> /\ new[1] = "name" /\ (Len(new) = 1 \/ new[2] = "dot")
  <2> DEFINE new == Each(DecodeToken, value)
  <2>1. new \in Seq(Plain) /\ Len(new) = Len(value) /\ DOMAIN new = 1..Len(value)
    BY TokenFacts DEF Each
  <2>2. <<s, 1>> \in Places(request, {"name"})
    BY <1>3
  <2>3. 1 \in 1..Len(value) /\ value[1] = "name"
    BY <1>1, <1>11, <2>2, WhereTokensAre, TextsOf
  <2>4. DecodeToken("name") = "name" /\ DecodeToken("dot") = "dot"
    BY DEF DecodeToken
  <2>5. new[1] = "name"
    BY <2>3, <2>4 DEF Each
  <2>6. Len(value) # 1 => new[2] = "dot"
    BY <1>3, <1>11, <2>3, <2>4 DEF Each
  <2> HIDE DEF new
  <2>7. new # <<>>
    BY <2>1, <2>3
  <2>8. sample.query[s][2] = new
    BY <1>10, <1>11 DEF new
  <2>9. QED BY <2>1, <2>5, <2>6, <2>7, <2>8
<1>13. \A q \in DOMAIN sample.query : sample.query[q][1] = "service" <=> q = s
  BY <1>3, <1>8, <1>10
<1>14. \A q \in {0} \cup DOMAIN sample.query : \A i \in DOMAIN Text(sample, q) :
         /\ Text(sample, q)[i] \notin Placeholders
         /\ Text(sample, q)[i] = "name" <=> q = s /\ i = 1
  <2>1. ASSUME NEW q \in {0} \cup DOMAIN sample.query, NEW i \in DOMAIN Text(sample, q)
        PROVE  q \in {0} \cup DOMAIN request.query /\ i \in DOMAIN Text(request, q)
    BY <1>8
  <2>2. QED BY <1>9, <2>1
<1>15. s \in DOMAIN sample.query
  BY <1>8
<1>16. QED BY <1>5, <1>7, <1>8, <1>12, <1>13, <1>14, <1>15 DEF sample

\* Parameters that are encoded are written again as they are meant.
LEMMA EncodedAndRestored ==
  ASSUME NEW request \in URLs, \A i \in DOMAIN request.path : request.path[i] \notin Marks,
         NEW query \in Seq(Parameters(Plain)),
         \A q \in DOMAIN query : \A i \in DOMAIN query[q][2] : query[q][2][i] # "other"
  PROVE  Restore(RequestURI([request EXCEPT !.query = EachValue(EncodeToken, query)]))
           = [path |-> Decoded(request).path, query |-> query]
<1> DEFINE encoded == EachValue(EncodeToken, query)
           new == [request EXCEPT !.query = encoded]
<1>1. /\ DOMAIN query = 1..Len(query) /\ Len(query) \in Nat
      /\ \A q \in DOMAIN query :
           /\ query[q][1] \in {"a", "service", "z"} /\ query[q][2] \in Seq(Plain)
           /\ query[q] = <<query[q][1], query[q][2]>>
  BY DEF Parameters
<1>2. /\ encoded = [q \in 1..Len(query) |-> encoded[q]]
      /\ \A q \in DOMAIN query : encoded[q] = <<query[q][1], Each(EncodeToken, query[q][2])>>
  BY <1>1 DEF EachValue
<1>3. \A ts \in Seq(Plain) :
        /\ Each(EncodeToken, ts) \in Seq(Tokens)
        /\ Each(DecodeToken, Each(EncodeToken, ts)) = ts
        /\ (\A i \in DOMAIN ts : ts[i] # "other") =>
             \A i \in DOMAIN Each(EncodeToken, ts) : Each(EncodeToken, ts)[i] # "other%"
  BY TokenFacts DEF Each
<1> HIDE DEF encoded
<1>4. encoded \in Seq(Parameters(Tokens))
  <2>1. \A q \in 1..Len(query) : encoded[q] \in Parameters(Tokens)
    <3>1. \A q \in 1..Len(query) : Each(EncodeToken, query[q][2]) \in Seq(Tokens)
      BY <1>1, <1>3
    <3>2. QED BY <1>1, <1>2, <3>1 DEF Parameters
  <2>2. QED BY <1>1, <1>2, <2>1, SequenceOf
<1>5. /\ request = [path |-> request.path, query |-> request.query]
      /\ request.path \in Seq(Tokens)
  BY DEF URLs, RequestsOf
<1>6. new = [path |-> request.path, query |-> encoded]
  BY <1>5
<1> HIDE DEF new
<1>7. new \in URLs
  BY <1>4, <1>5, <1>6 DEF URLs, RequestsOf
<1>8. \A i \in DOMAIN new.path : new.path[i] \notin {"other", "other%"}
  BY <1>6 DEF Marks, Placeholders
<1>9. \A q \in DOMAIN new.query : \A i \in DOMAIN new.query[q][2] : new.query[q][2][i] # "other%"
  BY <1>1, <1>2, <1>3, <1>6
<1>10. Restore(RequestURI(new)) = Decoded(new)
  BY <1>7, <1>8, <1>9, UriDecodes
<1>11. EachValue(DecodeToken, encoded) = query
  <2>1. \A q \in DOMAIN query : <<encoded[q][1], Each(DecodeToken, encoded[q][2])>> = query[q]
    BY <1>1, <1>2, <1>3
  <2>2. EachValue(DecodeToken, encoded)
          = [q \in DOMAIN query |-> <<encoded[q][1], Each(DecodeToken, encoded[q][2])>>]
    BY <1>1, <1>2 DEF EachValue
  <2>3. query = [q \in DOMAIN query |-> query[q]]
    OBVIOUS
  <2>4. QED BY <2>1, <2>2, <2>3
<1>12. QED BY <1>6, <1>10, <1>11 DEF Decoded, new, encoded

\* What a sample asks is what the mask asks with the service for the placeholder.
LEMMA SampleMeans ==
  ASSUME NEW path \in Seq(Plain), NEW query \in Seq(Parameters(Plain)), NEW s \in DOMAIN query,
         NEW derived \in Seq(Plain), query[s][1] = "service",
         DOMAIN derived = DOMAIN query[s][2], derived[1] = "db",
         \A i \in DOMAIN derived \ {1} : derived[i] = query[s][2][i],
         \A i \in DOMAIN path : path[i] \notin {"name", "db"},
         \A q \in DOMAIN query : \A i \in DOMAIN query[q][2] :
           /\ query[q][2][i] # "db"
           /\ query[q][2][i] = "name" <=> q = s /\ i = 1
  PROVE  Filled(Asks(path, Others(query, s) \cup {<<"service", derived>>}), "db")
           = Filled(Asks(path, ToSet(query)), "name")
<1> DEFINE Db(x) == IF x = "db" THEN "service" ELSE x
           Name(x) == IF x = "name" THEN "service" ELSE x
           db(p) == <<p[1], Each(Db, p[2])>>
           name(p) == <<p[1], Each(Name, p[2])>>
           kept == Others(query, s)
           value == query[s][2]
<1>1. \A q \in DOMAIN query : /\ query[q][2] \in Seq(Plain)
                              /\ query[q] = <<query[q][1], query[q][2]>>
  BY DEF Parameters
<1>2. Each(Db, path) = Each(Name, path)
  BY DEF Each
<1>3. \A q \in DOMAIN query \ {s} : Each(Db, query[q][2]) = Each(Name, query[q][2])
  BY DEF Each
<1>4. Each(Db, derived) = Each(Name, value)
  <2>1. value \in Seq(Plain) /\ DOMAIN derived = DOMAIN value
    BY <1>1
  <2>2. \A i \in DOMAIN value : Db(derived[i]) = Name(value[i])
    BY <2>1
  <2> HIDE DEF Db, Name
  <2>3. QED BY <2>1, <2>2 DEF Each
<1>5. \A q \in DOMAIN query \ {s} : db(query[q]) = name(query[q])
  BY <1>3
<1>6. db(<<"service", derived>>) = name(query[s])
  BY <1>1, <1>4
<1> HIDE DEF db, name
<1>7. {db(p) : p \in kept \cup {<<"service", derived>>}} = {name(p) : p \in ToSet(query)}
  <2> DEFINE new == <<"service", derived>>
  <2>1. ToSet(query) = kept \cup {query[s]}
    BY DEF ToSet, Others
  <2>2. \A p \in kept : db(p) = name(p)
    BY <1>5 DEF Others
  <2>3. db(new) = name(query[s])
    BY <1>6
  <2> HIDE DEF new, kept
  <2>4. {db(p) : p \in kept \cup {new}} = {name(p) : p \in kept \cup {query[s]}}
    BY <2>2, <2>3
  <2>5. QED BY <2>1, <2>4 DEF new
<1>8. QED BY <1>2, <1>7 DEF Filled, Asks, db, name

\* The mask derived from a sample is rendered for the service.
LEMMA SampleIsRendered ==
  ASSUME NEW request \in URLs, IsSample(request)
  PROVE  LET mask == ExtractMask(request) IN
         /\ mask \notin {Failed, NoMask}
         /\ Render(mask) \notin {Failed, NoMask}
         /\ Meaning(Render(mask)) = Filled(Meaning(request), "name")
<1>1. PICK sample \in Masks : sample = Decoded(request)
  BY DecodedSays
<1>2. /\ Restore(RequestURI(request)) = sample
      /\ Parses(request)
      /\ \A i \in DOMAIN request.path : request.path[i] \notin Marks
      /\ Places(sample, Placeholders) = {}
  BY <1>1, SampleDecoded
<1>3. PICK s \in DOMAIN sample.query :
        LET value == sample.query[s][2] IN
        /\ \A q \in DOMAIN sample.query : sample.query[q][1] = "service" <=> q = s
        /\ value # <<>> /\ value[1] = "name" /\ (Len(value) = 1 \/ value[2] = "dot")
        /\ \A q \in {0} \cup DOMAIN sample.query : \A i \in DOMAIN Text(sample, q) :
             /\ Text(sample, q)[i] \notin Placeholders
             /\ Text(sample, q)[i] = "name" <=> q = s /\ i = 1
  BY <1>1, SampleDecoded
<1>4. /\ sample.path \in Seq(Plain) /\ sample.query \in Seq(Parameters(Plain))
      /\ DOMAIN sample.query = 1..Len(sample.query) /\ Len(sample.query) \in Nat
      /\ Text(sample, 0) = sample.path
      /\ \A q \in DOMAIN sample.query :
           /\ q # 0 /\ Text(sample, q) = sample.query[q][2] /\ sample.query[q][2] \in Seq(Plain)
  BY DEF Masks, RequestsOf, Parameters, Text
<1>5. PICK value \in Seq(Plain) : value = sample.query[s][2]
  BY <1>4
<1> DEFINE derived == DeriveValue(value)
           new == <<"service", derived>>
           sorted == WithService(sample.query, new)
           mask == [path |-> sample.path, query |-> sorted]
<1>6. \A i \in DOMAIN value : value[i] \notin Placeholders
  BY <1>3, <1>4, <1>5
<1>7. derived = [value EXCEPT ![1] = "db"] /\ derived \in Seq(Plain)
  BY <1>3, <1>5, <1>6, DerivedValue
<1>8. new \in Parameters(Plain)
  BY <1>7 DEF Parameters
<1> HIDE DEF derived
<1>9. /\ sorted \in Seq(Parameters(Plain))
      /\ ToSet(sorted) = Others(sample.query, s) \cup {new}
      /\ \E f \in DOMAIN sorted :
           sorted[f] = new /\ \A i \in DOMAIN sorted \ {f} : sorted[i] \in Others(sample.query, s)
  <2>1. PICK query \in Seq(Parameters(Plain)) : query = sample.query
    BY <1>4
  <2>2. PICK p \in Parameters(Plain) : p = new
    BY <1>8
  <2>3. s \in DOMAIN query /\ \A i \in DOMAIN query : query[i][1] = "service" <=> i = s
    BY <1>3, <2>1
  <2> HIDE DEF new
  <2>4. LET result == WithService(query, p) IN
        /\ result \in Seq(Parameters(Plain))
        /\ ToSet(result) = Others(query, s) \cup {p}
        /\ \E f \in DOMAIN result :
             result[f] = p /\ \A i \in DOMAIN result \ {f} : result[i] \in Others(query, s)
    BY <2>3, SortedQuery
  <2>5. QED BY <2>1, <2>2, <2>4
<1> HIDE DEF sorted
<1>10. /\ sorted \in Seq(Parameters(Plain))
      /\ ToSet(sorted) = Others(sample.query, s) \cup {new}
  BY <1>9
<1>11. PICK f \in DOMAIN sorted :
         /\ sorted[f] = new
         /\ \A i \in DOMAIN sorted \ {f} :
              \E j \in DOMAIN sample.query \ {s} : sorted[i] = sample.query[j]
  BY <1>9 DEF Others
<1>12. mask \in Masks
  BY <1>4, <1>10 DEF Masks, RequestsOf
<1>13. \A j \in DOMAIN sample.query : \A i \in DOMAIN sample.query[j][2] :
         /\ sample.query[j][2][i] \notin Placeholders
         /\ sample.query[j][2][i] = "name" <=> j = s /\ i = 1
  BY <1>3, <1>4
<1>14. /\ 1 \in DOMAIN derived /\ derived[1] = "db"
       /\ \A i \in DOMAIN derived \ {1} : derived[i] \notin Placeholders
  <2>1. 1 \in DOMAIN value
    BY <1>3, <1>5
  <2>2. QED BY <1>6, <1>7, <2>1
<1>15. "db" \in Placeholders /\ "other" \in Placeholders
  BY DEF Placeholders
<1>16. ExtractMask(request) = mask
  <2> DEFINE found == {q \in 1..Len(sample.query) : sample.query[q][1] = "service"}
  <2>1. found = {s} /\ s # 0
    BY <1>3, <1>4
  <2>2. Min({s}) = s
    BY <1>4 DEF Min
  <2>3. SelectInSeq(sample.query, LAMBDA p : p[1] = "service") = s
    BY <2>1, <2>2 DEF SelectInSeq
  <2>4. EachValue(DecodeToken, request.query) = sample.query
    BY <1>1 DEF Decoded
  <2>5. ~AnyHas(sample, Placeholders)
    BY <1>2, PlacesAreHad DEF Masks
  <2>6. Restore(RequestURI([request EXCEPT !.query = EachValue(EncodeToken, sorted)])) = mask
    <3>1. \A q \in DOMAIN sorted : \A i \in DOMAIN sorted[q][2] : sorted[q][2][i] # "other"
      <4>1. \A i \in DOMAIN derived : derived[i] # "other"
        BY <1>14, <1>15
      <4>2. \A j \in DOMAIN sample.query : \A i \in DOMAIN sample.query[j][2] :
              sample.query[j][2][i] # "other"
        BY <1>13, <1>15
      <4>3. QED BY <1>11, <4>1, <4>2
    <3>2. QED BY <1>1, <1>2, <1>10, <3>1, EncodedAndRestored
  <2>7. AnyHas(mask, Placeholders)
    <3>1. <<f, 1>> \in Places(mask, Placeholders)
      <4>1. f # 0 /\ Text(mask, f) = derived
        BY <1>10, <1>11 DEF Text
      <4>2. QED BY <1>11, <1>14, <1>15, <4>1, WhereTokensAre
    <3>2. mask \in RequestsOf(Plain)
      BY <1>12 DEF Masks
    <3>3. QED BY <3>1, <3>2, PlacesAreHad
  <2> HIDE DEF mask
  <2>8. ExtractMask(request) = Normalize(Restore(RequestURI(
          [request EXCEPT !.query = EachValue(EncodeToken, sorted)])))
    BY <1>2, <1>3, <1>5, <2>1, <2>3, <2>4, <2>5 DEF ExtractMask, sorted, derived
  <2>9. QED BY <2>6, <2>7, <2>8 DEF Normalize, mask
<1>17. Places(mask, Placeholders) = {<<f, 1>>} /\ Text(mask, f)[1] = "db"
  <2>1. f # 0 /\ Text(mask, f) = derived /\ Text(mask, 0) = sample.path
    BY <1>10, <1>11 DEF Text
  <2>2. \A r \in DOMAIN sorted \ {f} : \A i \in DOMAIN Text(mask, r) :
          Text(mask, r)[i] \notin Placeholders
    <3>1. \A r \in DOMAIN sorted : Text(mask, r) = sorted[r][2]
      BY <1>10 DEF Text
    <3>2. QED BY <1>11, <1>13, <3>1
  <2>3. \A i \in DOMAIN sample.path : sample.path[i] \notin Placeholders
    BY <1>3, <1>4
  <2>4. \A r, i : <<r, i>> \in Places(mask, Placeholders) <=>
          /\ r \in {0} \cup DOMAIN mask.query
          /\ i \in DOMAIN Text(mask, r) /\ Text(mask, r)[i] \in Placeholders
    BY WhereTokensAre
  <2>5. \A r, i : <<r, i>> \in Places(mask, Placeholders) <=> r = f /\ i = 1
    <3>1. ASSUME NEW r \in {0} \cup DOMAIN sorted, NEW i \in DOMAIN Text(mask, r)
          PROVE  Text(mask, r)[i] \in Placeholders <=> r = f /\ i = 1
      BY <1>11, <1>14, <1>15, <2>1, <2>2, <2>3
    <3>2. mask.query = sorted /\ f \in DOMAIN sorted /\ 1 \in DOMAIN Text(mask, f)
      BY <1>11, <1>14, <2>1
    <3> HIDE DEF mask
    <3>3. QED BY <2>4, <3>1, <3>2
  <2>6. \A p \in Places(mask, Placeholders) : p = <<p[1], p[2]>>
    BY WhereTokensAre
  <2>7. Places(mask, Placeholders) = {<<f, 1>>}
    BY <2>5, <2>6
  <2>8. QED BY <1>14, <2>1, <2>7
<1>18. Render(mask) = Replaced(mask, "db")
  BY <1>12, <1>17, RenderReplaces
<1>19. Filled([path |-> sample.path, query |-> ToSet(sorted)], "db") = Filled(Meaning(request), "name")
  <2>1. \A i \in DOMAIN sample.path : sample.path[i] \notin {"name", "db"}
    BY <1>3, <1>4, <1>15
  <2>2. Meaning(request) = [path |-> sample.path, query |-> ToSet(sample.query)]
    BY <1>1, DecodedSays
  <2>3. PICK query \in Seq(Parameters(Plain)) : query = sample.query
    BY <1>4
  <2>4. PICK path \in Seq(Plain) : path = sample.path
    BY <1>4
  <2>5. PICK ts \in Seq(Plain) : ts = derived
    BY <1>7
  <2>6. s \in DOMAIN query /\ query[s][1] = "service"
    BY <1>3, <2>3
  <2>7. DOMAIN ts = DOMAIN query[s][2] /\ ts[1] = "db"
    BY <1>5, <1>7, <1>14, <2>3, <2>5
  <2>8. \A i \in DOMAIN ts \ {1} : ts[i] = query[s][2][i]
    BY <1>5, <1>7, <2>3, <2>5
  <2>9. \A q \in DOMAIN query : \A i \in DOMAIN query[q][2] :
          /\ query[q][2][i] # "db"
          /\ query[q][2][i] = "name" <=> q = s /\ i = 1
    BY <1>13, <1>15, <2>3
  <2>10. \A i \in DOMAIN path : path[i] \notin {"name", "db"}
    BY <2>1, <2>4
  <2>11. Filled(Asks(path, Others(query, s) \cup {<<"service", ts>>}), "db")
          = Filled(Asks(path, ToSet(query)), "name")
    BY <2>6, <2>7, <2>8, <2>9, <2>10, SampleMeans
  <2>12. QED BY <1>10, <2>2, <2>3, <2>4, <2>5, <2>11 DEF Asks
<1>20. mask.path = sample.path /\ mask.query = sorted
  OBVIOUS
<1> HIDE DEF mask
<1>21. Meaning(Render(mask)) = Filled(Meaning(request), "name") /\ Render(mask) \notin {Failed, NoMask}
  BY <1>12, <1>18, <1>19, <1>20, ReplacedMeans
<1>22. QED BY <1>12, <1>16, <1>21, MasksAreResults

\* Whatever the URL, the mask derived from it, rendered for a service, asks what the
\* URL asked with the service in the place of the sample's name or of the placeholder.
THEOREM MaskAsksTheSame == Spec => []MaskAsksForService
<1>1. ASSUME MaskCall
      PROVE  MaskAsksForService'
  <2>1. PICK request \in Requests :
          call' = [of |-> "mask", request |-> request,
                   asked |-> IF ExtractMask(request) \in {Failed, NoMask} THEN ExtractMask(request)
                             ELSE Render(ExtractMask(request))]
    BY <1>1 DEF MaskCall
  <2>2. request \in URLs
    BY RequestsAssumption
  <2>3. /\ call'.request = request
        /\ call'.asked = IF ExtractMask(request) \in {Failed, NoMask} THEN ExtractMask(request)
                         ELSE Render(ExtractMask(request))
    BY <2>1
  <2>4. QED BY <2>2, <2>3, SampleIsRendered, MaskIsRendered DEF MaskAsksForService
<1>2. MaskAsksForService /\ [Next]_call => MaskAsksForService'
  <2>1. ASSUME MaskAsksForService, [Next]_call, Called("mask")'
        PROVE  MaskAsksForService'
    BY <1>1, <2>1, OtherCalls DEF MaskAsksForService, Called
  <2>2. ~Called("mask")' => MaskAsksForService'
    BY DEF MaskAsksForService
  <2>3. QED BY <2>1, <2>2
<1>3. Init => MaskAsksForService
  BY DEF Init, MaskAsksForService, Called
<1>4. QED BY <1>2, <1>3, PTL DEF Spec
=============================================================================
