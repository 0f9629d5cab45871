-------------------------------- MODULE Gateway --------------------------------
(***************************************************************************)
(* The SOCKS gateway inferred from the address of eth0                     *)
(* (src/internal/commands/init-ubuntu/gateway.go), when neither a route    *)
(* nor config.yaml names one.  IPv4 addresses are four octets.             *)
(*                                                                         *)
(* What is abstracted: the prefix length is the size of the network, and   *)
(* of /etc/resolv.conf the first name server that is an IPv4 address.      *)
(***************************************************************************)
EXTENDS Integers

CONSTANTS Base,        \* the values of an octet, 256
          Overflow,    \* there is no next address
          NoServer     \* resolv.conf names no server

ASSUME BaseAssumption == Base \in Nat \ {0, 1}

IPv4 == [1..4 -> 0..(Base - 1)]

ASSUME OverflowAssumption == Overflow \notin IPv4 /\ NoServer \notin IPv4

Value(a) == ((a[1] * Base + a[2]) * Base + a[3]) * Base + a[4]

\* The address of a value, and of the network of an address among networks of a
\* size (the mask of net.ParseCIDR).
Address(n) == CHOOSE a \in IPv4 : Value(a) = n
Network(a, size) == Address(Value(a) - (Value(a) % size))

InNetwork(net, size, a) == Value(net) <= Value(a) /\ Value(a) < Value(net) + size

\* Mutant of Increment: only the last octet is increased.
IncrementLast(a) ==
  IF \A i \in 1..4 : a[i] = Base - 1 THEN Overflow
  ELSE [a EXCEPT ![4] = (@ + 1) % Base]

\* The last octet that does not wrap is increased, those after it become zero.
Increment(a) ==
  IF \A i \in 1..4 : a[i] = Base - 1
  THEN Overflow
  ELSE LET last == CHOOSE i \in 1..4 :
                     a[i] # Base - 1 /\ \A j \in 1..4 : j > i => a[j] = Base - 1
       IN [j \in 1..4 |-> IF j < last THEN a[j] ELSE IF j = last THEN a[j] + 1 ELSE 0]

\* Mutant of FirstHost: the machine's own address will do.
FirstHostOwn(net, host) == Increment(net)

\* The first address of the network that is not the machine's.
FirstHost(net, host) ==
  IF Increment(net) # Overflow /\ Increment(net) = host
  THEN Increment(host)
  ELSE Increment(net)

\* A name server of the same network is taken for the gateway (in WSL it is the
\* Windows host), else the first host.
InferGateway(host, size, server) ==
  IF server # NoServer /\ InNetwork(Network(host, size), size, server) /\ server # host
  THEN server
  ELSE FirstHost(Network(host, size), host)
=============================================================================
