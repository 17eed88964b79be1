----------------------------- MODULE Addresses -----------------------------
(***************************************************************************)
(* address.ts and the conversions of util.ts: in JS a host is a dotted     *)
(* quad, four octets; in ENet it is a number whose octets, in memory, are  *)
(* in the order of the network.  A port is the same number in both.        *)
(***************************************************************************)
EXTENDS Integers

CONSTANTS
    Base,       \* the values of an octet: 256
    Port,       \* ports, with ENET_PORT_ANY
    Null        \* null in JS and in C

IPV4_OCTETS == 4

Octet == 0..(Base - 1)

IP == [1..IPV4_OCTETS -> Octet]                \* dotted quads

Address == [host : IP, port : Port]             \* IENetAddress

NativeAddress == [host : Nat, port : Port]      \* ENetAddress

ASSUME AddressesAssumption ==
    /\ Base \in Nat \ {0, 1}
    /\ 0 \in Port
    /\ Null \notin Address \cup NativeAddress

\* The octets as one little-endian number.
ipToLong(ip) == ip[1] + Base * (ip[2] + Base * (ip[3] + Base * ip[4]))

\* Mutant of ipFromLong: each octet keeps what is above it.
ipFromLongUnmasked(ipLong) ==
    LET second == ipLong \div Base
        third == second \div Base
        fourth == third \div Base
    IN  [i \in 1..IPV4_OCTETS |->
            CASE i = 1 -> ipLong [] i = 2 -> second [] i = 3 -> third [] i = 4 -> fourth]

\* The octets of a little-endian number.
ipFromLong(ipLong) ==
    LET second == ipLong \div Base
        third == second \div Base
        fourth == third \div Base
    IN  [i \in 1..IPV4_OCTETS |->
            CASE i = 1 -> ipLong % Base [] i = 2 -> second % Base
              [] i = 3 -> third % Base [] i = 4 -> fourth % Base]

toNativeAddress(address) == [host |-> ipToLong(address.host), port |-> address.port]

fromNativeAddress(native) == [host |-> ipFromLong(native.host), port |-> native.port]

\* What C fills in; a function that fails leaves it like this.
emptyNativeAddress == [host |-> 0, port |-> 0]

\* The out-parameter of a C function, or null when it failed.
outValue(status, value) == IF status < 0 THEN Null ELSE value
=============================================================================
