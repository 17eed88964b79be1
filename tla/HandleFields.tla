---------------------------- MODULE HandleFields ----------------------------
(***************************************************************************)
(* The fields of handles: host-handle.ts, peer.ts, packet.ts and the       *)
(* buffers of buffers.ts read and write C memory at koffi.offsetof of a    *)
(* member, as a C type that each accessor names by itself, for elements of *)
(* arrays after pointer arithmetic of its own.  Nothing checks that this   *)
(* type is the one that the member is declared with.                       *)
(*                                                                         *)
(* C and JS store values in turn.  Memory is bytes, so that an access of   *)
(* the wrong width or at the wrong place shows; only the bytes of members  *)
(* that JS accesses are kept.                                              *)
(***************************************************************************)
EXTENDS Layouts

CONSTANTS
    Base,       \* the values of a byte: 256
    Count,      \* bound: elements of an array
    MaxStores   \* bound: how often a value is stored

ASSUME HandleFieldsAssumption ==
    /\ Base \in Nat /\ Base >= 2
    /\ Count \in Nat \ {0}
    /\ MaxStores \in Nat

\* The accessors: the path of a member and the type that is passed to Koffi for it.
As(type, names) == {<<<<name>>, type>> : name \in names}

readAddress(name) == {<<<<name, "host">>, uint32>>, <<<<name, "port">>, uint16>>}

\* Mutant of hostPrototype: a counter is written as a size_t, like the fields
\* around it.
hostPrototypeWide(p) ==
    As(size_t(p), {"channelLimit", "duplicatePeers", "maximumPacketSize",
                   "maximumWaitingData", "peerCount", "receivedDataLength",
                   "totalSentData"})
    \cup As(uint32, {"incomingBandwidth", "outgoingBandwidth", "totalReceivedData",
                     "totalReceivedPackets", "totalSentPackets"})
    \cup As(pointer(p), {"checksum", "intercept", "peers", "receivedData"})
    \cup readAddress("address") \cup readAddress("receivedAddress")

hostPrototype(p) ==
    As(size_t(p), {"channelLimit", "duplicatePeers", "maximumPacketSize",
                   "maximumWaitingData", "peerCount", "receivedDataLength"})
    \cup As(uint32, {"incomingBandwidth", "outgoingBandwidth", "totalReceivedData",
                     "totalReceivedPackets", "totalSentData", "totalSentPackets"})
    \cup As(pointer(p), {"checksum", "intercept", "peers", "receivedData"})
    \cup readAddress("address") \cup readAddress("receivedAddress")

peerPrototype(p) ==
    As(size_t(p), {"channelCount"})
    \cup As(uint32, {"incomingBandwidth", "mtu", "outgoingBandwidth", "packetLoss",
                     "roundTripTime"})
    \cup readAddress("address")

packetPrototype(p) ==
    As(size_t(p), {"dataLength", "referenceCount"})
    \cup As(uint32, {"flags"})
    \cup As(pointer(p), {"data", "freeCallback"})

fromNativeBuffers(p) == As(size_t(p), {"dataLength"}) \cup As(pointer(p), {"data"})

\* What has a setter.
Writable ==
    [host |-> {"checksum", "duplicatePeers", "intercept", "maximumPacketSize",
               "maximumWaitingData", "totalReceivedData", "totalReceivedPackets",
               "totalSentData", "totalSentPackets"},
     packet |-> {"freeCallback"},
     peer |-> {},
     buffer |-> {}]

Object == DOMAIN Writable

\* Hosts and packets are allocated one by one, the others are in arrays.
Index(object) == IF object \in {"host", "packet"} THEN {0} ELSE 0..(Count - 1)

Declared(p) == [host |-> enetHost(p), packet |-> enetPacket(p),
                peer |-> enetPeer(p), buffer |-> enetBuffer(p)]

Accessors(p) == [host |-> hostPrototype(p), packet |-> packetPrototype(p),
                 peer |-> peerPrototype(p), buffer |-> fromNativeBuffers(p)]

\* Where the member is and its type: koffi.offsetof, twice for one of an address.
Member(struct, path) ==
    LET outer == struct.members[path[1]]
        inner == outer.type.members[path[2]]
    IN  IF Len(path) = 1 THEN outer ELSE [at |-> outer.at + inner.at, type |-> inner.type]

Paths(accessors) == {accessor[1] : accessor \in accessors}

TypeOf(accessors, path) == (CHOOSE accessor \in accessors : accessor[1] = path)[2]

Field == LET accessors == Accessors([word |-> 8, windows |-> FALSE])
         IN  UNION {{object} \X Index(object) \X Paths(accessors[object]) :
                        object \in Object}

\* Where C has them: its arrays are one element after the other.
C(p) == LET declared == Declared(p)
        IN  [field \in Field |->
                LET struct == declared[field[1]]
                    member == Member(struct, field[3])
                IN  [at |-> field[2] * struct.size + member.at,
                     size |-> member.type.size]]

\* Mutant of elementPointer: arithmetic on elements, as in C, on a number.
elementPointerInC(array, index, size) == array + index

elementPointer(array, index, size) == array + index * size

\* What the accessors use: the pointer of the handle plus the offset.
Js(p) == LET declared == Declared(p)
             accessors == Accessors(p)
         IN  [field \in Field |->
                 LET struct == declared[field[1]]
                 IN  [at |-> elementPointer(0, field[2], struct.size)
                             + Member(struct, field[3]).at,
                      size |-> TypeOf(accessors[field[1]], field[3]).size]]

-----------------------------------------------------------------------------
VARIABLES
    c, js,      \* where C has each field, and where its accessor looks
    memory,     \* the value of each byte
    stored,     \* history: the value that was last stored in each field
    stores      \* how often one was

hfVars == <<c, js, memory, stored, stores>>

Bytes == UNION {{<<field[1], c[field].at + i>> : i \in 0..(c[field].size - 1)} :
                    field \in DOMAIN c}

\* The largest value of so many bytes.
Largest(size) ==
    LET largest[i \in 0..size] == IF i = 0 THEN 0 ELSE Base * largest[i - 1] + Base - 1
    IN  largest[size]

\* The program runs on some platform; memory is what C made it: all bits off,
\* or all on.
FieldsInit ==
    /\ \E p \in Platform : c = C(p) /\ js = Js(p)
    /\ \E byte \in {0, Base - 1} :
          /\ memory = [b \in Bytes |-> byte]
          /\ stored = [field \in Field |-> IF byte = 0 THEN 0 ELSE Largest(c[field].size)]
    /\ stores = 0

-----------------------------------------------------------------------------
\* What is left of a value of so many bytes, the lowest ones removed one by one.
Rest(value, size) ==
    LET rest[i \in 0..size] == IF i = 0 THEN value ELSE rest[i - 1] \div Base
    IN  rest

\* The bytes of a value, the lowest first.
Store(object, place, value) ==
    memory' = [byte \in DOMAIN memory |->
                  LET i == byte[2] - place.at
                  IN  IF byte[1] = object /\ i \in 0..(place.size - 1)
                      THEN Rest(value, place.size)[i] % Base
                      ELSE memory[byte]]

Remember(field, value) ==
    /\ stores' = stores + 1
    /\ stored' = [stored EXCEPT ![field] = value]
    /\ UNCHANGED <<c, js>>

Values(field) == {0, 1, Largest(c[field].size)}

\* koffi.decode: the value of the highest bytes, one after the other.  A byte that
\* is not kept is some other member's.
Highest(object, place) ==
    LET Byte(i) == IF <<object, place.at + i>> \in DOMAIN memory
                   THEN memory[<<object, place.at + i>>] ELSE 0
        highest[i \in 0..place.size] ==
            IF i = 0 THEN 0 ELSE Byte(place.size - i) + Base * highest[i - 1]
    IN  highest

readNumber(object, place) == Highest(object, place)[place.size]

\* ENet changes one of the fields.
CStores(field, value) ==
    /\ Store(field[1], c[field], value)
    /\ Remember(field, value)

\* The program assigns one; koffi.encode.
writeNumber(field, value) ==
    /\ field[3][1] \in Writable[field[1]]
    /\ Store(field[1], js[field], value)
    /\ Remember(field, value)

FieldsNext ==
    /\ stores < MaxStores
    /\ \E field \in DOMAIN c : \E value \in Values(field) :
          CStores(field, value) \/ writeNumber(field, value)

FieldsSpec == FieldsInit /\ [][FieldsNext]_hfVars

-----------------------------------------------------------------------------
\* host-handle.ts 136-283, peer.ts 31-53, packet.ts 47-82, buffers.ts 19-26:
\* whatever C and the program assigned, in whatever order, every accessor of
\* every handle reads what was last stored in its own field: it is as wide as
\* the field, none reaches into a neighbour, and elements do not overlap, on
\* each platform.
FieldsReadBack ==
    \A field \in DOMAIN c :
        readNumber(field[1], js[field]) = stored[field]
=============================================================================
