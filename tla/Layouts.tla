------------------------------ MODULE Layouts ------------------------------
(***************************************************************************)
(* native/structs.ts: where C keeps the fields of ENet's structs.  A type  *)
(* is its size, its alignment and, if it is a struct, its members: where   *)
(* each one is and its type.  The declarations are those of the source,    *)
(* which native.layout.test.ts compares with enet.h.  Only the members     *)
(* that JS reads or writes have their names here.                          *)
(***************************************************************************)
EXTENDS Naturals, Sequences, FiniteSetsExt

\* Sizes of pointers, and whether ENet is built for Windows.
Platform == [word : {4, 8}, windows : BOOLEAN]

Scalar(size) == [size |-> size, align |-> size, members |-> <<>>]

uint8 == Scalar(1)
uint16 == Scalar(2)
uint32 == Scalar(4)
int == Scalar(4)
size_t(p) == Scalar(p.word)
pointer(p) == Scalar(p.word)

enetSocket(p) == IF p.windows THEN Scalar(p.word) ELSE int

Array(type, length) == [type EXCEPT !.size = length * @]

\* The next offset at which a member can be.
Aligned(offset, align) == ((offset + align - 1) \div align) * align

\* The name of a member that JS does not access.
Unnamed == "unnamed"

\* Where the first members of a struct end, each aligned.
Ends(members) ==
    LET Type(i) == members[i][2]
        end[i \in 0..Len(members)] ==
            IF i = 0 THEN 0 ELSE Aligned(end[i - 1], Type(i).align) + Type(i).size
    IN  end

\* koffi.struct: the members, a sequence of names and types, in their order; the
\* size is such that the next element of an array is aligned, too.
Struct(members) ==
    LET Type(i) == members[i][2]
        end == Ends(members)
        align == Max({Type(i).align : i \in DOMAIN members})
        Index(name) == CHOOSE i \in DOMAIN members : members[i][1] = name
    IN  [size |-> Aligned(end[Len(members)], align),
         align |-> align,
         members |-> [name \in {members[i][1] : i \in DOMAIN members} \ {Unnamed} |->
                         LET i == Index(name)
                         IN  [at |-> end[i] - Type(i).size, type |-> Type(i)]]]

\* Members of one type, with names and without.
Of(type, names) == [i \in DOMAIN names |-> <<names[i], type>>]
Others(type, count) == [i \in 1..count |-> <<Unnamed, type>>]

-----------------------------------------------------------------------------
ENET_BUFFER_MAXIMUM == 65
ENET_PROTOCOL_MAXIMUM_PACKET_COMMANDS == 32
ENET_PROTOCOL_MAXIMUM_MTU == 4096
UNSEQUENCED_WINDOW_WORDS == 1024 \div 32

enetBuffer(p) ==
    LET data == Of(pointer(p), <<"data">>)
        dataLength == Of(size_t(p), <<"dataLength">>)
    IN  Struct(IF p.windows THEN dataLength \o data ELSE data \o dataLength)

enetAddress == Struct(Of(uint32, <<"host">>) \o Of(uint16, <<"port">>))

enetPacket(p) ==
    Struct(Of(size_t(p), <<"referenceCount">>)
           \o Of(uint32, <<"flags">>)
           \o Of(pointer(p), <<"data">>)
           \o Of(size_t(p), <<"dataLength">>)
           \o Of(pointer(p), <<"freeCallback", "userData">>))

\* Two pointers; a list is one node.
enetListNode(p) == Array(pointer(p), 2)

enetPeer(p) ==
    Struct(Others(enetListNode(p), 1) \o Others(pointer(p), 1)
           \o Others(uint16, 2) \o Others(uint32, 1) \o Others(uint8, 2)
           \o Of(enetAddress, <<"address">>)
           \o Others(pointer(p), 1) \o Others(int, 1) \o Others(pointer(p), 1)
           \o Of(size_t(p), <<"channelCount">>)
           \o Of(uint32, <<"incomingBandwidth", "outgoingBandwidth">>)
           \o Others(uint32, 11) \o Of(uint32, <<"packetLoss">>)
           \o Others(uint32, 16) \o Of(uint32, <<"roundTripTime">>)
           \o Others(uint32, 1) \o Of(uint32, <<"mtu">>) \o Others(uint32, 2)
           \o Others(uint16, 1) \o Others(enetListNode(p), 5) \o Others(uint16, 4)
           \o Others(Array(uint32, UNSEQUENCED_WINDOW_WORDS), 1)
           \o Others(uint32, 1) \o Others(size_t(p), 1))

\* Packed, so that it can be anywhere.
enetProtocol == Array(uint8, 48)

enetHost(p) ==
    Struct(Others(enetSocket(p), 1) \o Of(enetAddress, <<"address">>)
           \o Of(uint32, <<"incomingBandwidth", "outgoingBandwidth">>)
           \o Others(uint32, 3) \o Others(int, 1)
           \o Of(pointer(p), <<"peers">>)
           \o Of(size_t(p), <<"peerCount", "channelLimit">>)
           \o Others(uint32, 1) \o Others(enetListNode(p), 1) \o Others(uint32, 1)
           \o Others(size_t(p), 1) \o Others(uint16, 1)
           \o Others(Array(enetProtocol, ENET_PROTOCOL_MAXIMUM_PACKET_COMMANDS), 1)
           \o Others(size_t(p), 1)
           \o Others(Array(enetBuffer(p), ENET_BUFFER_MAXIMUM), 1)
           \o Others(size_t(p), 1)
           \o Of(pointer(p), <<"checksum">>)
           \o Others(Array(pointer(p), 4), 1)
           \o Others(Array(uint8, 2 * ENET_PROTOCOL_MAXIMUM_MTU), 1)
           \o Of(enetAddress, <<"receivedAddress">>)
           \o Of(pointer(p), <<"receivedData">>)
           \o Of(size_t(p), <<"receivedDataLength">>)
           \o Of(uint32, <<"totalSentData", "totalSentPackets", "totalReceivedData",
                           "totalReceivedPackets">>)
           \o Of(pointer(p), <<"intercept">>)
           \o Others(size_t(p), 2)
           \o Of(size_t(p), <<"duplicatePeers", "maximumPacketSize",
                              "maximumWaitingData">>))
=============================================================================
