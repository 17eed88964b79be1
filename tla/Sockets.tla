------------------------------ MODULE Sockets ------------------------------
(***************************************************************************)
(* socket.ts and select of socketset.ts, over the system's sockets.  The   *)
(* wrappers keep no state: what can go wrong is what they make of the      *)
(* addresses and fd_sets that C fills in, or does not fill in.             *)
(*                                                                         *)
(* The system is the environment.  It gives out socket numbers again,      *)
(* delivers or loses datagrams, and may fail any call; the interesting     *)
(* failures are actions, those without effect are not.                     *)
(***************************************************************************)
EXTENDS Addresses, SocketSet

CONSTANTS
    Socket,     \* socket numbers
    Local,      \* the addresses of this machine, as JS writes them
    MaxQueue    \* bound: datagrams, or connections, that wait at a socket

ASSUME SocketsAssumption ==
    /\ Socket \subseteq Nat
    /\ \A sockets \in SUBSET Socket : sockets # NoSet
    /\ Local \subseteq Address
    /\ MaxQueue \in Nat

VARIABLES
    platform,   \* whose fd_sets the process uses
    kind,       \* what each socket is
    bound,      \* its address in the system
    queue,      \* what waits at it: who sent it, and whether it has any bytes
    answer      \* what the last call that answers returned, with, for the
                \* properties, what it should tell of

vars == <<platform, kind, bound, queue, answer>>

Kind == {"closed", "datagram", "stream", "listening", "connected"}

Message == [from : NativeAddress, size : {0, 1}]

Which == {"read", "write"}

Sets == [Which -> (SUBSET Socket) \cup {NoSet}]

\* The address that a call returned, the one that C filled in, and whether it is
\* the sender of a datagram without bytes.
AddressAnswer == [call : {"address"}, address : Address \cup {Null},
                  truth : NativeAddress \cup {Null}, empty : BOOLEAN]

\* The Sets that select was given, what became of them, and what is ready.
SetsAnswer == [call : {"select"}, given : Sets, kept : Sets,
               ready : [Which -> SUBSET Socket], failed : BOOLEAN]

\* The conditions that wait returned.
WaitAnswer == [call : {"wait"}, conditions : (SUBSET Which) \cup {Null}]

NoAnswer == [call |-> "none"]

Answer == {NoAnswer} \cup AddressAnswer \cup SetsAnswer \cup WaitAnswer

TypeOK ==
    /\ platform \in {"posix", "win32"}
    /\ kind \in [Socket -> Kind]
    /\ bound \in [Socket -> NativeAddress]
    /\ queue \in [Socket -> Seq(Message)]
    /\ answer \in Answer

Init ==
    /\ platform \in {"posix", "win32"}
    /\ kind = [socket \in Socket |-> "closed"]
    /\ bound = [socket \in Socket |-> emptyNativeAddress]
    /\ queue = [socket \in Socket |-> <<>>]
    /\ answer = NoAnswer

-----------------------------------------------------------------------------
LocalNative == {toNativeAddress(address) : address \in Local}

Taken == {bound[socket] : socket \in {s \in Socket : kind[s] # "closed"}}

Room(socket) == Len(queue[socket]) < MaxQueue

\* The address that a socket sends from: its own, or one that the system gives
\* it then and that is not taken.
AddressesOf(socket) ==
    IF bound[socket] # emptyNativeAddress THEN {bound[socket]} ELSE LocalNative \ Taken

\* create
Create(socket, type) ==
    /\ kind[socket] = "closed"
    /\ kind' = [kind EXCEPT ![socket] = type]
    /\ answer' = NoAnswer
    /\ UNCHANGED <<platform, bound, queue>>

\* bind, to an address or, for null, to one of the system's choice.
Bind(socket, address) ==
    LET native == IF address = Null THEN Null ELSE toNativeAddress(address)
    IN  /\ kind[socket] \in {"datagram", "stream"}
        /\ bound[socket] = emptyNativeAddress
        /\ \E chosen \in LocalNative \ Taken :
              /\ native \in {Null, chosen}
              /\ bound' = [bound EXCEPT ![socket] = chosen]
        /\ answer' = NoAnswer
        /\ UNCHANGED <<platform, kind, queue>>

\* Answers with an address that C filled in.
Tell(status, native) ==
    answer' = [call |-> "address",
               address |-> outValue(status, fromNativeAddress(native)),
               truth |-> IF status < 0 THEN Null ELSE native,
               empty |-> FALSE]

\* getAddress; a closed socket has none.
GetAddress(socket) ==
    /\ Tell(IF kind[socket] = "closed" THEN -1 ELSE 0,
            IF kind[socket] = "closed" THEN emptyNativeAddress ELSE bound[socket])
    /\ UNCHANGED <<platform, kind, bound, queue>>

\* setHostIp and setHost of address.ts: a copy of the address, with the host
\* that ENet parsed or resolved, or null.
SetHost(address, host, status) ==
    /\ Tell(status, [toNativeAddress(address) EXCEPT !.host = ipToLong(host)])
    /\ UNCHANGED <<platform, kind, bound, queue>>

\* getHostIp, and getHost of an address without a name: the text that ENet
\* writes of the number, read as JS reads a dotted quad, or null.
GetHost(address, status) ==
    /\ Tell(status, toNativeAddress(address))
    /\ UNCHANGED <<platform, kind, bound, queue>>

\* listen
Listen(socket) ==
    /\ kind[socket] = "stream"
    /\ bound[socket] # emptyNativeAddress
    /\ kind' = [kind EXCEPT ![socket] = "listening"]
    /\ answer' = NoAnswer
    /\ UNCHANGED <<platform, bound, queue>>

\* connect: the connection waits at the listening socket.
Connect(socket, address, listener) ==
    /\ kind[socket] = "stream"
    /\ kind[listener] = "listening"
    /\ bound[listener] = toNativeAddress(address)
    /\ Room(listener)
    /\ \E native \in AddressesOf(socket) :
          /\ bound' = [bound EXCEPT ![socket] = native]
          /\ queue' = [queue EXCEPT ![listener] = Append(@, [from |-> native, size |-> 0])]
    /\ kind' = [kind EXCEPT ![socket] = "connected"]
    /\ answer' = NoAnswer
    /\ UNCHANGED platform

\* accept, on a socket that does not block: ENET_SOCKET_NULL if nobody waits.
AcceptNone(listener) ==
    /\ kind[listener] = "listening"
    /\ queue[listener] = <<>>
    /\ Tell(-1, emptyNativeAddress)
    /\ UNCHANGED <<platform, kind, bound, queue>>

Accept(listener, socket) ==
    /\ kind[listener] = "listening"
    /\ queue[listener] # <<>>
    /\ kind[socket] = "closed"
    /\ kind' = [kind EXCEPT ![socket] = "connected"]
    /\ bound' = [bound EXCEPT ![socket] = bound[listener]]
    /\ queue' = [queue EXCEPT ![listener] = Tail(@)]
    /\ Tell(0, Head(queue[listener]).from)
    /\ UNCHANGED platform

\* send, of a datagram with or without bytes.  It is delivered, if a socket has
\* that address and room, or lost.
Send(socket, address, size) ==
    /\ kind[socket] = "datagram"
    /\ \E native \in AddressesOf(socket) :
          /\ bound' = [bound EXCEPT ![socket] = native]
          /\ \/ UNCHANGED queue
             \/ \E receiver \in Socket :
                   /\ kind[receiver] = "datagram"
                   /\ bound'[receiver] = toNativeAddress(address)
                   /\ Room(receiver)
                   /\ queue' = [queue EXCEPT
                                  ![receiver] = Append(@, [from |-> native, size |-> size])]
    /\ answer' = NoAnswer
    /\ UNCHANGED <<platform, kind>>

\* Mutant of receivedAddress: what C did not fill in is an address.
receivedAddressOfNothing(result, native) ==
    IF result >= 0 THEN fromNativeAddress(native) ELSE Null

\* receive tells of the sender only if something was received.
receivedAddress(result, native) ==
    IF result > 0 THEN fromNativeAddress(native) ELSE Null

\* receive, on a socket that does not block.
Receive(socket) ==
    LET waits == queue[socket] # <<>>
        native == IF waits THEN Head(queue[socket]).from ELSE emptyNativeAddress
        result == IF waits THEN Head(queue[socket]).size ELSE 0
    IN  /\ kind[socket] = "datagram"
        /\ queue' = [queue EXCEPT ![socket] = IF waits THEN Tail(@) ELSE @]
        /\ answer' = [call |-> "address",
                      address |-> receivedAddress(result, native),
                      truth |-> IF waits THEN native ELSE Null,
                      empty |-> waits /\ result = 0]
        /\ UNCHANGED <<platform, kind, bound>>

\* destroy: the number can be given out again.
Destroy(socket) ==
    /\ kind[socket] # "closed"
    /\ kind' = [kind EXCEPT ![socket] = "closed"]
    /\ bound' = [bound EXCEPT ![socket] = emptyNativeAddress]
    /\ queue' = [queue EXCEPT ![socket] = <<>>]
    /\ answer' = NoAnswer
    /\ UNCHANGED platform

-----------------------------------------------------------------------------
(* select *)

Elements(sockets) == IF sockets = NoSet THEN {} ELSE sockets

\* What waits can be read, or accepted; what has an open way out can be written.
Ready ==
    [which \in Which |->
        IF which = "read" THEN {socket \in Socket : queue[socket] # <<>>}
                          ELSE {socket \in Socket : kind[socket] \in {"datagram", "connected"}}]

\* The system fails when it is given a closed socket, and leaves the fd_sets
\* alone; it then looks as if every socket were ready.
SelectFails(given) ==
    \E which \in Which : \E socket \in Elements(given[which]) : kind[socket] = "closed"

\* Both Sets are turned into fd_sets before the call, and updated after it.
Select(given) ==
    LET encoded == [which \in Which |-> toFdSet(platform, given[which])]
        left == IF SelectFails(given)
                THEN encoded
                ELSE [which \in Which |-> Keep(platform, encoded[which], Ready[which])]
    IN  /\ \A which \in Which : Fits(platform, given[which])
        /\ answer' = [call |-> "select",
                      given |-> given,
                      kept |-> [which \in Which |->
                                  fromFdSet(platform, left[which], given[which])],
                      ready |-> Ready,
                      failed |-> SelectFails(given)]
        /\ UNCHANGED <<platform, kind, bound, queue>>

\* A socket that does not fit in the fd_set: select throws, before anything
\* has changed.
SelectThrows(given) ==
    /\ \E which \in Which : ~Fits(platform, given[which])
    /\ answer' = NoAnswer
    /\ UNCHANGED <<platform, kind, bound, queue>>

\* wait: the conditions that were asked for, in a bit mask that C changes when
\* it succeeds.
Wait(socket, asked, status) ==
    LET ready == {which \in Which : socket \in Ready[which]}
        conditions == IF status < 0 THEN asked ELSE asked \cap ready
    IN  /\ kind[socket] # "closed"
        /\ answer' = [call |-> "wait",
                      conditions |-> outValue(status, conditions)]
        /\ UNCHANGED <<platform, kind, bound, queue>>

\* A program's Sets are no larger than Winsock's.
Arguments == {given \in Sets : \A which \in Which : WindowsFits(Elements(given[which]))}

CallOf(socket) ==
    \/ \E type \in {"datagram", "stream"} : Create(socket, type)
    \/ \E address \in Local \cup {Null} : Bind(socket, address)
    \/ GetAddress(socket)
    \/ Listen(socket)
    \/ \E address \in Local, other \in Socket : Connect(socket, address, other)
    \/ AcceptNone(socket)
    \/ \E other \in Socket : Accept(socket, other)
    \/ \E address \in Local, size \in {0, 1} : Send(socket, address, size)
    \/ Receive(socket)
    \/ \E asked \in SUBSET Which, status \in {-1, 0} : Wait(socket, asked, status)
    \/ Destroy(socket)

CallOfNone ==
    \/ \E given \in Arguments : Select(given) \/ SelectThrows(given)
    \/ \E address \in Local, other \in Local, status \in {-1, 0} :
          SetHost(address, other.host, status) \/ GetHost(address, status)

\* The program has used an answer, and goes on.
Use ==
    /\ answer # NoAnswer
    /\ answer' = NoAnswer
    /\ UNCHANGED <<platform, kind, bound, queue>>

Next ==
    \/ Use
    \/ answer = NoAnswer /\ (CallOfNone \/ \E socket \in Socket : CallOf(socket))

Spec == Init /\ [][Next]_vars

-----------------------------------------------------------------------------
\* socket.ts 31-39, 57-74, 90-114, address.ts 34-36: the address that a call
\* returns is, passed to another call, the one that C filled in: a program that
\* replies to a sender reaches that sender.  Without a sender there is none, nor,
\* as structs.ts 181-184 documents, for a datagram without bytes.
AnswersCanBeUsed ==
    answer.call = "address" =>
        IF answer.truth = Null \/ answer.empty
        THEN answer.address = Null
        ELSE answer.address # Null /\ toNativeAddress(answer.address) = answer.truth

\* socketset.ts 109-118: each Set keeps the sockets that are ready, and no
\* other, on either platform, for any mix of Sets; when select fails both are
\* as they were.
KeepsReadySockets ==
    answer.call = "select" =>
        \A which \in Which :
            answer.kept[which] =
                IF answer.failed \/ answer.given[which] = NoSet
                THEN answer.given[which]
                ELSE answer.given[which] \cap answer.ready[which]
=============================================================================
