----------------------------- MODULE SocketSet -----------------------------
(***************************************************************************)
(* The layouts of socketset.ts, which turn Sets of sockets into the        *)
(* fd_sets of the platform and back, and what the system's select does to  *)
(* an fd_set.  A POSIX fd_set is a bit per socket, in bytes; Winsock's is  *)
(* a count and an array, whose tail select leaves behind.                  *)
(***************************************************************************)
EXTENDS Integers, Sequences, SequencesExt

CONSTANTS
    NoSet,          \* null, in place of a Set or an fd_set
    BitsPerByte,    \* BITS_PER_BYTE
    Bytes,          \* POSIX_FD_SET_SIZE
    WindowsSize     \* WINDOWS_FD_SETSIZE

ASSUME SocketSetAssumption ==
    /\ BitsPerByte \in Nat \ {0}
    /\ Bytes \in Nat \ {0}
    /\ WindowsSize \in Nat \ {0}
    /\ NoSet \notin [0..(Bytes - 1) -> Nat]
    /\ NoSet \notin [count : Nat, sockets : [1..WindowsSize -> Nat]]

-----------------------------------------------------------------------------
(* posixSocketSet *)

\* BIT_BASE ** exponent
Power(exponent) ==
    LET power[n \in 0..exponent] == IF n = 0 THEN 1 ELSE 2 * power[n - 1]
    IN  power[exponent]

bitOf(socket) == Power(socket % BitsPerByte)

byteOf(socket) == socket \div BitsPerByte

\* writeUInt8 throws a RangeError for a byte beyond the buffer.
PosixFits(sockets) == \A socket \in sockets : byteOf(socket) < Bytes

\* The sockets that an fd_set has a bit for.
PosixSocket == 0..(Bytes * BitsPerByte - 1)

\* What the bits of the sockets add up to, one after the other.
Added(bit, sockets) ==
    LET sum[n \in 0..(Bytes * BitsPerByte)] ==
            IF n = 0 THEN 0 ELSE sum[n - 1] + IF n - 1 \in sockets THEN bit[n - 1] ELSE 0
    IN  sum[Bytes * BitsPerByte]

\* Mutant of PosixEncode: a bit replaces those of other sockets in the byte.
PosixEncodeOverwriting(sockets) ==
    [byte \in 0..(Bytes - 1) |->
        LET inByte == {socket \in sockets : byteOf(socket) = byte}
        IN  IF inByte = {} THEN 0 ELSE bitOf(Max(inByte))]

PosixEncode(sockets) ==
    [byte \in 0..(Bytes - 1) |->
        Added([socket \in PosixSocket |-> bitOf(socket)],
              {socket \in sockets : byteOf(socket) = byte})]

PosixDecode(fdSet, sockets) ==
    {socket \in sockets : (fdSet[byteOf(socket)] \div bitOf(socket)) % 2 = 1}

-----------------------------------------------------------------------------
(* windowsSocketSet *)

\* A program stays within the size that Winsock's own macros have.
WindowsFits(sockets) == IsFiniteSet(sockets) /\ Cardinality(sockets) <= WindowsSize

\* In the order of the Set; what follows is zero.
WindowsEncode(sockets) ==
    [count |-> Cardinality(sockets),
     sockets |-> [index \in 1..WindowsSize |->
                    IF index <= Cardinality(sockets) THEN SetToSeq(sockets)[index] ELSE 0]]

WindowsDecode(fdSet, sockets) ==
    {socket \in sockets : \E index \in 1..fdSet.count : fdSet.sockets[index] = socket}

-----------------------------------------------------------------------------
(* layout, toFdSet and fromFdSet *)

\* encode does not throw.
Fits(platform, sockets) ==
    sockets # NoSet /\ platform = "posix" => PosixFits(sockets)

toFdSet(platform, sockets) ==
    CASE sockets = NoSet -> NoSet
      [] sockets # NoSet /\ platform = "posix" -> PosixEncode(sockets)
      [] sockets # NoSet /\ platform = "win32" -> WindowsEncode(sockets)

\* What becomes of the Set.
fromFdSet(platform, fdSet, sockets) ==
    CASE fdSet = NoSet -> sockets
      [] fdSet # NoSet /\ platform = "posix" -> PosixDecode(fdSet, sockets)
      [] fdSet # NoSet /\ platform = "win32" -> WindowsDecode(fdSet, sockets)

-----------------------------------------------------------------------------
(* What the system does to an fd_set: it clears the bits of the sockets that
   are not ready, or moves those that are to the front. *)

FdBit(socket) == Power(socket % BitsPerByte)

FdByte(socket) == socket \div BitsPerByte

PosixSockets(fdSet) ==
    {socket \in PosixSocket : (fdSet[FdByte(socket)] \div FdBit(socket)) % 2 = 1}

PosixKeep(fdSet, some) ==
    [byte \in 0..(Bytes - 1) |->
        Added([socket \in PosixSocket |-> FdBit(socket)],
              {socket \in PosixSockets(fdSet) \cap some : FdByte(socket) = byte})]

WindowsKeep(fdSet, some) ==
    LET kept[n \in 0..fdSet.count] ==
            IF n = 0 THEN <<>>
            ELSE IF fdSet.sockets[n] \in some THEN Append(kept[n - 1], fdSet.sockets[n])
            ELSE kept[n - 1]
        first == kept[fdSet.count]
    IN  [count |-> Len(first),
         sockets |-> [index \in 1..WindowsSize |->
                        IF index <= Len(first) THEN first[index] ELSE fdSet.sockets[index]]]

Keep(platform, fdSet, some) ==
    CASE fdSet = NoSet -> NoSet
      [] fdSet # NoSet /\ platform = "posix" -> PosixKeep(fdSet, some)
      [] fdSet # NoSet /\ platform = "win32" -> WindowsKeep(fdSet, some)
=============================================================================
