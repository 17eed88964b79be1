----------------------------- MODULE HostFields -----------------------------
(***************************************************************************)
(* What the checksum and intercept properties of a host promise            *)
(* (structs.ts 92-99): they are fields of the C struct.  Each live host    *)
(* has its own, null when the host is created, and an assignment changes   *)
(* the field of that host only.                                            *)
(***************************************************************************)
CONSTANTS
    Host,
    Handler,    \* JS functions
    Null,
    Crc32       \* enet.crc32, which is C code

VARIABLES
    live,       \* the hosts that exist
    checksum,   \* for each host; null for a host that does not exist
    intercept

vars == <<live, checksum, intercept>>

Init ==
    /\ live = {}
    /\ checksum = [host \in Host |-> Null]
    /\ intercept = [host \in Host |-> Null]

Create(host) ==
    /\ host \notin live
    /\ live' = live \cup {host}
    /\ UNCHANGED <<checksum, intercept>>

SetChecksum(host, value) ==
    /\ host \in live
    /\ checksum' = [checksum EXCEPT ![host] = value]
    /\ UNCHANGED <<live, intercept>>

SetIntercept(host, value) ==
    /\ host \in live
    /\ intercept' = [intercept EXCEPT ![host] = value]
    /\ UNCHANGED <<live, checksum>>

Destroy(host) ==
    /\ host \in live
    /\ live' = live \ {host}
    /\ checksum' = [checksum EXCEPT ![host] = Null]
    /\ intercept' = [intercept EXCEPT ![host] = Null]

Next ==
    \E host \in Host :
        \/ Create(host)
        \/ Destroy(host)
        \/ \E value \in Handler \cup {Null, Crc32} : SetChecksum(host, value)
        \/ \E value \in Handler \cup {Null} : SetIntercept(host, value)

Spec == Init /\ [][Next]_vars
=============================================================================
