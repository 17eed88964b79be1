---------------------------- MODULE PeerHandles ----------------------------
(***************************************************************************)
(* peer.ts and the peers of host-handle.ts: one JS object per peer, so     *)
(* that peers compare like ENetPeer * in C and keep their data.  hostPeers *)
(* finds the object by the pointers of the host and of the peer, and malloc*)
(* gives both out again: a new host can be where an old one was, and so    *)
(* can its array of peers, in any combination.                             *)
(*                                                                         *)
(* peerOf runs no callback, so it is one step.  enet_host_destroy runs     *)
(* callbacks, which can still read the peers of the host that is dying or  *)
(* use other hosts, so destroy is two.                                     *)
(***************************************************************************)
EXTENDS Naturals

CONSTANTS
    Host,       \* host pointers
    Array,      \* pointers to arrays of peers
    Slot,       \* positions in an array: host->peerCount of them
    NoArray,
    NoHandle,   \* no entry in hostPeers
    MaxHosts,   \* bound: how many hosts are created
    MaxHandles  \* bound: how many objects are made

ASSUME PeerHandlesAssumption ==
    /\ NoArray \notin Array
    /\ NoHandle \notin Nat
    /\ MaxHosts \in Nat
    /\ MaxHandles \in Nat

Peer == Array \X Slot       \* peer pointers: elements of an array
Handle == 1..MaxHandles     \* JS objects, in the order they were made

VARIABLES
    array,      \* host->peers of the hosts that exist; NoArray of the others
    dying,      \* the hosts that enet_host_destroy works on
    hostPeers,  \* the Map of Maps
    handles,    \* how many objects were made
    hosts,      \* history: how many hosts were created
    birth,      \* history: the number of the host at each pointer
    madeFor     \* history: the host and peer each object was made for

vars == <<array, dying, hostPeers, handles, hosts, birth, madeFor>>

NoPeers == [peer \in Peer |-> NoHandle]

Live(host) == array[host] # NoArray

TypeOK ==
    /\ array \in [Host -> Array \cup {NoArray}]
    /\ dying \subseteq {host \in Host : Live(host)}
    /\ hostPeers \in [Host -> [Peer -> 1..handles \cup {NoHandle}]]
    /\ \A host \in Host : ~Live(host) => hostPeers[host] = NoPeers
    /\ handles \in 0..MaxHandles
    /\ hosts \in 0..MaxHosts
    /\ birth \in [Host -> 0..MaxHosts]
    /\ madeFor \in [Handle -> (0..MaxHosts) \X (Peer \cup {NoHandle})]

Init ==
    /\ array = [host \in Host |-> NoArray]
    /\ dying = {}
    /\ hostPeers = [host \in Host |-> NoPeers]
    /\ handles = 0
    /\ hosts = 0
    /\ birth = [host \in Host |-> 0]
    /\ madeFor = [handle \in Handle |-> <<0, NoHandle>>]

PeersOf(host) == {array[host]} \X Slot

-----------------------------------------------------------------------------
\* enet_host_create: a host and an array of peers at addresses not in use.
Create(host, peers) ==
    /\ hosts < MaxHosts
    /\ ~Live(host)
    /\ \A other \in Host : array[other] # peers
    /\ array' = [array EXCEPT ![host] = peers]
    /\ hosts' = hosts + 1
    /\ birth' = [birth EXCEPT ![host] = hosts + 1]
    /\ UNCHANGED <<dying, hostPeers, handles, madeFor>>

\* peerOf finds an object, and there is nothing to do but return it.
Known(host, peer) == hostPeers[host][peer] # NoHandle

\* Mutant of MakeHandle: the host's Map is replaced by one with this peer only.
MakeHandleInNewMap(host, peer) ==
    /\ Live(host)
    /\ peer \in PeersOf(host)
    /\ ~Known(host, peer)
    /\ handles < MaxHandles
    /\ handles' = handles + 1
    /\ hostPeers' = [hostPeers EXCEPT ![host] = [NoPeers EXCEPT ![peer] = handles + 1]]
    /\ madeFor' = [madeFor EXCEPT ![handles + 1] = <<birth[host], peer>>]
    /\ UNCHANGED <<array, dying, hosts, birth>>

\* peerOf, for connect, an event of the host, or one element of host.peers.
MakeHandle(host, peer) ==
    /\ Live(host)
    /\ peer \in PeersOf(host)
    /\ ~Known(host, peer)
    /\ handles < MaxHandles
    /\ handles' = handles + 1
    /\ hostPeers' = [hostPeers EXCEPT ![host][peer] = handles + 1]
    /\ madeFor' = [madeFor EXCEPT ![handles + 1] = <<birth[host], peer>>]
    /\ UNCHANGED <<array, dying, hosts, birth>>

\* enet_host_destroy begins, and runs callbacks.
BeginDestroy(host) ==
    /\ Live(host)
    /\ host \notin dying
    /\ dying' = dying \cup {host}
    /\ UNCHANGED <<array, hostPeers, handles, hosts, birth, madeFor>>

\* Mutant of EndDestroy: peers are not forgotten.
EndDestroyRemembers(host) ==
    /\ host \in dying
    /\ dying' = dying \ {host}
    /\ array' = [array EXCEPT ![host] = NoArray]
    /\ UNCHANGED <<hostPeers, handles, hosts, birth, madeFor>>

\* enet_host_destroy frees the array and the host, and forgetPeers follows in
\* the same afterCallbacks, before any error is rethrown.
EndDestroy(host) ==
    /\ host \in dying
    /\ dying' = dying \ {host}
    /\ array' = [array EXCEPT ![host] = NoArray]
    /\ hostPeers' = [hostPeers EXCEPT ![host] = NoPeers]
    /\ UNCHANGED <<handles, hosts, birth, madeFor>>

Next ==
    \E host \in Host :
        \/ \E peers \in Array : Create(host, peers)
        \/ \E peer \in Peer : MakeHandle(host, peer)
        \/ BeginDestroy(host)
        \/ EndDestroy(host)

Spec == Init /\ [][Next]_vars

-----------------------------------------------------------------------------
\* peer.ts 63: peers compare like pointers in C.  No two objects stand for the
\* same peer of the same host, not even one made while the host was destroyed.
OneObjectPerPeer ==
    \A one, other \in 1..handles : madeFor[one] = madeFor[other] => one = other

\* peer.ts 70-85: the object that peerOf finds was made for this very host, not
\* for an earlier one at the same pointers, whose data it would bring along.
FoundObjectIsOfThisHost ==
    \A host \in Host, peer \in Peer :
        Known(host, peer) =>
            madeFor[hostPeers[host][peer]] = <<birth[host], peer>>
=============================================================================
