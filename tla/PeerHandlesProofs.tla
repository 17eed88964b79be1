------------------------- MODULE PeerHandlesProofs -------------------------
(***************************************************************************)
(* Theorems about PeerHandles, for every number of pointers, hosts and     *)
(* objects.                                                                *)
(***************************************************************************)
EXTENDS PeerHandles, TLAPS

\* The hosts that exist were created one after the other.
BirthsDiffer ==
    /\ \A host \in Host : Live(host) => birth[host] \in 1..hosts
    /\ \A host, other \in Host :
          Live(host) /\ Live(other) /\ birth[host] = birth[other] => host = other

\* Objects were made for hosts that had been created.
MadeForHosts == \A handle \in 1..handles : madeFor[handle][1] \in 1..hosts

\* hostPeers misses no object of a host that exists.
MadeIsFound ==
    \A handle \in 1..handles, host \in Host, peer \in Peer :
        Live(host) /\ madeFor[handle] = <<birth[host], peer>>
            => hostPeers[host][peer] = handle

\* The inductive invariant.
IInv ==
    /\ TypeOK
    /\ BirthsDiffer
    /\ MadeForHosts
    /\ MadeIsFound
    /\ OneObjectPerPeer
    /\ FoundObjectIsOfThisHost

-----------------------------------------------------------------------------
LEMMA InitInv == Init => IInv
  <1> SUFFICES ASSUME Init PROVE IInv
    OBVIOUS
  <1> USE PeerHandlesAssumption DEF Init
  <1>1. TypeOK
    BY DEF TypeOK, NoPeers, Live
  <1>2. BirthsDiffer /\ MadeForHosts /\ MadeIsFound /\ OneObjectPerPeer
    BY DEF BirthsDiffer, MadeForHosts, MadeIsFound, OneObjectPerPeer, Live
  <1>3. FoundObjectIsOfThisHost
    BY DEF FoundObjectIsOfThisHost, Known, NoPeers
  <1> QED BY <1>1, <1>2, <1>3 DEF IInv

\* A new host has no objects, since all were made for older hosts.
LEMMA CreateInv ==
    ASSUME IInv, NEW host \in Host, NEW peers \in Array, Create(host, peers)
    PROVE  IInv'
  <1> USE PeerHandlesAssumption DEF IInv, Create, Live
  <1>1. TypeOK'
    BY DEF TypeOK
  <1>2. BirthsDiffer'
    BY DEF TypeOK, BirthsDiffer
  <1>3. MadeForHosts'
    BY DEF TypeOK, MadeForHosts
  <1>4. MadeIsFound'
    <2> SUFFICES ASSUME NEW handle \in 1..handles, NEW h \in Host, NEW peer \in Peer,
                        Live(h)', madeFor[handle] = <<birth'[h], peer>>
                 PROVE  hostPeers[h][peer] = handle
      BY DEF MadeIsFound
    <2>1. h # host
      BY DEF TypeOK, MadeForHosts
    <2> QED BY <2>1 DEF TypeOK, MadeIsFound
  <1>5. OneObjectPerPeer'
    BY DEF OneObjectPerPeer
  <1>6. FoundObjectIsOfThisHost'
    <2> SUFFICES ASSUME NEW h \in Host, NEW peer \in Peer, hostPeers[h][peer] # NoHandle
                 PROVE  madeFor[hostPeers[h][peer]] = <<birth'[h], peer>>
      BY DEF FoundObjectIsOfThisHost, Known
    <2>1. h # host
      BY DEF TypeOK, NoPeers
    <2> QED BY <2>1 DEF TypeOK, FoundObjectIsOfThisHost, Known
  <1> QED BY <1>1, <1>2, <1>3, <1>4, <1>5, <1>6 DEF IInv

\* peerOf makes an object only if the host has none for the peer.
LEMMA MakeHandleInv ==
    ASSUME IInv, NEW host \in Host, NEW peer \in Peer, MakeHandle(host, peer)
    PROVE  IInv'
  <1> USE PeerHandlesAssumption DEF IInv
  <1> DEFINE new == handles + 1
  <1>0. /\ new \in Handle /\ handles \in 0..MaxHandles
        /\ handles' = new
        /\ \A handle \in 1..handles : madeFor'[handle] = madeFor[handle] /\ handle # new
        /\ madeFor'[new] = <<birth[host], peer>>
        /\ \A h \in Host, p \in Peer :
              hostPeers'[h][p] = IF h = host /\ p = peer THEN new ELSE hostPeers[h][p]
        /\ UNCHANGED <<array, dying, hosts, birth>>
        /\ Live(host) /\ ~Known(host, peer)
    BY DEF TypeOK, MakeHandle, Handle, Live
  <1>1. TypeOK'
    <2>1. hostPeers' \in [Host -> [Peer -> 1..handles' \cup {NoHandle}]]
      BY <1>0 DEF TypeOK, MakeHandle
    <2>2. \A h \in Host : ~Live(h)' => hostPeers'[h] = NoPeers
      BY <1>0 DEF TypeOK, MakeHandle, Live
    <2>3. madeFor' \in [Handle -> (0..MaxHosts) \X (Peer \cup {NoHandle})]
      BY <1>0 DEF TypeOK, MakeHandle
    <2>4. handles' \in 0..MaxHandles
      BY <1>0 DEF Handle
    <2> QED BY <1>0, <2>1, <2>2, <2>3, <2>4 DEF TypeOK, Live
  <1>2. BirthsDiffer'
    BY <1>0 DEF BirthsDiffer, Live
  <1>3. MadeForHosts'
    BY <1>0 DEF MadeForHosts, BirthsDiffer, Handle
  <1>4. MadeIsFound'
    <2> SUFFICES ASSUME NEW handle \in 1..new, NEW h \in Host, NEW p \in Peer,
                        Live(h), madeFor'[handle] = <<birth[h], p>>
                 PROVE  hostPeers'[h][p] = handle
      BY <1>0 DEF MadeIsFound, Live
    <2>1. CASE handle = new
      BY <1>0, <2>1 DEF BirthsDiffer
    <2>2. CASE handle # new
      <3>1. handle \in 1..handles
        BY <1>0, <2>2
      <3>2. hostPeers[h][p] = handle
        BY <1>0, <3>1 DEF MadeIsFound
      <3>3. ~(h = host /\ p = peer)
        BY <1>0, <3>1, <3>2 DEF Known
      <3> QED BY <1>0, <3>2, <3>3
    <2> QED BY <2>1, <2>2
  <1>5. OneObjectPerPeer'
    <2>1. \A handle \in 1..handles : madeFor[handle] # <<birth[host], peer>>
      BY <1>0 DEF MadeIsFound, Known
    <2> QED BY <1>0, <2>1 DEF OneObjectPerPeer
  <1>6. FoundObjectIsOfThisHost'
    <2> SUFFICES ASSUME NEW h \in Host, NEW p \in Peer, hostPeers'[h][p] # NoHandle
                 PROVE  madeFor'[hostPeers'[h][p]] = <<birth[h], p>>
      BY <1>0 DEF FoundObjectIsOfThisHost, Known
    <2>1. CASE h = host /\ p = peer
      BY <1>0, <2>1
    <2>2. CASE ~(h = host /\ p = peer)
      <3>1. hostPeers'[h][p] = hostPeers[h][p]
        BY <1>0, <2>2
      <3>2. hostPeers[h][p] \in 1..handles
        BY <3>1 DEF TypeOK
      <3>3. madeFor[hostPeers[h][p]] = <<birth[h], p>>
        BY <3>1 DEF FoundObjectIsOfThisHost, Known
      <3> QED BY <1>0, <3>1, <3>2, <3>3
    <2> QED BY <2>1, <2>2
  <1> QED BY <1>1, <1>2, <1>3, <1>4, <1>5, <1>6 DEF IInv

LEMMA BeginDestroyInv ==
    ASSUME IInv, NEW host \in Host, BeginDestroy(host)
    PROVE  IInv'
  BY DEF IInv, BeginDestroy, TypeOK, BirthsDiffer, MadeForHosts, MadeIsFound,
         OneObjectPerPeer, FoundObjectIsOfThisHost, Live, Known

\* The objects of a destroyed host are found no more, all at once.
LEMMA EndDestroyInv ==
    ASSUME IInv, NEW host \in Host, EndDestroy(host)
    PROVE  IInv'
  <1> USE PeerHandlesAssumption DEF IInv, EndDestroy
  <1>1. TypeOK'
    BY DEF TypeOK, Live, NoPeers
  <1>2. BirthsDiffer' /\ MadeForHosts' /\ OneObjectPerPeer'
    BY DEF TypeOK, BirthsDiffer, MadeForHosts, OneObjectPerPeer, Live
  <1>3. MadeIsFound'
    BY DEF TypeOK, MadeIsFound, Live
  <1>4. FoundObjectIsOfThisHost'
    BY DEF TypeOK, FoundObjectIsOfThisHost, Known, NoPeers
  <1> QED BY <1>1, <1>2, <1>3, <1>4 DEF IInv

LEMMA Inductive == IInv /\ [Next]_vars => IInv'
  <1> SUFFICES ASSUME IInv, [Next]_vars PROVE IInv'
    OBVIOUS
  <1>1. CASE UNCHANGED vars
    BY <1>1 DEF vars, IInv, TypeOK, BirthsDiffer, MadeForHosts, MadeIsFound,
                OneObjectPerPeer, FoundObjectIsOfThisHost, Live, Known
  <1>2. CASE Next
    BY <1>2, CreateInv, MakeHandleInv, BeginDestroyInv, EndDestroyInv DEF Next
  <1> QED BY <1>1, <1>2

LEMMA Invariance == Spec => []IInv
  BY InitInv, Inductive, PTL DEF Spec

-----------------------------------------------------------------------------
\* The types of peer.ts' Map and of its history, for any number of hosts: the
\* Map has entries only for hosts that exist.
THEOREM Typing == Spec => []TypeOK
  BY Invariance, PTL DEF IInv

\* peer.ts 63: however hosts and peers are created, destroyed and created again
\* at the same pointers, a peer never has two objects.
THEOREM OneObject == Spec => []OneObjectPerPeer
  BY Invariance, PTL DEF IInv

\* peer.ts 70-88: the object found was made for this host and peer, which is
\* what keeps peer.data from passing to another connection's host.
THEOREM OfThisHost == Spec => []FoundObjectIsOfThisHost
  BY Invariance, PTL DEF IInv
=============================================================================
