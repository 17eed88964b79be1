--------------------------- MODULE MCPeerHandles ---------------------------
(* PeerHandles for TLC: pointers are interchangeable.                       *)
EXTENDS PeerHandles, TLC

Symmetry == Permutations(Host) \cup Permutations(Array) \cup Permutations(Slot)
=============================================================================
