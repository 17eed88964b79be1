--------------------------- MODULE MCHostCallbacks ---------------------------
(* HostCallbacks for TLC: hosts, slots and handlers are interchangeable.    *)
EXTENDS HostCallbacks, TLC

Symmetry == Permutations(Host) \cup Permutations(Slot) \cup Permutations(Handler)
=============================================================================
