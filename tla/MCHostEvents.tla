---------------------------- MODULE MCHostEvents ----------------------------
(* HostEvents for TLC: hosts are interchangeable, and so are the events that *)
(* carry a packet and those that do not.                                    *)
EXTENDS HostEvents, TLC

Symmetry ==
    Permutations(Host) \cup Permutations(Receive) \cup Permutations(Event \ Receive)
=============================================================================
