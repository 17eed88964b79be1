---------------------------- MODULE MCPacketFree ----------------------------
(* PacketFree for TLC: packets are interchangeable, and so are handlers.    *)
EXTENDS PacketFree, TLC

Symmetry == Permutations(Packet) \cup Permutations(Handler)
=============================================================================
