--------------------------- MODULE MCCompressors ---------------------------
(* Compressors for TLC: hosts are interchangeable, and so are compressors.  *)
EXTENDS Compressors, TLC

Symmetry == Permutations(Host) \cup Permutations(Compressor)
=============================================================================
