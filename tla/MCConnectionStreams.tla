------------------------ MODULE MCConnectionStreams ------------------------
(* ConnectionStreams for TLC.                                              *)
EXTENDS ConnectionStreams, TLC

Symmetry == Permutations(Connections)
=============================================================================
