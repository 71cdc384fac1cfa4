-------------------------- MODULE MCManualRecorder --------------------------
(* ManualRecorder for TLC.                                                 *)
EXTENDS ManualRecorder, TLC

Symmetry ==
  Permutations(Threads) \cup Permutations(Spans) \cup Permutations(Reports)
=============================================================================
