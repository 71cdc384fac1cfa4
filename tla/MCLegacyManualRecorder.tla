----------------------- MODULE MCLegacyManualRecorder -----------------------
(* LegacyManualRecorder for TLC.                                           *)
EXTENDS LegacyManualRecorder, TLC

Symmetry == Permutations(Spans)
=============================================================================
