------------------------------- MODULE MCSpans -------------------------------
EXTENDS Spans, TLC

CONSTANTS t1, t2, v1, v2

Symmetry == Permutations(Threads) \cup Permutations(Values)
=============================================================================
