\* Two callers, three spans, a limit that changes between one and two.
SPECIFICATION FairSpec
CONSTANTS
  c1 = c1
  c2 = c2
  Callers = {c1, c2}
  Limits = {1, 2}
  MaxSpans = 3
INVARIANTS
  IndInv
  DropsConserved
PROPERTIES
  FlushTruth
  CallsReturn
