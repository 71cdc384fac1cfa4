\* Two callers, one span, one fork.
SPECIFICATION FairSpec
CONSTANTS
  c1 = c1
  c2 = c2
  Callers = {c1, c2}
  MaxSize = 1
  EarlyFlush = 0
  MaxSpans = 1
  MaxForks = 1
  Free = Free
INVARIANTS
  IndInv
PROPERTIES
  FlushTruth
  ShutdownTruthUnforked
  CallsReturn
