\* Two threads, five spans, a buffer of two, two reports alive at a time.
SPECIFICATION Spec
CONSTANTS
  t1 = t1
  t2 = t2
  s1 = s1
  s2 = s2
  s3 = s3
  s4 = s4
  s5 = s5
  r1 = r1
  r2 = r2
  Threads = {t1, t2}
  Spans = {s1, s2, s3, s4, s5}
  Reports = {r1, r2}
  NoSpan = NoSpan
  NoReport = NoReport
  MaxBufferedSpans = 2
SYMMETRY Symmetry
INVARIANTS
  IndInv
  DropsConserved
PROPERTIES
  FlushMakesRoom
