\* Five spans, a limit that moves between zero and three.
SPECIFICATION Spec
CONSTANTS
  s1 = s1
  s2 = s2
  s3 = s3
  s4 = s4
  s5 = s5
  Spans = {s1, s2, s3, s4, s5}
  Limits = {0, 1, 2, 3}
SYMMETRY Symmetry
INVARIANTS
  IndInv
PROPERTIES
  StaysFlushed
