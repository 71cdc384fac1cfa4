\* Expected to be violated: a span cut by a failed write is not counted.
SPECIFICATION StreamsSpec
CONSTANTS
  c1 = c1
  c2 = c2
  Connections = {c1, c2}
  MaxSize = 2
  MaxSpans = 3
  SpanFragments = 2
  FragmentSize = 2
  IoVecMax = 2
  None = None
SYMMETRY Symmetry
INVARIANTS
  EverySpanAccounted
