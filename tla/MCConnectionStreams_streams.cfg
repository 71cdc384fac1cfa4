\* Two connections, three spans of two fragments, every cut of every write;
\* a call of writev takes two fragments, so a write may fail after a part.
SPECIFICATION StreamsSpec
CONSTANTS
  c1 = c1
  c2 = c2
  Connections = {c1, c2}
  MaxSize = 2
  MaxSpans = 3
  SpanFragments = 2
  FragmentSize = 2
  IoVecMax = 2
  None = None
SYMMETRY Symmetry
INVARIANTS
  Consistent
  WellFormedUnlessInterrupted
  AccountedOnce
  SentAreReceived
  DropsConserved
  WireInOrder
