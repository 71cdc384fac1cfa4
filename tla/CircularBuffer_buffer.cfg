\* Two threads are enough for every race between producers; with five
\* insertions head goes round the array of three slots.
SPECIFICATION FairSpec
CONSTANTS
  p1 = p1
  p2 = p2
  e1 = e1
  e2 = e2
  e3 = e3
  Producers = {p1, p2}
  Elements = {e1, e2, e3}
  Null = Null
  MaxSize = 2
  MaxHead = 4
INVARIANTS
  IndInv
PROPERTIES
  PublishedStable
  ImplementsQueue
  AddsProgress
