\* One to three spans of up to five bytes in blocks of seven; a varint
\* takes one to three bytes, so headers are of every size.
SPECIFICATION FragmentsSpec
CONSTANTS
  BlockSize = 7
  ChunkHeader = 2
  HeaderSizes <- HostAndMetrics
  VarintSize <- Digit
  MaxBody = 5
  MaxSpans = 3
INVARIANTS
  UnwrittenIsLeft
  FragmentsCounted
CHECK_DEADLOCK FALSE
