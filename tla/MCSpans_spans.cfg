\* Two threads; a Span, a LegacySpan and a context from another process.
CONSTANTS
  t1 = t1
  t2 = t2
  v1 = v1
  v2 = v2
  Threads = {t1, t2}
  Spans = {"span", "legacy"}
  Legacy = {"legacy"}
  Remotes = {"remote"}
  Keys = {"key"}
  Values = {v1, v2}
  None = "none"
  MaxWrites = 1
  MaxReferences = 2
SYMMETRY Symmetry
SPECIFICATION Spec
CHECK_DEADLOCK FALSE
INVARIANTS IndInv ReportsAreFaithful Inherits OneDecision
