\* A client and two services, eight configurations, one fault.
CONSTANTS
  ModeLists <- Lists
  BaggageKey = "user"
  State = "vendor"
  Corrupt = Corrupt
  Missing = Missing
  MaxHops = 2
  MaxFaults = 1
SPECIFICATION PropagationSpec
CHECK_DEADLOCK FALSE
INVARIANTS ExtractUndoesInject FromOneSpan OneTrace
