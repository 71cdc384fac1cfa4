\* The periods keep the order of their defaults (1s, 5s, 5s, 5s to 7s).
SPECIFICATION FairSpec
CONSTANTS
  RetryPeriod = 1
  WriteTimeout = 5
  GracefulTimeout = 5
  MinReconnect = 5
  MaxReconnect = 7
INVARIANTS
  IndInv
  SessionBounded
PROPERTIES
  Reconnects
  ShutdownEnds
