\* Two connects that share a cell, then their shutdowns.
SPECIFICATION FairSpec
CONSTANTS
  Callers = {c1, c2}
  NoCaller = NoCaller
  Acks = {a1}
  Disconnect = Disconnect
  Capacity = 2
INVARIANTS
  OneTask
  ReasonGiven
  WakeUpsReach
  AcksFlushed
PROPERTIES
  ConnectsReturn
  FailedConnectsStop
  ShutdownsReturn
CHECK_DEADLOCK FALSE
