SPECIFICATION FairSpec
CONSTANTS
  None = None
  Ticker = Ticker
  Camera = {c1, c2}
  EventId = {1}
  Zones <- MCZones
  Policies <- MCPolicies
  Cascades <- MCCascades
  Batches <- MCFewBatches
  CloseAfterAbsent = 0
  SnapshotRetryAfter = 1
  SnapshotMaxAttempts = 1
  MaxNow = 1
  MaxFaults = 1
  MaxRestarts = 1
CONSTANTS
  c1 = c1
  c2 = c2
INVARIANTS
  TypeOK
PROPERTIES
  OverdueEventsClose
