SPECIFICATION Spec
CONSTANTS
  None = None
  Ticker = Ticker
  Camera = {c1}
  EventId = {1}
  Zones <- MCZones
  Policies <- MCPolicies
  Cascades <- MCCascades
  Batches <- MCFewBatches
  CloseAfterAbsent = 0
  SnapshotRetryAfter = 1
  SnapshotMaxAttempts = 2
  MaxNow = 1
  MaxFaults = 0
  MaxRestarts = 0
CONSTANTS
  c1 = c1
PROPERTIES
  SnapshotsAreThrottled
