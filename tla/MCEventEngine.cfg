SPECIFICATION Spec
CONSTANTS
  None = None
  Ticker = Ticker
  Camera = {c1, c2}
  EventId = {1, 2}
  Zones <- MCZones
  Policies <- MCPolicies
  Cascades <- MCCascades
  Batches <- MCBatches
  CloseAfterAbsent = 0
  SnapshotRetryAfter = 1
  SnapshotMaxAttempts = 2
  MaxNow = 1
  MaxFaults = 0
  MaxRestarts = 0
CONSTANTS
  c1 = c1
  c2 = c2
SYMMETRY CameraSymmetry
INVARIANTS
  DismissedCostsNothing
  ToldInFull
PROPERTIES
  KeepsEventLife
