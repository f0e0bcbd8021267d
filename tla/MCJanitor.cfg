SPECIFICATION JanitorSpec
CONSTANTS
  Forever = Forever
  Camera = {1, 2}
  CameraLimits <- MCShortLimits
  SizeOf <- MCSizeOf
  DiskBytes = 5
  PressureFree = 3
  TargetFree = 4
  Lane = {l1, l2}
  Spans <- MCTwoSlots
  MinAge = 1
  MaxNow = 3
  MaxRestarts = 2
  MaxFaults = 1
  Inputs <- MCInputs
  LimitChoices <- MCLimitChoices
  MaxBytesToFree = 4
  Now = 4
INVARIANTS
  RowsHaveFiles
  PlanIsTheClosedForm
  OldestContinuousGoesFirst
  FreesJustEnough
PROPERTIES
  SparesEvidence
  EvidenceNeverReverts
  PressureRestoresTarget
  PressureTakesOldestOfAll
