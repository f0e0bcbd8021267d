SPECIFICATION FairSpec
CONSTANTS
  Forever = Forever
  Camera = {1}
  CameraLimits <- MCCameraLimits
  SizeOf <- MCUnitSize
  DiskBytes = 3
  PressureFree = 2
  TargetFree = 3
  Lane = {l1}
  Spans <- MCFewSpans
  MinAge = 1
  MaxNow = 3
  MaxRestarts = 1
  MaxFaults = 1
INVARIANTS
  TypeOK
PROPERTIES
  RowsOutliveFiles
  ScanLeavesNoOrphan
  ExpiredFootageGoes
