SPECIFICATION Spec
CONSTANTS
  Forever = Forever
  Camera = {1}
  CameraLimits <- MCCameraLimits
  SizeOf <- MCUnitSize
  DiskBytes = 3
  PressureFree = 0
  TargetFree = 0
  Lane = {l1, l2}
  Spans <- MCFewSpans
  MinAge = 1
  MaxNow = 3
  MaxRestarts = 2
  MaxFaults = 1
PROPERTIES
  NoWriterRaces
