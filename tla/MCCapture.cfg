SPECIFICATION CaptureSpec
CONSTANTS
  Camera = {c1}
  Setups <- MCSetups
  InitialBackoff = 1
  MainsBackoffMax = 2
  BackoffMax = 3
  StallBackoffMax = 4
  RepeatBackoffMax = 4
INVARIANTS
  CaptureTypeOK
  BackoffJustified
  NoOrphans
PROPERTIES
  RecordingResumes
  DetectionResumes
  RecorderStopEnds
CHECK_DEADLOCK FALSE
