SPECIFICATION RuntimeSpec
CONSTANTS
  Id = {porch}
  FileId = {}
  Payload = {v1}
  Call = {a, b}
  InFlight = 1
  BootModes = {"degraded"}
  MaxGeneration = 2
INVARIANTS
  HoldersStayWarm
CHECK_DEADLOCK FALSE
