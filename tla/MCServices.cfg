SPECIFICATION ServicesSpec
CONSTANTS
  r1 = r1
  r2 = r2
  hook = hook
  app = app
  Rule = {r1, r2}
  Channel = {hook, app}
  Subscription <- MCSubscription
  Wants <- MCWants
  ChannelsOf <- MCChannelsOf
  Attempts <- MCAttempts
  WebPush = {app}
  ClientSets <- MCClientSets
  MaxQueue = 2
  MaxEmits = 3
  MaxBreaks = 1
  ExportId = {e1, e2}
  KeepFor = 1
  MaxNow = 2
  Hour = {h1, h2}
  Viewer = {v1, v2}
  Id = {porch, gate}
  FileId = {gate}
  Payload = {old, new}
  Call = {a}
  InFlight = 1
  BootModes = {"workers", "degraded"}
  MaxGeneration = 2
  KeyCall = {k1, k2}
  Browser = {b1, b2}
  Box = {"left", "middle", "right"}
  Overlap <- MCOverlap
  MaxDetections = 2
  MaxTracks = 3
  MaxAge = 1
  User = {anna}
  Session = {s1}
  ApiToken = {t1}
  Scope = {"admin", "streams"}
  Visit = {x, y}
  MaxFailures = 1
  Cpu = cpu
  Provider = {cpu, cuda, coreml}
  Preferred = {cpu, cuda}
  Cam = {"lens", "cam"}
  AdapterOf <- MCAdapterOf
  HasSub <- MCHasSub
  Syntax <- MCSyntax
  Pixels = {1, 2}
  MaxProfiles = 2
  HasUser = TRUE
INVARIANTS
  ServicesTypeOK
  NothingVanishes
  BrokerInStep
  OneLossPerBreak
  ClientMissesNothing
  ServedMediaIsWhole
  CaptureFollowsTheStore
  KeysAreStable
  EndedIsRefused
  RunsThePinnedModel
  ReportsWhatHappened
  StreamsServedOrSkipped
PROPERTIES
  HeardInOrder
  RulesCatchUp
  BridgeRecovers
  ExportsSettle
  OneTrackEach
CHECK_DEADLOCK FALSE
