CONSTANTS
  SlotCount = 3
  NoPayload = NoPayload
  Torn = Torn
  CameraThreads = {c1, c2}
  GrpcThreads = {g1}
  FramesPerBurst = 2
  CaptureIds = {1, 2}
  RecModes = {TRUE, FALSE}
  SessionIds = {1, 2}
  MaxBursts = 2
  MaxStarts = 2
  MaxSaveFailures = 1
  Handlers = {h1, h2}
  Setups <- MCSetups
SPECIFICATION FairSpec
INVARIANTS
  TypeOK
  SavedOnce
  CheckedFrameIsRight
  EchoIsOwn
PROPERTIES
  ReadWithinGraceIsRight
  WatcherCatchesUp
  PollerReachesLargestSeq
CHECK_DEADLOCK FALSE
