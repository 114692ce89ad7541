SPECIFICATION FairSpec
CONSTANTS
  Clients = {c1}
  CameraCount = 2
  FramesPerTrigger = 1
  MaxPublications = 2
  CaptureIds = {1, 2, 3}
  AsyncModes = {TRUE, FALSE}
  RecModes = {TRUE, FALSE}
  OversizeCameras = {2}
  SerialMayFail = TRUE
  MayDisconnect = FALSE
  PromptCameras = TRUE
  UniqueIds = TRUE
  MaxShots = 3
  MaxLost = 1
  SlotCount = 4
  NoPayload = NoPayload
INVARIANT
  TimeoutMeansNoFrames
PROPERTIES
  NoInternalInconsistency
  AcceptedCaptureIsPublished
