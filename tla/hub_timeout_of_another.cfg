SPECIFICATION Spec
CONSTANTS
  Clients = {c1, c2}
  CameraCount = 2
  FramesPerTrigger = 1
  MaxPublications = 3
  CaptureIds = {1, 2, 3}
  AsyncModes = {FALSE}
  RecModes = {FALSE}
  OversizeCameras = {}
  SerialMayFail = FALSE
  MayDisconnect = FALSE
  PromptCameras = TRUE
  UniqueIds = TRUE
  MaxShots = 3
  MaxLost = 1
  SlotCount = 4
  NoPayload = NoPayload

INVARIANT
  TimeoutMeansNoFrames
