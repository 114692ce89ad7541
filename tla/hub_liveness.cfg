SPECIFICATION FairSpec
CONSTANTS
  Clients = {c1, c2}
  CameraCount = 2
  FramesPerTrigger = 1
  MaxPublications = 2
  CaptureIds = {1, 2}
  AsyncModes = {TRUE, FALSE}
  RecModes = {FALSE}
  OversizeCameras = {}
  SerialMayFail = FALSE
  MayDisconnect = TRUE
  PromptCameras = FALSE
  UniqueIds = TRUE
  MaxShots = 2
  MaxLost = 1
  SlotCount = 4
  NoPayload = NoPayload

PROPERTY
  SyncCaptureReturns
