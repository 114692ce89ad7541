SPECIFICATION Spec
CONSTANTS
  Clients = {c1, c2}
  CameraCount = 2
  FramesPerTrigger = 2
  MaxPublications = 2
  CaptureIds = {1, 2, 3}
  AsyncModes = {TRUE, FALSE}
  RecModes = {TRUE, FALSE}
  OversizeCameras = {}
  SerialMayFail = FALSE
  MayDisconnect = TRUE
  PromptCameras = TRUE
  UniqueIds = TRUE
  MaxShots = 3
  MaxLost = 1
  SlotCount = 9
  NoPayload = NoPayload
SYMMETRY ClientSymmetry
INVARIANTS
  BurstIsOwn
  LruExact
  SyncOkIsOwnBurst
