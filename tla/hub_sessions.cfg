SPECIFICATION Spec
CONSTANTS
  Clients = {c1, c2}
  CameraCount = 2
  FramesPerTrigger = 1
  MaxPublications = 2
  CaptureIds = {0, 1}
  AsyncModes = {TRUE, FALSE}
  RecModes = {FALSE}
  OversizeCameras = {}
  SerialMayFail = TRUE
  MayDisconnect = TRUE
  PromptCameras = FALSE
  UniqueIds = FALSE
  MaxShots = 3
  MaxLost = 0
  SlotCount = 3
  NoPayload = NoPayload
SYMMETRY ClientSymmetry
INVARIANTS
  TypeOK
  ArmedIsServiceable
  NoCompleteBurstWaits
  SeqIdentifiesPayload
  LatestIntact
PROPERTY
  GateSpec
