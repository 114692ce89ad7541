CONSTANTS
  BytesPerFrame = 2
  Commands <- MCCommands
  MaxCommands = 2
  MaxReadFaults = 1
  FramesPerFlash = 1
  MaxVendorFaults = 1
SPECIFICATION FairSpec
INVARIANTS
  TypeOK
  CleanSuccessIsOwn
  NoCallAfterReturn
PROPERTIES
  BacklogNeverShrinks
  ExchangeEnds
  CaptureReturns
