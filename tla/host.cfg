CONSTANTS
  Documents <- MCDocuments
  Builds = {"galaxy", "stub", "none"}
  Requests <- MCRequests
  MaxFaults = 2
SPECIFICATION Spec
INVARIANTS TypeOK ReadyCamerasDeliver TornDownIsSilent FailedStartHoldsNothing AcknowledgedEverywhere
PROPERTY ServiceSpec
