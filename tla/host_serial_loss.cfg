CONSTANTS
  Documents <- MCDocuments
  Builds = {"galaxy"}
  Requests = {}
  MaxFaults = 0
SPECIFICATION Spec
PROPERTY LossIsReported
CHECK_DEADLOCK FALSE
