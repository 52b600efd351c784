SPECIFICATION MCSpec
CONSTANTS
  Ram <- MCRam
  ReadData <- MCReadData
  InitialRam = {0}
  CallbackRequests <- MCCallbackRequests
  HostRequests = {"reset"}
  HostPCs = {}
  MaxRequests = 2
  StartSPs = {5}
PROPERTIES
  PullsRestore
