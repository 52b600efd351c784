SPECIFICATION MCSpec
CONSTANTS
  Ram = {}
  ReadData <- MCReadData
  InitialRam = {0}
  CallbackRequests <- MCCallbackRequests
  HostRequests = {"reset"}
  HostPCs = {}
  Ending = 2
  RequestSPs = {1, 254}
PROPERTY ResetServed
