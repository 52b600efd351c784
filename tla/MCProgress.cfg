SPECIFICATION MCSpec
CONSTANTS
  Ram = {}
  ReadData <- MCReadData
  InitialRam = {0}
  CallbackRequests <- MCCallbackRequests
  HostRequests = {"reset"}
  HostPCs = {}
  Ending = 76
  RequestSPs = {1, 254}
INVARIANTS
  NmiWithinSevenTicks
PROPERTIES
  ImplementsFairSequencer
  InstructionsEnd
  NmiServedOnceResetsStop
