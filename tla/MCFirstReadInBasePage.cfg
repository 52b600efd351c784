SPECIFICATION MCSpec
CONSTANTS
  Ram <- MCRam
  ReadData <- MCReadData
  InitialRam = {0}
  CallbackRequests <- MCCallbackRequests
  HostRequests = {"reset", "nmi"}
  HostPCs = {}
  Rom <- MCRom
  MaxBoundaries = 4
  MaxNmis = 1
PROPERTY FirstReadInBasePage
