SPECIFICATION MCSpec
CONSTANTS
  Ram <- MCRam
  ReadData <- MCReadData
  InitialRam = {240, 224}
  CallbackRequests <- MCCallbackRequests
  HostRequests = {"reset", "nmi"}
  HostPCs = {}
  Rom <- MCRom
  MaxReturns = 6
  MaxLoneTicks = 1
  MaxRequests = 2
  MaxCycles = 30
PROPERTIES
  StepReturnsItsCycles
  StepReturns
