SPECIFICATION MCSpec
CONSTANTS
  Ram = {}
  ReadData <- MCReadData
  InitialRam = {0}
  CallbackRequests <- MCCallbackRequests
  HostRequests = {"reset", "nmi"}
  HostPCs = {767}
  MaxFetches = 2
  MaxRequests = 2
  CodeBytes = {64, 254, 155, 208}
  DataBytes = {2}
INVARIANTS
  TypeOK
  NoNullDispatch
  CleanBoundary
  AddressesAgree
PROPERTIES
  RequestsAreLatched
  NmiNotLost
  ResetCompletes
  ImplementsSequencer
