SPECIFICATION Spec
CONSTANTS
  Scenarios <- StaleFrameScenarios
  ClientGuestId <- UpTo6
  ServerGuestId <- NoServerIds
  ServerBase = 100
  Interface <- Interfaces
  ClientHostId <- UpTo9
  ServerHostId <- NoServerIds
  Value = {1}
  Buttons = {}
  Cached = {FALSE}
  KnownAppIds = {}
  BinaryAppId = 0
  MaxGeneration = 2
  MaxPlanes = 0
  DiesInRecovery = TRUE
  WaitTraffic = FALSE
INVARIANT DeletedIdsAreDead
CHECK_DEADLOCK FALSE
