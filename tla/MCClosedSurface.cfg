SPECIFICATION Spec
CONSTANTS
  Scenarios <- ClosedSurfaceScenarios
  ClientGuestId <- UpTo10
  ServerGuestId <- NoServerIds
  ServerBase = 100
  Interface <- Interfaces
  ClientHostId <- UpTo16
  ServerHostId <- NoServerIds
  Value = {}
  Buttons = {1}
  Cached = {TRUE, FALSE}
  KnownAppIds = {}
  BinaryAppId = 0
  MaxGeneration = 2
  MaxPlanes = 0
  DiesInRecovery = FALSE
  WaitTraffic = FALSE
INVARIANT LeavesNameHeldSurfaces
CHECK_DEADLOCK FALSE
