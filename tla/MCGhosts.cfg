SPECIFICATION Spec
CONSTANTS
  Scenarios <- GhostScenarios
  ClientGuestId <- UpTo7
  ServerGuestId <- NoServerIds
  ServerBase = 100
  Interface <- Interfaces
  ClientHostId <- UpTo9
  ServerHostId <- NoServerIds
  Value = {}
  Buttons = {}
  Cached = {FALSE}
  KnownAppIds = {}
  BinaryAppId = 0
  MaxGeneration = 2
  MaxPlanes = 0
  DiesInRecovery = TRUE
  WaitTraffic = FALSE
INVARIANT NoGhosts
CHECK_DEADLOCK FALSE
