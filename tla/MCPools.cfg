SPECIFICATION FairSpec
CONSTANTS
  Scenarios <- PoolScenarios
  ClientGuestId <- UpTo7
  ServerGuestId <- NoServerIds
  ServerBase = 100
  Interface <- Interfaces
  ClientHostId <- UpTo8
  ServerHostId <- NoServerIds
  Value = {1}
  Buttons = {}
  Cached = {FALSE}
  KnownAppIds = {}
  BinaryAppId = 0
  MaxGeneration = 1
  MaxPlanes = 0
  DiesInRecovery = FALSE
  WaitTraffic = FALSE
PROPERTY LostBuffersReleased
CHECK_DEADLOCK FALSE
