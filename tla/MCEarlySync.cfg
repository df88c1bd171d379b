SPECIFICATION FairSpec
CONSTANTS
  Scenarios <- EarlySyncScenarios
  ClientGuestId <- UpTo6
  ServerGuestId <- NoServerIds
  ServerBase = 100
  Interface <- Interfaces
  ClientHostId <- UpTo9
  ServerHostId <- NoServerIds
  Value = {}
  Buttons = {}
  Cached = {FALSE}
  KnownAppIds = {}
  BinaryAppId = 0
  MaxGeneration = 2
  MaxPlanes = 0
  DiesInRecovery = FALSE
  WaitTraffic = FALSE
PROPERTY CallbacksAnswered
CHECK_DEADLOCK FALSE
