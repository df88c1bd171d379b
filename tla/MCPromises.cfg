SPECIFICATION FairSpec
CONSTANTS
  Scenarios <- PromiseScenarios
  ClientGuestId <- UpTo8
  ServerGuestId <- NoServerIds
  ServerBase = 100
  Interface <- Interfaces
  ClientHostId <- UpTo9
  ServerHostId <- NoServerIds
  Value = {1}
  Buttons = {}
  Cached = {FALSE}
  KnownAppIds = {}
  BinaryAppId = 0
  MaxGeneration = 2
  MaxPlanes = 0
  DiesInRecovery = FALSE
  WaitTraffic = FALSE
INVARIANTS PromisesTracked BusyTracked
PROPERTIES CallbacksAnswered LostBuffersReleased
CHECK_DEADLOCK FALSE
