SPECIFICATION Spec
CONSTANTS
  Scenarios <- WindowScenarios
  ClientGuestId <- UpTo10
  ServerGuestId <- NoServerIds
  ServerBase = 100
  Interface <- Interfaces
  ClientHostId <- UpTo16
  ServerHostId <- NoServerIds
  Value = {1, 2}
  Buttons = {1}
  Cached = {TRUE, FALSE}
  KnownAppIds = {1}
  BinaryAppId = 1
  MaxGeneration = 2
  MaxPlanes = 0
  DiesInRecovery = TRUE
  WaitTraffic = FALSE
INVARIANTS TypeOK SameShape NothingLeftBehind SameAttributes SameGrabs SourceIsOwn
CHECK_DEADLOCK FALSE
