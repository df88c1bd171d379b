SPECIFICATION ProxySpec
CONSTANTS
  Scenarios <- ObjectScenarios
  ClientGuestId <- UpTo10
  ServerGuestId <- OfferServerGuests
  ServerBase = 100
  Interface <- ObjectInterfaces
  ClientHostId <- UpTo13
  ServerHostId <- OfferServerHosts
  Value = {}
  Buttons = {}
  Cached = {TRUE}
  KnownAppIds = {}
  BinaryAppId = 0
  MaxGeneration = 2
  MaxPlanes = 2
  DiesInRecovery = TRUE
  WaitTraffic = TRUE
INVARIANTS SameSignature DeletedIdsAreDead SameShape SameAttributes NothingLeftBehind
PROPERTIES TranslatesIds RecoveryEnds
CHECK_DEADLOCK FALSE
