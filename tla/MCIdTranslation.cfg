SPECIFICATION Spec
CONSTANTS
  ClientGuestId <- MCClientGuestId
  ServerGuestId <- MCServerGuestId
  ClientHostId <- MCClientHostId
  ServerHostId <- MCServerHostId
  ServerBase = 100
  Interface = {"wl_display"}
  MaxGeneration = 2
INVARIANTS TypeOK TranslationSound Gapless PrivateUntracked FreeIdsUntranslatable
CHECK_DEADLOCK FALSE
