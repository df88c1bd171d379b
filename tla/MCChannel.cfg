SPECIFICATION FairSpec
CONSTANTS
  Scenarios <- Conversations
  Signature <- MCSignature
  Opcode <- MCOpcode
  ProxyId <- MCProxyId
  CacheableMime <- MCCacheable
  Cached <- MCCacheable
  Capacity = 3
  TeeMayFail = TRUE
  WriteMayBeCut = TRUE
INVARIANTS TypeOK Faithful FdsFollow FdsAccounted LeftOnlyByWaits EncodedIsWalked
PROPERTY AllTaken
CHECK_DEADLOCK FALSE
