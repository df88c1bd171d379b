SPECIFICATION Spec
CONSTANTS
  Scenarios <- Conversations
  Signature <- MCSignature
  Opcode <- MCOpcode
  ProxyId <- MCProxyId
  CacheableMime <- MCCacheable
  Cached <- MCCacheable
  Capacity = 3
  TeeMayFail = FALSE
  WriteMayBeCut = FALSE
INVARIANT FdsAreOwn
CHECK_DEADLOCK FALSE
