SPECIFICATION FairSpec
CONSTANTS
  Plans <- MCPlans
  Short = Short
  Long = Long
  Text = Text
  c1 = c1
  c2 = c2
  Client <- MCClient
  Transfer <- MCTransfer
  Mime <- MCMime
  mime_of <- MCMimeOf
  owner <- MCOwner
  Length <- MCLength
  BufferLen = 2
  MAX_CACHED_BYTES = 2
INVARIANTS TypeOK NoBypass PrivateIsShells NothingLeftStopped CachedIsWhole NotOlder
PROPERTIES PublicComesBack AllForwarded
CHECK_DEADLOCK FALSE
