CONSTANTS
  MaxTokens = 3
  MaxRead = 2
  AllowKeepalive = TRUE
  ReadReqTimeout = TRUE
  CurrReqTimeout = TRUE
  NextReqTimeout = TRUE
  PeerTokens <- Requests
  Eager <- Either
SPECIFICATION FairSpec
INVARIANTS
  TypeOK
  PlaintextInOrder
  RecordsInOrder
  DeafWhileResponding
  NothingLeftBehind
  NeverStuck
PROPERTIES
  KeepsExchanges
  SilentPeerIsDropped
CHECK_DEADLOCK FALSE
