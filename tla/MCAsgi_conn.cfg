CONSTANTS
  MaxTokens = 3
  MaxRead = 2
  MaxSends = 3
  AllowKeepalive = TRUE
  ReadReqTimeout = TRUE
  CurrReqTimeout = TRUE
  NextReqTimeout = TRUE
  PeerTokens <- Requests
  Habits <- EachHabit
SPECIFICATION FairSpec
INVARIANTS
  TypeOK
  OneWriteInFlight
  AwaitedSendIsUnderWay
  NeverOrphanedUntold
  NeverStuck
PROPERTIES
  FramedWhole
  KeepsExchanges
  RequestsAreServed
CHECK_DEADLOCK FALSE
