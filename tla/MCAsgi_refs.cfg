CONSTANTS
  MaxTokens = 2
  MaxRead = 2
  MaxSends = 3
  AllowKeepalive = TRUE
  ReadReqTimeout = TRUE
  CurrReqTimeout = TRUE
  NextReqTimeout = TRUE
  PeerTokens <- Requests
  Habits <- Plain
SPECIFICATION Spec
INVARIANT
  ReleasedLikeAsgiFree
CHECK_DEADLOCK FALSE
