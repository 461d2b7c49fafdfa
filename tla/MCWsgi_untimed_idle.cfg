CONSTANTS
  NoClient = NoClient
  Clients = {c1}
  MaxTokens = 2
  MaxRead = 2
  MaxBody = 2
  AllowKeepalive = TRUE
  ReadReqTimeout = TRUE
  CurrReqTimeout = TRUE
  NextReqTimeout = TRUE
  ShortBodies = TRUE
  RaisingBodies = FALSE
  CloselessBodies = FALSE
  PeerTokens <- PlainTokens
SPECIFICATION Spec
INVARIANT
  IdleIsTimed
