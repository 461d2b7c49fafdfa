CONSTANTS
  NoClient = NoClient
  Clients = {c1, c2}
  MaxTokens = 1
  MaxRead = 1
  MaxBody = 2
  AllowKeepalive = TRUE
  ReadReqTimeout = TRUE
  CurrReqTimeout = TRUE
  NextReqTimeout = TRUE
  ShortBodies = FALSE
  RaisingBodies = TRUE
  CloselessBodies = TRUE
  PeerTokens <- PlainTokens
SPECIFICATION Spec
INVARIANT
  FaultIsOwn
