CONSTANTS
  NoClient = NoClient
  Clients = {c1}
  MaxTokens = 3
  MaxRead = 2
  MaxBody = 2
  AllowKeepalive = TRUE
  ReadReqTimeout = TRUE
  CurrReqTimeout = TRUE
  NextReqTimeout = TRUE
  ShortBodies = FALSE
  RaisingBodies = TRUE
  CloselessBodies = FALSE
  PeerTokens <- PlainTokens
SPECIFICATION FairSpec
PROPERTIES
  EndsExchanges
  RequestsAreServed
  SilentPeerIsDropped
