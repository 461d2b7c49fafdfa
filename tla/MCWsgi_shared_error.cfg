CONSTANTS
  NoClient = NoClient
  Clients = {c1, c2}
  MaxTokens = 2
  MaxRead = 2
  MaxBody = 2
  AllowKeepalive = TRUE
  ReadReqTimeout = TRUE
  CurrReqTimeout = TRUE
  NextReqTimeout = TRUE
  ShortBodies = TRUE
  RaisingBodies = TRUE
  CloselessBodies = TRUE
  PeerTokens <- FewTokens
SPECIFICATION Spec
SYMMETRY Symmetry
INVARIANT
  ErrorAnswersStandAlone
