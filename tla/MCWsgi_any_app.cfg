CONSTANTS
  NoClient = NoClient
  Clients = {c1}
  MaxTokens = 4
  MaxRead = 3
  MaxBody = 3
  AllowKeepalive = TRUE
  ReadReqTimeout = TRUE
  CurrReqTimeout = TRUE
  NextReqTimeout = TRUE
  ShortBodies = TRUE
  RaisingBodies = TRUE
  CloselessBodies = TRUE
  PeerTokens <- AllTokens
SPECIFICATION Spec
INVARIANTS
  TypeOK
  ParserInSync
  OneWriteInFlight
  DeafWhileResponding
  NeverStuck
  AnswersMatchRequests
