CONSTANTS
  MaxPreloaded = 1
  MaxChunkSize = 3
  MaxBody = 8
  Sources <- Bodies
SPECIFICATION Spec
INVARIANTS
  TypeOK
  BuffersFit
  SentInOrder
  KeptOnlyWhole
  SoundBodiesAreSent
PROPERTIES
  CoveredByWsgiConnection
CHECK_DEADLOCK FALSE
