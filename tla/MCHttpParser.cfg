CONSTANTS
  Messages <- AllMessages
  Uris = {"/"}
  MaxMessages = 2
  MaxChunks = 1
SPECIFICATION FairSpec
CHECK_DEADLOCK FALSE
INVARIANTS
  RequestsAsSent
  PlainAccepted
  BodyFromOwnConnection
PROPERTY
  PlainServed
