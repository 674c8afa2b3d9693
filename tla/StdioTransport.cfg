SPECIFICATION Spec
CONSTANTS
  Callers = {"session"}
  MaxRequests = 5
  PipeSize = 1
  Strays = {"blank"}
  MaxStrays = 4
  MayCrash = TRUE
INVARIANTS TypeOK OwnAnswer NoLeftovers HandshakeFirst
PROPERTIES CallsReturn ServerStops KeepsRpc
