SPECIFICATION Spec
CONSTANTS
  MaxRequests = 5
  MaxRestarts = 1
  Sessions = TRUE
  Streams = TRUE
INVARIANTS TypeOK OnlyAbandonedLate NeverRefused
PROPERTIES CallsReturn KeepsRpc
