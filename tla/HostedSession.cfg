SPECIFICATION HostedSpec
CONSTANTS
  CallNames = {"echo", "ls"}
  Prelude <- MCPrelude
  MaxRounds = 2
  MaxCalls = 2
  MaxTurns = 2
  MaxRequests = 4
  MaxRestarts = 1
  Sessions = TRUE
  Streams = FALSE
INVARIANTS CallsAnswered ToldDone
PROPERTIES TurnEnds KeepsSession
