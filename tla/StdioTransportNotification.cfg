SPECIFICATION Spec
CONSTANTS
  Callers = {"session"}
  MaxRequests = 4
  PipeSize = 3
  Strays = {"notification"}
  MaxStrays = 1
  MayCrash = FALSE
INVARIANTS OwnAnswer
