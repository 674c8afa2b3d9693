CONSTANTS
  MaxRequests = 4
  MaxRestarts = 1
  StartDir <- MCStartDir
  InitialDirs <- MCDirs
  InitialFiles <- MCFiles
  Volatile <- MCVolatile
  Calls <- Varied
  MaxTyped = 1
SPECIFICATION AttendedSpec
INVARIANTS TypeOK AgreedBefore WorkingDirRemoved
PROPERTIES KeepsTransport ServerGetsFree
