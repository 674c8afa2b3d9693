CONSTANTS
  MaxRequests = 4
  MaxRestarts = 0
  StartDir <- MCStartDir
  InitialDirs <- MCDirs
  InitialFiles <- MCFiles
  Volatile <- MCVolatile
  Calls <- Few
  MaxTyped = 2
SPECIFICATION Spec
INVARIANT RemovalConfirmed
