SPECIFICATION FairSpec
CONSTANTS
  first = first
  taken = taken
  N = 2
  Refs <- MCOneRef
  Imported <- MCNone
  Windowed <- MCWindowed
  AcceptsCaller = FALSE
  MaxGenerations = 2
  MaxCredentials = 1
  MaxFailures = 1
  MaxOutages = 1
  MaxCrashes = 1
  MaxLocals = 0
  MaxUnlinks = 1
PROPERTY Converges
