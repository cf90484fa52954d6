SPECIFICATION Spec
CONSTANTS
  first = first
  taken = taken
  N = 1
  Refs <- MCOneRef
  Imported <- MCNone
  Windowed <- MCNone
  AcceptsCaller = TRUE
  MaxGenerations = 2
  MaxCredentials = 1
  MaxFailures = 0
  MaxOutages = 1
  MaxCrashes = 0
  MaxLocals = 1
  MaxUnlinks = 0
PROPERTY NoForeignTaken
