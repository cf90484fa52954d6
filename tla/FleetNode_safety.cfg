SPECIFICATION Spec
CONSTANTS
  first = first
  taken = taken
  N = 1
  Refs <- MCRefs
  Imported <- MCImported
  Windowed <- MCWindowed
  AcceptsCaller = TRUE
  MaxGenerations = 3
  MaxCredentials = 2
  MaxFailures = 1
  MaxOutages = 1
  MaxCrashes = 1
  MaxLocals = 1
  MaxUnlinks = 0
INVARIANT TypeOK
INVARIANT ConvergedIsApplied
INVARIANT OwnedHasRow
PROPERTY ForeignUntouched
PROPERTY CentralIsOnlyWriter
