SPECIFICATION Spec
CONSTANTS
  plain = plain
  chosen = chosen
  NoContent = NoContent
  Contents <- MCContents
  Managed = {}
  Windowed <- MCContents
  WithheldTicks = 1
  MaxGen = 2
  Mishaps = {"crash", "unlink"}
  MaxMishaps = 1
SYMMETRY Symmetry
INVARIANTS TypeOK CleanIsConverged NoOlderGenerationApplied
PROPERTY RefinesGenerations
