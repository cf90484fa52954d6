SPECIFICATION FairSpec
CONSTANTS
  plain = plain
  chosen = chosen
  NoContent = NoContent
  Contents = {chosen}
  Managed = {chosen}
  Windowed = {}
  WithheldTicks = 1
  MaxGen = 1
  Mishaps = {"backup", "restore"}
  MaxMishaps = 1
INVARIANT CleanHoldsCredential
PROPERTY EventuallyClean
