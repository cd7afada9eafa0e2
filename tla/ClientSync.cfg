SPECIFICATION Spec
CONSTANTS
  Body = {g1, g2, bad}
  Good = {g1, g2}
  None = None
  Torn = Torn
  Corrupt = Corrupt
  SeqSpace = 2
  Misleading = TRUE
INVARIANTS TypeOK ServesOnlyComplete CacheIsActive SuccessMeansData CrashSafe SavedIsDurable
PROPERTIES ImplementsStore ImplementsShared
