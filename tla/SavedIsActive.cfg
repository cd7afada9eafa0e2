SPECIFICATION FairSpec
CONSTANTS
  Body = {g1, g2}
  Good = {g1, g2}
  None = None
  Torn = Torn
  Corrupt = Corrupt
  SeqSpace = 2
  Misleading = FALSE
INVARIANT SavedIsActive
