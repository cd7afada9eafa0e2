SPECIFICATION HistoryFairSpec
CONSTANTS
  Body = {g1, g2, bad}
  Good = {g1, g2}
  None = None
  Torn = Torn
  Corrupt = Corrupt
  SeqSpace = 2
  Misleading = FALSE
INVARIANTS ReportedIsFresh NoRollback
PROPERTIES Converges ShutdownCompletes
