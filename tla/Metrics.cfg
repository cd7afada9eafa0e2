SPECIFICATION Spec
CONSTANTS
  Label = {l1, l2}
  Never = Never
  TTL = 4
  Interval = 2
  Delay = 2
  MaxTime = 10
  MaxRequests = 4
INVARIANTS Conserved ActiveIsKept OnlyRecentShown
