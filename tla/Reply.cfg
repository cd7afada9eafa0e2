SPECIFICATION MCSpec
CONSTANTS
  None = None
  a1 = a1
  a2 = a2
  r1 = r1
  Address = {a1, a2}
  Relay = {r1}
  ThisServer = s1
  OtherServer = s2
  Unusable = s0
  undionly = undionly
  ipxeefi = ipxeefi
  ipxearm = ipxearm
  script = script
  File = {undionly, ipxeefi, ipxearm, script}
  Files <- MCFiles
  Inputs <- MCInputs
  MaxChunk = 2
  MinMaximum = 7
  MinReply = 5
  Word = 32
  MaxLength = 11
INVARIANTS
  RequestsByState RoutesFollowPlan HeardByClient RelayWhenItFits TimesInOrder
CHECK_DEADLOCK FALSE
