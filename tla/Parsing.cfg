SPECIFICATION MCSpec
CONSTANTS
  Mac = {m1, m2, m3}
  Ip = {i1, i2, i3}
  HeaderRow = HeaderRow
  BadRow = BadRow
  MaxRows = 4
  Width = 6
  OctetBits = 3
  Gateway = {1, 42}
  MaxRoutes = 2
  MaxForeign = 6
  Top = 4
  Message = 1
  Overload = 2
  Pair = 3
  Messages = {1, 3}
  NotRead = NotRead
  MaxOptions = 6
  OptionAreas <- MCOptionAreas
  FileAreas <- MCFileAreas
  NameAreas <- MCNameAreas
INVARIANTS
  IndexesAgree KeptWhole ClientsAreHosts GatewayOnLink RoutesArrive ShownAsSent
  NoPanic OptionsAsSent DumpAgrees
CHECK_DEADLOCK FALSE
