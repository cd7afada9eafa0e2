SPECIFICATION Spec
CONSTANTS
  Version = {v1, v2}
  Nothing = Nothing
  m1 = m1
  m2 = m2
  v1 = v1
  v2 = v2
  Mac = {m1, m2}
  l1 = l1
  l2 = l2
  i1 = i1
  i2 = i2
  Location = {l1, l2}
  Ip = {i1, i2}
  Clients <- MCClients
  MaxRequests = 2
INVARIANT LoadBeforeServing
