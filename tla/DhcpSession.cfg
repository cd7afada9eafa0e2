SPECIFICATION SessionFairSpec
CONSTANTS
  None = None
  a1 = a1
  a2 = a2
  m1 = m1
  m2 = m2
  r1 = r1
  v1 = v1
  v2 = v2
  v3 = v3
  undionly = undionly
  ipxeefi = ipxeefi
  script = script
  Address = {a1, a2}
  Relay = {r1}
  ThisServer = s1
  OtherServer = s2
  Unusable = s0
  File = {undionly, ipxeefi, script}
  Script = {script}
  Mac = {m1, m2}
  Version = {v1, v2, v3}
  Files <- MCFiles
  Table <- MCTable
  Via <- MCVia
  Netboot <- MCNetboot
INVARIANTS Exclusive
PROPERTY Settles
