----------------------------- MODULE MCService -----------------------------
EXTENDS Service, TLC

CONSTANTS v1, v2, m1, m2, l1, l2, i1, i2

\* v1 lists every host; v2 only one, elsewhere and with another address.
Record(l, i) == [location |-> l, ip |-> i]
MCClients == v1 :> (m1 :> Record(l1, i1) @@ m2 :> Record(l2, i2)) @@ v2 :> (m1 :> Record(l2, i2))
=============================================================================
