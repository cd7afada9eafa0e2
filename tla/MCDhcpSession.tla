--------------------------- MODULE MCDhcpSession ---------------------------
EXTENDS DhcpSession, TLC

CONSTANTS a1, a2, m1, m2, r1, v1, v2, v3, undionly, ipxeefi, script

MCFiles ==
  [x86_64 |-> [bios |-> undionly, uefi |-> ipxeefi, ipxe |-> script],
   arm64 |-> [bios |-> None, uefi |-> None, ipxe |-> None]]

\* v2 swaps the addresses of v1; v3 knows one host only, and that in another mode.
Uses(a, mode) == [ip |-> a, bootType |-> mode]
MCTable ==
  (v1 :> (m1 :> Uses(a1, "uefi") @@ m2 :> Uses(a2, "uefi"))) @@
  (v2 :> (m1 :> Uses(a2, "uefi") @@ m2 :> Uses(a1, "uefi"))) @@
  (v3 :> (m2 :> Uses(a1, "bios")))

\* m1 is behind a relay and boots from its disk, m2 is not and does not.
MCVia == m1 :> r1 @@ m2 :> None
MCNetboot == m1 :> None @@ m2 :> <<"uefi", "x86_64">>
=============================================================================
