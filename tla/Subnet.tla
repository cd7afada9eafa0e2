------------------------------- MODULE Subnet -------------------------------
(***************************************************************************)
(* The IPv4 arithmetic of config.rs.  An address has Width bits instead of *)
(* 32; the ranges of is_unicast keep their place among the addresses.      *)
(***************************************************************************)
EXTENDS Integers

CONSTANT Width

ASSUME SubnetAssumption == Width \in Nat /\ Width >= 4

Address == 0 .. 2^Width - 1
AllOnes == 2^Width - 1

\* u32's & and |: And has the bits that both words have, and their sum has these
\* twice.
Bit(x, i) == (x \div 2^i) % 2
And(x, y) ==
  LET low[n \in 0 .. Width] ==   \* of the lowest n bits
        IF n = 0 THEN 0 ELSE low[n - 1] + 2^(n - 1) * (Bit(x, n - 1) * Bit(y, n - 1))
  IN low[Width]
Or(x, y) == (x + y) - And(x, y)

\* 224.0.0.0 and 240.0.0.0.
Multicast == 14 * 2^(Width - 4)
ClassE == 15 * 2^(Width - 4)

is_unicast(ip) ==
  /\ ip # 0
  /\ ip \notin Multicast .. ClassE - 1
  /\ ip # AllOnes
  /\ ip < ClassE

\* u32::MAX << (32 - prefix), which drops what leaves the word.
prefix_mask(prefix) ==
  IF prefix = 0 THEN 0 ELSE (AllOnes * 2^(Width - prefix)) % 2^Width

Complement(x) == AllOnes - x
=============================================================================
