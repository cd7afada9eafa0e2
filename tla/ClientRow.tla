----------------------------- MODULE ClientRow -----------------------------
(***************************************************************************)
(* parse_client of clients.rs: which rows of the CSV are clients, and the  *)
(* mask reply makes of the row for option 1.  Addresses and prefix are     *)
(* modelled; "sound" says that the other fields are as they should be.     *)
(***************************************************************************)
EXTENDS Subnet

VARIABLES
  row,
  judged,
  mask     \* option 1 of the answers to this client

rowVars == <<row, judged, mask>>

\* A prefix is a u8: also one more than the greatest that has a meaning.
Row == [ip : Address, gateway : Address, prefix : 0 .. Width + 1, sound : BOOLEAN]

RowInit ==
  /\ row \in Row
  /\ judged = "read"
  /\ mask = 0

network == And(row.ip, prefix_mask(row.prefix))
broadcast == Or(network, Complement(prefix_mask(row.prefix)))

ExceptThePair(x) == x \notin {network, broadcast}

\* A /31 has two addresses and no more (RFC 3021).
Usable(x) == row.prefix < Width - 1 => x \notin {network, broadcast}

IsClient ==
  /\ row.sound
  /\ row.prefix \in 1 .. Width - 1
  /\ is_unicast(row.ip) /\ is_unicast(row.gateway)
  /\ And(row.gateway, prefix_mask(row.prefix)) = network
  /\ Usable(row.ip) /\ Usable(row.gateway)
  /\ row.ip # row.gateway

Refuse ==
  /\ judged = "read" /\ ~IsClient
  /\ judged' = "refused"
  /\ UNCHANGED <<row, mask>>

ShiftedTooFar(prefix) ==
  LET shift == Width - prefix + 1
  IN IF shift < Width THEN (AllOnes * 2^shift) % 2^Width ELSE 0

\* checked_shl has a value for every shift that is less than the word.
ShiftedMask(prefix) ==
  LET shift == Width - prefix
  IN IF shift < Width THEN (AllOnes * 2^shift) % 2^Width ELSE 0

Keep ==
  /\ judged = "read" /\ IsClient
  /\ judged' = "client"
  /\ mask' = ShiftedMask(row.prefix)
  /\ UNCHANGED row

RowNext == Refuse \/ Keep
RowSpec == RowInit /\ [][RowNext]_rowVars

-----------------------------------------------------------------------------
(***************************************************************************)
(* The reference: a prefix cuts the addresses into blocks of equal length; *)
(* the first and the last of a block are no hosts unless it has only two.  *)
(***************************************************************************)
Length == 2^(Width - row.prefix)
Place(x) == x % Length
SameBlock(x, y) == x \div Length = y \div Length
IsHost(x) == x \in 1 .. Multicast - 1 /\ (Length = 2 \/ Place(x) \in 1 .. Length - 2)

\* A row is a client if and only if it and its gateway are two hosts of one block
\* (the masks of parse_client at /1 and /31, and below multicast).
ClientsAreHosts ==
  judged # "read" =>
    (judged = "client" <=>
       /\ row.sound
       /\ row.prefix \in 1 .. Width - 1
       /\ IsHost(row.ip) /\ IsHost(row.gateway)
       /\ SameBlock(row.ip, row.gateway) /\ row.ip # row.gateway)

\* The mask a client is sent makes its link the block of its prefix, no wider and no
\* narrower; it finds its gateway there, and takes neither for the broadcast address
\* unless the link is a pair (reply computes the mask anew with checked_shl,
\* parse_client checked the addresses with prefix_mask).
GatewayOnLink ==
  judged = "client" =>
    /\ \A x \in Address : And(x, mask) = And(row.ip, mask) <=> SameBlock(x, row.ip)
    /\ And(row.gateway, mask) = And(row.ip, mask)
    /\ Complement(mask) # 1 =>
         {row.ip, row.gateway} \cap {And(row.ip, mask), Or(And(row.ip, mask), Complement(mask))} = {}
=============================================================================
