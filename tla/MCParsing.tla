------------------------------ MODULE MCParsing ------------------------------
(***************************************************************************)
(* What is read from outside, one at a time: the rows of a CSV, the fields *)
(* of a row, the routes of the configuration, the octets of a packet.      *)
(* The others stay in one initial state.                                   *)
(***************************************************************************)
EXTENDS ClientTable, ClientRow, RouteOption, PacketOptions

CONSTANT MaxOptions

\* All octets there can be after the cookie, and in file.
MCOptionAreas == UNION {[1..n -> Octet] : n \in 0..MaxOptions}
MCFileAreas == [1..3 -> Octet]

\* In sname: nothing; a message type; the rest of a Pair; an overload, which comes too
\* late; a torn option; one that ends early.
MCNameAreas ==
  {<<Pad, Pad, Pad>>, <<Message, 1, 1>>, <<Pair, 1, 2>>, <<Overload, 1, 1>>, <<Pair, 2, 1>>,
   <<Pair, 0, End>>}

VARIABLE input

NoRow == [ip |-> 0, gateway |-> 0, prefix |-> 0, sound |-> FALSE]

MCInit ==
  /\ input \in {"csv", "row", "route", "packet"}
  /\ TableInit
  /\ IF input = "row" THEN RowInit ELSE row = NoRow /\ RowInit
  /\ IF input = "route" THEN RouteInit ELSE stage = "config" /\ RouteInit
  /\ IF input = "packet" THEN Init ELSE header = "short" /\ Init

MCNext ==
  \/ input = "csv" /\ TableNext /\ UNCHANGED <<input, rowVars, routeVars, vars>>
  \/ input = "row" /\ RowNext /\ UNCHANGED <<input, tableVars, routeVars, vars>>
  \/ input = "route" /\ RouteNext /\ UNCHANGED <<input, tableVars, rowVars, vars>>
  \/ input = "packet" /\ Next /\ UNCHANGED <<input, tableVars, rowVars, routeVars>>

MCSpec == MCInit /\ [][MCNext]_<<input, tableVars, rowVars, routeVars, vars>>
=============================================================================
