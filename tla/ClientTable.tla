---------------------------- MODULE ClientTable ----------------------------
(***************************************************************************)
(* Clients::parse of clients.rs: the rows of the CSV one by one, into two  *)
(* indexes, or an error that drops them.  ClientRow has what makes a row a *)
(* client; here a row is one, or the header, or bad.  The csv library has  *)
(* left out comments and blank lines, and its own errors are bad rows.     *)
(***************************************************************************)
EXTENDS Sequences, Naturals

CONSTANTS
  Mac, Ip,
  HeaderRow,   \* the row of the nine column names
  BadRow,      \* any other row parse_client refuses
  MaxRows   \* a bound on the rows, for TLC

Client == [mac : Mac, ip : Ip]

ASSUME ClientTableAssumption ==
  /\ HeaderRow \notin Client \cup {BadRow} /\ BadRow \notin Client
  /\ MaxRows \in Nat

VARIABLES
  rows,     \* the rows read so far
  records,  \* Clients.records: the client of a MAC
  by_ip,    \* Clients.by_ip: the MAC of an address
  outcome

tableVars == <<rows, records, by_ip, outcome>>

Record == Client \cup {HeaderRow, BadRow}

TableTypeOK ==
  /\ rows \in Seq(Record)
  /\ DOMAIN records \subseteq Mac /\ records \in [DOMAIN records -> Client]
  /\ DOMAIN by_ip \subseteq Ip /\ by_ip \in [DOMAIN by_ip -> Mac]
  /\ outcome \in {"reading", "accepted", "rejected"}

TableInit ==
  /\ rows = <<>>
  /\ records = [m \in {} |-> BadRow]
  /\ by_ip = [i \in {} |-> BadRow]
  /\ outcome = "reading"

Read(row) ==
  /\ outcome = "reading"
  /\ Len(rows) < MaxRows
  /\ rows' = Append(rows, row)

SkipAnyHeader ==
  /\ Read(HeaderRow)
  /\ UNCHANGED <<records, by_ip, outcome>>

\* Only the first record may be the header.
SkipHeader ==
  /\ rows = <<>>
  /\ Read(HeaderRow)
  /\ UNCHANGED <<records, by_ip, outcome>>

KnownMac(row) == row.mac \in DOMAIN records
KnownIp(row) == row.ip \in DOMAIN by_ip

Duplicate(row) == KnownMac(row) \/ KnownIp(row)

\* parse returns an error, and what was read so far is dropped.
RejectRow(row) ==
  /\ Read(row)
  /\ \/ row = BadRow
     \/ row = HeaderRow /\ rows # <<>>
     \/ row \in Client /\ Duplicate(row)
  /\ outcome' = "rejected"
  /\ records' = [m \in {} |-> BadRow]
  /\ by_ip' = [i \in {} |-> BadRow]

InsertUnlessMacKnown(row) ==
  /\ Read(row)
  /\ row \in Client /\ ~KnownMac(row)
  /\ by_ip' = [i \in DOMAIN by_ip \cup {row.ip} |-> IF i = row.ip THEN row.mac ELSE by_ip[i]]
  /\ records' = [m \in DOMAIN records \cup {row.mac} |-> IF m = row.mac THEN row ELSE records[m]]
  /\ UNCHANGED outcome

Insert(row) ==
  /\ Read(row)
  /\ row \in Client /\ ~Duplicate(row)
  /\ by_ip' = [i \in DOMAIN by_ip \cup {row.ip} |-> IF i = row.ip THEN row.mac ELSE by_ip[i]]
  /\ records' = [m \in DOMAIN records \cup {row.mac} |-> IF m = row.mac THEN row ELSE records[m]]
  /\ UNCHANGED outcome

Accept ==
  /\ outcome = "reading"
  /\ outcome' = "accepted"
  /\ UNCHANGED <<rows, records, by_ip>>

TableNext ==
  \/ SkipHeader \/ Accept
  \/ \E row \in Record : RejectRow(row) \/ Insert(row)

TableSpec == TableInit /\ [][TableNext]_tableVars

-----------------------------------------------------------------------------
\* The two indexes are each other's inverse, so a table names no address twice
\* (the order of checks and inserts in Clients::parse).
IndexesAgree ==
  /\ \A i \in DOMAIN by_ip : by_ip[i] \in DOMAIN records /\ records[by_ip[i]].ip = i
  /\ \A m \in DOMAIN records :
       records[m].mac = m /\ records[m].ip \in DOMAIN by_ip /\ by_ip[records[m].ip] = m

\* A file is kept as a whole or not at all.  Accepted: every row but a first header
\* is the client its MAC leads to, and nothing else is there (a row that is skipped,
\* overwritten or refused half-way).  Rejected: nothing is left of the rows before,
\* and the last row is a header that is late, a bad one, or repeats what an earlier
\* client has (the early returns of Clients::parse).
Clients == {i \in 1..Len(rows) : ~(i = 1 /\ rows[i] = HeaderRow)}
KeptWhole ==
  /\ outcome = "accepted" =>
       /\ \A i \in Clients : rows[i] \in Client /\ records[rows[i].mac] = rows[i]
       /\ \A i, j \in Clients : rows[i] = rows[j] => i = j
       /\ \A m \in DOMAIN records : \E i \in Clients : records[m] = rows[i]
  /\ outcome = "rejected" =>
       LET last == Len(rows)
           before == Clients \ {last}
       IN /\ DOMAIN records = {} /\ DOMAIN by_ip = {}
          /\ \A i \in before : rows[i] \in Client
          /\ last \in Clients
          /\ rows[last] \in Client =>
               \E i \in before : rows[i].mac = rows[last].mac \/ rows[i].ip = rows[last].ip
=============================================================================
