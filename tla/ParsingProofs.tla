--------------------------- MODULE ParsingProofs ---------------------------
(***************************************************************************)
(* Proofs about what is read from outside: the rows of the CSV, for any    *)
(* addresses and any number of rows, and the octets of a packet, for any   *)
(* size of an octet and of an area.  What the parsers make of them is      *)
(* compared with what is to be read.  For a packet that is the recursive   *)
(* function Options, whose laws are proved first, each for a shortest      *)
(* sequence that would break it.                                           *)
(***************************************************************************)
EXTENDS ClientTable, PacketOptions, SequenceTheorems, WellFoundedInduction, TLAPS

(***************************************************************************)
(* The rows of the CSV.                                                    *)
(***************************************************************************)
TableInv == TableTypeOK /\ IndexesAgree

LEMMA TableInvInit == TableInit => TableInv
  BY DEF TableInit, TableInv, TableTypeOK, IndexesAgree

LEMMA ReadKeepsRows ==
  ASSUME TableTypeOK, NEW row \in Record, Read(row)
  PROVE  rows' \in Seq(Record)
  BY DEF Read, TableTypeOK

LEMMA InsertInv ==
  ASSUME TableInv, NEW row \in Record, Insert(row)
  PROVE  TableInv'
  <1>1. /\ row \in Client /\ row.mac \in Mac /\ row.ip \in Ip
        /\ row.mac \notin DOMAIN records /\ row.ip \notin DOMAIN by_ip
    BY DEF Insert, Duplicate, KnownMac, KnownIp, Client
  <1>2. /\ by_ip' = [i \in DOMAIN by_ip \cup {row.ip} |->
                       IF i = row.ip THEN row.mac ELSE by_ip[i]]
        /\ records' = [m \in DOMAIN records \cup {row.mac} |->
                         IF m = row.mac THEN row ELSE records[m]]
        /\ outcome' = outcome
    BY DEF Insert
  <1>3. rows' \in Seq(Record)
    BY ReadKeepsRows DEF TableInv, Insert
  <1>4. TableTypeOK'
    BY <1>1, <1>2, <1>3 DEF TableInv, TableTypeOK
  <1>5. ASSUME NEW i \in DOMAIN by_ip'
        PROVE  by_ip'[i] \in DOMAIN records' /\ records'[by_ip'[i]].ip = i
    BY <1>1, <1>2 DEF TableInv, IndexesAgree
  <1>6. ASSUME NEW m \in DOMAIN records'
        PROVE  /\ records'[m].mac = m /\ records'[m].ip \in DOMAIN by_ip'
               /\ by_ip'[records'[m].ip] = m
    BY <1>1, <1>2 DEF TableInv, IndexesAgree
  <1>7. IndexesAgree'
    BY <1>5, <1>6 DEF IndexesAgree
  <1> QED  BY <1>4, <1>7 DEF TableInv

LEMMA TableInvStep == TableInv /\ [TableNext]_tableVars => TableInv'
  <1> SUFFICES ASSUME TableInv, [TableNext]_tableVars PROVE TableInv'
    OBVIOUS
  <1>1. CASE SkipHeader
    <2>1. rows' \in Seq(Record)
      BY <1>1, ReadKeepsRows DEF SkipHeader, Record, TableInv
    <2> QED  BY <1>1, <2>1 DEF SkipHeader, TableInv, TableTypeOK, IndexesAgree
  <1>2. CASE Accept
    BY <1>2 DEF Accept, TableInv, TableTypeOK, IndexesAgree
  <1>3. ASSUME NEW row \in Record, RejectRow(row) PROVE TableInv'
    <2>1. rows' \in Seq(Record)
      BY <1>3, ReadKeepsRows DEF RejectRow, TableInv
    <2> QED  BY <1>3, <2>1 DEF RejectRow, TableInv, TableTypeOK, IndexesAgree
  <1>4. CASE UNCHANGED tableVars
    BY <1>4 DEF tableVars, TableInv, TableTypeOK, IndexesAgree
  <1> QED  BY <1>1, <1>2, <1>3, <1>4, InsertInv DEF TableNext

THEOREM TableInvariant == TableSpec => []TableInv
  BY TableInvInit, TableInvStep, PTL DEF TableSpec

\* The two indexes of Clients keep their types ...
THEOREM TableTypeCorrect == TableSpec => []TableTypeOK
  <1>1. TableInv => TableTypeOK
    BY DEF TableInv
  <1> QED  BY <1>1, TableInvariant, PTL

\* ... and are each other's inverse while the file is read and after, so that no
\* version names an address twice: what DhcpSession assumes of a version.
THEOREM NoAddressTwice == TableSpec => []IndexesAgree
  <1>1. TableInv => IndexesAgree
    BY DEF TableInv
  <1> QED  BY <1>1, TableInvariant, PTL

Kept(i) == rows[i] \in Client /\ rows[i].mac \in DOMAIN records /\ records[rows[i].mac] = rows[i]

\* What is read so far is kept as a whole; only an error drops it.
RowsKept ==
  outcome # "rejected" =>
    /\ \A i \in Clients : Kept(i)
    /\ \A i, j \in Clients : rows[i].mac = rows[j].mac => i = j
    /\ \A m \in DOMAIN records : \E i \in Clients : rows[i].mac = m

LEMMA RowsKeptInit == TableInit => RowsKept
  BY DEF TableInit, RowsKept, Clients

LEMMA ReadAppends ==
  ASSUME TableTypeOK, NEW row \in Record, Read(row)
  PROVE  /\ Len(rows') = Len(rows) + 1 /\ Len(rows) \in Nat
         /\ rows'[Len(rows) + 1] = row
         /\ \A i \in 1..Len(rows) : rows'[i] = rows[i]
         /\ (rows # <<>> \/ row # HeaderRow) => Clients' = Clients \cup {Len(rows) + 1}
         /\ (rows = <<>> /\ row = HeaderRow) => Clients' = {}
  <1>1. rows' = Append(rows, row) /\ rows \in Seq(Record)
    BY DEF Read, TableTypeOK
  <1>2. /\ Len(rows') = Len(rows) + 1 /\ Len(rows) \in Nat
        /\ rows'[Len(rows) + 1] = row
        /\ \A i \in 1..Len(rows) : rows'[i] = rows[i]
    BY <1>1
  <1>3. rows # <<>> <=> Len(rows) # 0
    BY <1>1
  <1> QED  BY <1>2, <1>3 DEF Clients

\* A row is put behind the others, and under a MAC that no row before it has.
LEMMA InsertKeeps ==
  ASSUME TableInv, RowsKept, NEW row \in Record, Insert(row)
  PROVE  RowsKept'
  <1>1. /\ row \in Client /\ row.mac \notin DOMAIN records
        /\ records' = [m \in DOMAIN records \cup {row.mac} |->
                         IF m = row.mac THEN row ELSE records[m]]
        /\ outcome' = outcome /\ outcome = "reading" /\ row # HeaderRow
    BY ClientTableAssumption DEF Insert, Duplicate, KnownMac, Read
  <1> DEFINE n == Len(rows) + 1
  <1>2. /\ n \in Nat /\ Clients' = Clients \cup {n} /\ rows'[n] = row
        /\ \A i \in Clients : rows'[i] = rows[i] /\ i # n
    BY <1>1, ReadAppends DEF Insert, TableInv, Clients
  <1> HIDE DEF n
  <1>3. /\ \A i \in Clients : Kept(i)
        /\ \A i, j \in Clients : rows[i].mac = rows[j].mac => i = j
        /\ \A m \in DOMAIN records : \E i \in Clients : rows[i].mac = m
    BY <1>1 DEF RowsKept
  <1>4. ASSUME NEW i \in Clients' PROVE Kept(i)'
    BY <1>1, <1>2, <1>3 DEF Kept
  <1>5. ASSUME NEW i \in Clients', NEW j \in Clients', rows'[i].mac = rows'[j].mac
        PROVE  i = j
    <2>1. \A k \in Clients : rows'[k].mac \in DOMAIN records
      BY <1>2, <1>3 DEF Kept
    <2> QED  BY <1>1, <1>2, <1>3, <1>5, <2>1
  <1>6. ASSUME NEW m \in DOMAIN records' PROVE \E i \in Clients' : rows'[i].mac = m
    BY <1>1, <1>2, <1>3
  <1> QED  BY <1>4, <1>5, <1>6 DEF RowsKept

LEMMA RowsKeptStep == TableInv /\ RowsKept /\ [TableNext]_tableVars => RowsKept'
  <1> SUFFICES ASSUME TableInv, RowsKept, [TableNext]_tableVars PROVE RowsKept'
    OBVIOUS
  <1>1. CASE SkipHeader
    <2>1. rows = <<>> /\ Clients = {} /\ UNCHANGED <<records, outcome>>
      BY <1>1 DEF SkipHeader, Clients
    <2>2. Clients' = {}
      BY <1>1, <2>1, ReadAppends DEF SkipHeader, TableInv, Record
    <2> QED  BY <2>1, <2>2 DEF RowsKept
  <1>2. CASE Accept
    BY <1>2 DEF Accept, RowsKept, Clients, Kept
  <1>3. ASSUME NEW row \in Record, RejectRow(row) PROVE RowsKept'
    BY <1>3 DEF RejectRow, RowsKept
  <1>4. CASE UNCHANGED tableVars
    BY <1>4 DEF tableVars, RowsKept, Clients, Kept
  <1> QED  BY <1>1, <1>2, <1>3, <1>4, InsertKeeps DEF TableNext

\* Why an error was returned: all rows before are clients, and the last is none, or one
\* that repeats what another has.
Repeats(i, j) == rows[i].mac = rows[j].mac \/ rows[i].ip = rows[j].ip
RowRefused ==
  outcome = "rejected" =>
    LET last == Len(rows)
        before == Clients \ {last}
    IN /\ DOMAIN records = {} /\ DOMAIN by_ip = {}
       /\ \A i \in before : rows[i] \in Client
       /\ last \in Clients
       /\ rows[last] \in Client => \E i \in before : Repeats(i, last)

LEMMA RejectRefuses ==
  ASSUME TableInv, RowsKept, NEW row \in Record, RejectRow(row)
  PROVE  RowRefused'
  <1> DEFINE n == Len(rows) + 1
  <1>1. /\ outcome = "reading" /\ outcome' = "rejected" /\ Read(row)
        /\ DOMAIN records' = {} /\ DOMAIN by_ip' = {}
        /\ rows = <<>> => row # HeaderRow
    BY ClientTableAssumption DEF RejectRow, Read, Client
  <1>2. /\ n \in Nat /\ Len(rows') = n /\ Clients' = Clients \cup {n} /\ rows'[n] = row
        /\ \A i \in Clients : rows'[i] = rows[i] /\ i # n
    BY <1>1, ReadAppends DEF TableInv, Clients
  <1> HIDE DEF n
  <1>3. /\ \A i \in Clients : Kept(i)
        /\ \A m \in DOMAIN records : \E i \in Clients : rows[i].mac = m
    BY <1>1 DEF RowsKept
  <1>4. (Clients \ {Len(rows)})' = Clients
    BY <1>2
  <1>5. \A i \in Clients : rows'[i] \in Client
    BY <1>2, <1>3 DEF Kept
  <1>6. ASSUME row \in Client
        PROVE  \E i \in Clients : rows[i].mac = row.mac \/ rows[i].ip = row.ip
    <2>1. Duplicate(row)
      BY <1>6, ClientTableAssumption DEF RejectRow
    <2>2. CASE KnownMac(row)
      BY <1>3, <2>2 DEF KnownMac
    <2>3. CASE KnownIp(row)
      <3> DEFINE m == by_ip[row.ip]
      <3>1. m \in DOMAIN records /\ records[m].ip = row.ip
        BY <2>3 DEF KnownIp, TableInv, IndexesAgree
      <3>2. PICK i \in Clients : rows[i].mac = m
        BY <1>3, <3>1
      <3>3. records[m] = rows[i]
        BY <1>3, <3>2 DEF Kept
      <3> QED  BY <3>1, <3>2, <3>3
    <2> QED  BY <2>1, <2>2, <2>3 DEF Duplicate
  <1>7. row \in Client => \E i \in Clients : Repeats(i, Len(rows))'
    BY <1>2, <1>6 DEF Repeats
  <1> QED  BY <1>1, <1>2, <1>4, <1>5, <1>7 DEF RowRefused

LEMMA RowRefusedStep ==
  TableInv /\ RowsKept /\ RowRefused /\ [TableNext]_tableVars => RowRefused'
  <1> SUFFICES ASSUME TableInv, RowsKept, RowRefused, [TableNext]_tableVars PROVE RowRefused'
    OBVIOUS
  <1>1. CASE SkipHeader \/ Accept
    BY <1>1 DEF SkipHeader, Accept, Read, RowRefused
  <1>2. ASSUME NEW row \in Record, Insert(row) PROVE RowRefused'
    BY <1>2 DEF Insert, Read, RowRefused
  <1>3. CASE UNCHANGED tableVars
    BY <1>3 DEF tableVars, RowRefused, Clients, Repeats
  <1> QED  BY <1>1, <1>2, <1>3, RejectRefuses DEF TableNext

\* However many rows a file has, it is kept as a whole, every row but a first header the
\* client its MAC leads to, no row twice and nothing else there; or nothing of it is, and
\* then for its last row: one that is bad, or repeats the MAC or the IP of a row before.
THEOREM NoRowLost == TableSpec => []KeptWhole
  <1>1. TableInv /\ RowsKept /\ RowRefused => KeptWhole
    <2> SUFFICES ASSUME TableInv, RowsKept, RowRefused PROVE KeptWhole
      OBVIOUS
    <2>1. CASE outcome = "accepted"
      <3>1. /\ \A i \in Clients : Kept(i)
            /\ \A i, j \in Clients : rows[i].mac = rows[j].mac => i = j
            /\ \A m \in DOMAIN records : \E i \in Clients : rows[i].mac = m
        BY <2>1 DEF RowsKept
      <3> QED  BY <2>1, <3>1 DEF KeptWhole, Kept
    <2>2. CASE outcome # "accepted"
      BY <2>2 DEF KeptWhole, RowRefused, Repeats
    <2> QED  BY <2>1, <2>2
  <1>2. TableInit => RowRefused
    BY DEF TableInit, RowRefused
  <1> QED  BY <1>1, <1>2, RowsKeptInit, RowsKeptStep, RowRefusedStep, TableInvariant, PTL
           DEF TableSpec

(***************************************************************************)
(* Sequences: the least number of a set, and FlattenSeq, by the function that *)
(* its definition chooses.                                                 *)
(***************************************************************************)
\* A set of numbers has a least one.
LEMMA LeastNat ==
  ASSUME NEW T \in SUBSET Nat, T # {}
  PROVE  \E x \in T : \A y \in T : x <= y
  <1> DEFINE R == {p \in Nat \X Nat : p[1] < p[2]}
  <1>1. OpToRel(<, Nat) = R
    BY DEF OpToRel
  <1>2. IsWellFoundedOn(R, Nat)
    BY <1>1, NatLessThanWellFounded, Zenon
  <1> HIDE DEF R
  <1>3. PICK x \in T : \A y \in T : ~ (<<y, x>> \in R)
    BY <1>2, WFMin
  <1>4. ASSUME NEW y \in T PROVE x <= y
    <2>1. ~ (<<y, x>> \in R) /\ x \in Nat /\ y \in Nat
      BY <1>3
    <2> QED  BY <2>1 DEF R
  <1> QED  BY <1>3, <1>4

LEMMA ConcatIsAssociative ==
  \A S : \A s, t, u \in Seq(S) : (s \o t) \o u = s \o (t \o u)
  OBVIOUS

FlatStep(ss, F, i) == IF i = 1 THEN ss[i] ELSE F[i - 1] \o ss[i]
IsFlat(ss, F, n) == F = [i \in 1..n |-> FlatStep(ss, F, i)]

LEMMA FlatIs ==
  ASSUME NEW ss, Len(ss) # 0
  PROVE  FlattenSeq(ss) = (CHOOSE F : IsFlat(ss, F, Len(ss)))[Len(ss)]
  BY DEF FlattenSeq, IsFlat, FlatStep

\* There is such a function, and its values are sequences.
LEMMA FlatExists ==
  ASSUME NEW ss, NEW n \in Nat
  PROVE  \E F : IsFlat(ss, F, n)
  <1> DEFINE B == {m \in 0..n : ~ \E F : IsFlat(ss, F, m)}
  <1>0. B \in SUBSET Nat
    OBVIOUS
  <1>1. SUFFICES ASSUME B # {} PROVE FALSE
    BY DEF B
  <1> HIDE DEF B
  <1>2. PICK m \in B : \A k \in B : m <= k
    BY <1>0, <1>1, LeastNat
  <1>3. m \in 0..n /\ ~ \E F : IsFlat(ss, F, m)
    BY <1>2 DEF B
  <1>4. m # 0
    <2>1. IsFlat(ss, [i \in 1..0 |-> 0], 0)
      BY DEF IsFlat
    <2> QED  BY <1>3, <2>1
  <1>5. PICK G : IsFlat(ss, G, m - 1)
    BY <1>2, <1>3, <1>4 DEF B
  <1> DEFINE F == [i \in 1..m |-> FlatStep(ss, G, i)]
  <1>6. \A i \in 1 .. m - 1 : F[i] = G[i]
    BY <1>3, <1>5 DEF IsFlat
  <1>7. \A i \in 1..m : FlatStep(ss, F, i) = FlatStep(ss, G, i)
    <2> HIDE DEF F
    <2>1. \A i \in 1..m : i # 1 => i - 1 \in 1 .. m - 1
      BY <1>3
    <2> QED  BY <1>6, <2>1 DEF FlatStep
  <1>8. IsFlat(ss, F, m)
    BY <1>7 DEF IsFlat
  <1> QED  BY <1>3, <1>8

\* Two such functions agree as long as their sequences do.
LEMMA FlatUnique ==
  ASSUME NEW ss, NEW tt, NEW m \in Nat, NEW n \in Nat, NEW F, NEW G,
         IsFlat(ss, F, m), IsFlat(tt, G, n),
         m <= n, \A i \in 1..m : ss[i] = tt[i]
  PROVE  \A i \in 1..m : F[i] = G[i]
  <1> DEFINE B == {i \in 1..m : F[i] # G[i]}
  <1>0. B \in SUBSET Nat
    OBVIOUS
  <1>1. SUFFICES ASSUME B # {} PROVE FALSE
    BY DEF B
  <1> HIDE DEF B
  <1>2. PICK i \in B : \A j \in B : i <= j
    BY <1>0, <1>1, LeastNat
  <1>3. i \in 1..m /\ F[i] # G[i] /\ i \in 1..n
    BY <1>2 DEF B
  <1>4. F[i] = FlatStep(ss, F, i) /\ G[i] = FlatStep(tt, G, i)
    BY <1>3 DEF IsFlat
  <1>5. i # 1 /\ F[i - 1] # G[i - 1]
    BY <1>3, <1>4 DEF FlatStep
  <1>6. i - 1 \in B
    BY <1>3, <1>5 DEF B
  <1> QED  BY <1>0, <1>2, <1>6

LEMMA FlatAt ==
  ASSUME NEW ss, NEW n \in Nat \ {0}, Len(ss) = n, NEW F, IsFlat(ss, F, n)
  PROVE  FlattenSeq(ss) = F[n]
  <1>1. IsFlat(ss, CHOOSE G : IsFlat(ss, G, n), n)
    OBVIOUS
  <1>2. FlattenSeq(ss) = (CHOOSE G : IsFlat(ss, G, n))[n]
    BY FlatIs
  <1> QED  BY <1>1, <1>2, FlatUnique

\* The laws of FlattenSeq: nothing, one sequence, and one more.
LEMMA FlatEmpty == FlattenSeq(<<>>) = <<>>
  BY DEF FlattenSeq

LEMMA FlatOne ==
  ASSUME NEW x
  PROVE  FlattenSeq(<<x>>) = x
  <1>1. PICK F : IsFlat(<<x>>, F, 1)
    BY FlatExists
  <1>2. F[1] = x
    BY <1>1 DEF IsFlat, FlatStep
  <1> QED  BY <1>1, <1>2, FlatAt

LEMMA FlatMore ==
  ASSUME NEW S, NEW ss \in Seq(S), ss # <<>>, NEW x \in S
  PROVE  FlattenSeq(Append(ss, x)) = FlattenSeq(ss) \o x
  <1> DEFINE n == Len(ss)
             tt == Append(ss, x)
  <1>1. n \in Nat \ {0} /\ Len(tt) = n + 1 /\ tt[n + 1] = x /\ \A i \in 1..n : ss[i] = tt[i]
    OBVIOUS
  <1> HIDE DEF n, tt
  <1>0. n \in Nat /\ n + 1 \in Nat \ {0} /\ n + 1 \in Nat /\ n <= n + 1
    BY <1>1
  <1>2. PICK F : IsFlat(ss, F, n)
    BY <1>1, FlatExists
  <1>3. PICK G : IsFlat(tt, G, n + 1)
    BY <1>0, FlatExists
  <1>4. F[n] = G[n]
    <2>1. \A i \in 1..n : F[i] = G[i]
      BY <1>0, <1>1, <1>2, <1>3, FlatUnique
    <2> QED  BY <1>1, <2>1
  <1>5. G[n + 1] = G[n] \o x
    <2>1. G[n + 1] = FlatStep(tt, G, n + 1)
      BY <1>0, <1>3 DEF IsFlat
    <2>2. n + 1 # 1 /\ (n + 1) - 1 = n
      BY <1>1
    <2> QED  BY <1>1, <2>1, <2>2 DEF FlatStep
  <1>6. FlattenSeq(ss) = F[n] /\ FlattenSeq(tt) = G[n + 1]
    BY <1>0, <1>1, <1>2, <1>3, FlatAt DEF n
  <1> QED  BY <1>4, <1>5, <1>6 DEF tt

LEMMA FlatAppend ==
  ASSUME NEW S, NEW ss \in Seq(Seq(S)), NEW x \in Seq(S)
  PROVE  FlattenSeq(Append(ss, x)) = FlattenSeq(ss) \o x
  <1>1. CASE ss = <<>>
    <2>1. Append(ss, x) = <<x>> /\ <<>> \o x = x
      BY <1>1
    <2> QED  BY <1>1, <2>1, FlatOne, FlatEmpty
  <1>2. CASE ss # <<>>
    BY <1>2, FlatMore
  <1> QED  BY <1>1, <1>2

\* A sequence without its last element.
LEMMA Beginning ==
  ASSUME NEW S, NEW s \in Seq(S), NEW n \in Nat, n <= Len(s)
  PROVE  SubSeq(s, 1, n) \in Seq(S) /\ Len(SubSeq(s, 1, n)) = n
  OBVIOUS

LEMMA ButLast ==
  ASSUME NEW S, NEW s \in Seq(S), s # <<>>
  PROVE  \E t \in Seq(S), x \in S :
           Len(t) \in Nat /\ Len(s) = Len(t) + 1 /\ s = t \o <<x>> /\ s = Append(t, x)
  <1> DEFINE n == Len(s)
             m == n - 1
  <1>1. /\ m \in Nat /\ m + 1 = n /\ m <= Len(s) /\ 1 \in 1..n /\ n \in 1..n
        /\ s[n] \in S
    OBVIOUS
  <1>2. SubSeq(s, 1, n) = s
    BY SubSeqFull
  <1> HIDE DEF m
  <1>3. SubSeq(s, 1, m) \in Seq(S) /\ Len(SubSeq(s, 1, m)) = m
    BY <1>1, Beginning
  <1>4. SubSeq(s, 1, n) = SubSeq(s, 1, n - 1) \o <<s[n]>>
    <2>1. 1 \in 1..Len(s) /\ n \in 1..Len(s)
      BY <1>1
    <2> HIDE DEF n
    <2> QED  BY <2>1, SubSeqRecursiveSecond
  <1>5. s = SubSeq(s, 1, m) \o <<s[n]>>
    BY <1>2, <1>4 DEF m
  <1> QED  BY <1>1, <1>3, <1>5, AppendIsConcat

\* Sequences put together are a sequence, and put together in two parts are the same.
LEMMA FlatSeq ==
  ASSUME NEW S, NEW ss \in Seq(Seq(S))
  PROVE  FlattenSeq(ss) \in Seq(S)
  <1> DEFINE B == {n \in Nat : \E t \in Seq(Seq(S)) : Len(t) = n /\ FlattenSeq(t) \notin Seq(S)}
  <1>0. B \in SUBSET Nat
    OBVIOUS
  <1>1. SUFFICES ASSUME B # {} PROVE FALSE
    BY DEF B
  <1> HIDE DEF B
  <1>2. PICK n \in B : \A m \in B : n <= m
    BY <1>0, <1>1, LeastNat
  <1>3. PICK t \in Seq(Seq(S)) : Len(t) = n /\ FlattenSeq(t) \notin Seq(S)
    BY <1>2 DEF B
  <1>4. t # <<>>
    BY <1>3, FlatEmpty
  <1>5. PICK u \in Seq(Seq(S)), x \in Seq(S) :
          Len(u) \in Nat /\ Len(t) = Len(u) + 1 /\ t = Append(u, x)
    BY <1>3, <1>4, ButLast
  <1>6. FlattenSeq(t) = FlattenSeq(u) \o x
    BY <1>5, FlatAppend
  <1>7. FlattenSeq(u) \in Seq(S)
    <2>1. Len(u) < n
      BY <1>0, <1>3, <1>5
    <2>2. Len(u) \notin B
      BY <1>0, <1>2, <1>5, <2>1
    <2> QED  BY <1>5, <2>2 DEF B
  <1> QED  BY <1>3, <1>5, <1>6, <1>7

LEMMA FlatConcat ==
  ASSUME NEW S, NEW ss \in Seq(Seq(S)), NEW tt \in Seq(Seq(S))
  PROVE  FlattenSeq(ss \o tt) = FlattenSeq(ss) \o FlattenSeq(tt)
  <1> DEFINE Good(t) == FlattenSeq(ss \o t) = FlattenSeq(ss) \o FlattenSeq(t)
             B == {n \in Nat : \E t \in Seq(Seq(S)) : Len(t) = n /\ ~Good(t)}
  <1>0. B \in SUBSET Nat
    OBVIOUS
  <1>1. SUFFICES ASSUME B # {} PROVE FALSE
    <2>1. Len(tt) \in Nat
      OBVIOUS
    <2> HIDE DEF Good
    <2>2. B = {} => Good(tt)
      BY <2>1
    <2> QED  BY <2>2 DEF Good
  <1> HIDE DEF B
  <1>2. PICK n \in B : \A m \in B : n <= m
    BY <1>0, <1>1, LeastNat
  <1>3. PICK t \in Seq(Seq(S)) : Len(t) = n /\ ~Good(t)
    BY <1>2 DEF B
  <1>4. t # <<>>
    <2>1. ss \o <<>> = ss /\ FlattenSeq(ss) \o <<>> = FlattenSeq(ss)
      BY FlatSeq
    <2> QED  BY <1>3, <2>1, FlatEmpty
  <1>5. PICK u \in Seq(Seq(S)), x \in Seq(S) :
          Len(u) \in Nat /\ Len(t) = Len(u) + 1 /\ t = u \o <<x>> /\ t = Append(u, x)
    <2> DEFINE Q == Seq(S)
    <2> HIDE DEF Q
    <2>1. t \in Seq(Q)
      BY DEF Q
    <2>2. \E u \in Seq(Q), x \in Q :
            Len(u) \in Nat /\ Len(t) = Len(u) + 1 /\ t = u \o <<x>> /\ t = Append(u, x)
      BY <1>4, <2>1, ButLast
    <2> QED  BY <2>2 DEF Q
  <1>6. Good(u)
    <2>1. Len(u) < n
      BY <1>0, <1>3, <1>5
    <2>2. Len(u) \notin B
      BY <1>0, <1>2, <1>5, <2>1
    <2> QED  BY <1>5, <2>2 DEF B
  <1>7. ss \o t = Append(ss \o u, x) /\ ss \o u \in Seq(Seq(S))
    <2>1. ss \o u \in Seq(Seq(S)) /\ <<x>> \in Seq(Seq(S))
      OBVIOUS
    <2>2. Append(ss \o u, x) = (ss \o u) \o <<x>>
      BY <2>1, AppendIsConcat, Zenon
    <2>3. ss \o (u \o <<x>>) = (ss \o u) \o <<x>>
      <3> DEFINE y == <<x>>
                 Q == Seq(S)
      <3>1. y \in Seq(Q) /\ u \in Seq(Q) /\ ss \in Seq(Q)
        BY <2>1
      <3> HIDE DEF y, Q
      <3> QED  BY <3>1, ConcatIsAssociative DEF y
    <2> QED  BY <1>5, <2>1, <2>2, <2>3
  <1>8. FlattenSeq(ss \o t) = FlattenSeq(ss \o u) \o x /\ FlattenSeq(t) = FlattenSeq(u) \o x
    BY <1>5, <1>7, FlatAppend
  <1>9. (FlattenSeq(ss) \o FlattenSeq(u)) \o x = FlattenSeq(ss) \o (FlattenSeq(u) \o x)
    <2> DEFINE p == FlattenSeq(ss)
               q == FlattenSeq(u)
    <2>1. p \in Seq(S) /\ q \in Seq(S) /\ x \in Seq(S)
      BY FlatSeq
    <2> HIDE DEF p, q
    <2>2. (p \o q) \o x = p \o (q \o x)
      BY <2>1, ConcatIsAssociative, SMTT(30)
    <2> QED  BY <2>2 DEF p, q
  <1> QED  BY <1>3, <1>6, <1>8, <1>9

(***************************************************************************)
(* The reference, by the function that its definition chooses: from each place *)
(* on, what there is to read.                                              *)
(***************************************************************************)
Opt == Octet \X Seq(Octet)

FromStep(s, F, k) ==
  LET i == Len(s) + 1 - k
  IN IF k = 0 \/ s[i] = End THEN [whole |-> TRUE, list |-> <<>>]
     ELSE IF s[i] = Pad THEN F[k - 1]
     ELSE IF k = 1 \/ s[i + 1] > k - 2 THEN [whole |-> FALSE, list |-> <<>>]
     ELSE LET rest == F[k - 2 - s[i + 1]]
          IN [rest EXCEPT !.list =
                <<<<s[i], SubSeq(s, i + 2, i + 1 + s[i + 1])>>>> \o @]
IsFrom(s, F, n) == F = [k \in 0..n |-> FromStep(s, F, k)]
From(s) == CHOOSE F : IsFrom(s, F, Len(s))

\* The options from position i on.
Rest(s, i) == From(s)[Len(s) + 1 - i]

LEMMA OptionsIs == ASSUME NEW s PROVE Options(s) = From(s)[Len(s)]
  BY DEF Options, From, IsFrom, FromStep

\* In a sequence of octets, the step to a place only needs those before it.
LEMMA FromStepNeeds ==
  ASSUME NEW s \in Seq(Octet), NEW k \in 0 .. Len(s), NEW F, NEW G,
         \A j \in 0 .. k - 1 : F[j] = G[j]
  PROVE  FromStep(s, F, k) = FromStep(s, G, k)
  <1>1. Top \in Nat /\ Octet \subseteq Nat
    BY PacketOptionsAssumption DEF Octet
  <1> DEFINE i == Len(s) + 1 - k
  <1>2. CASE k = 0 \/ s[i] = End
    BY <1>2 DEF FromStep
  <1>3. CASE k # 0 /\ k # 1
    <2>1. s[i + 1] \in Nat /\ k - 1 \in 0 .. k - 1
      <3>1. Len(s) \in Nat /\ i + 1 \in 1 .. Len(s) /\ k - 1 \in 0 .. k - 1
        BY <1>3
      <3> HIDE DEF i
      <3>2. s[i + 1] \in Octet
        BY <3>1
      <3> QED  BY <1>1, <3>1, <3>2
    <2>2. ~ (s[i + 1] > k - 2) => k - 2 - s[i + 1] \in 0 .. k - 1
      BY <2>1, <1>3
    <2>3. F[k - 1] = G[k - 1]
          /\ (~ (s[i + 1] > k - 2) => F[k - 2 - s[i + 1]] = G[k - 2 - s[i + 1]])
      BY <2>1, <2>2
    <2> QED  BY <1>3, <2>3 DEF FromStep
  <1>4. CASE k = 1
    <2>1. F[0] = G[0]
      BY <1>4
    <2> QED  BY <1>4, <2>1 DEF FromStep
  <1> QED  BY <1>2, <1>3, <1>4

\* There is a function like it, up to any place.
LEMMA FromExists ==
  ASSUME NEW s \in Seq(Octet), NEW n \in Nat, n <= Len(s)
  PROVE  \E F : IsFrom(s, F, n)
  <1> DEFINE B == {m \in 0..n : ~ \E F : IsFrom(s, F, m)}
  <1>0. B \in SUBSET Nat
    OBVIOUS
  <1>1. SUFFICES ASSUME B # {} PROVE FALSE
    <2>1. n \in 0..n
      OBVIOUS
    <2> QED  BY <2>1 DEF B
  <1> HIDE DEF B
  <1>2. PICK m \in B : \A k \in B : m <= k
    BY <1>0, <1>1, LeastNat
  <1>3. m \in 0..n /\ ~ \E F : IsFrom(s, F, m)
    BY <1>2 DEF B
  <1>4. \E G : \A k \in 0 .. m - 1 : G[k] = FromStep(s, G, k)
    <2>1. CASE m = 0
      BY <2>1
    <2>2. CASE m # 0
      <3>1. PICK G : IsFrom(s, G, m - 1)
        BY <1>2, <1>3, <2>2 DEF B
      <3> QED  BY <3>1 DEF IsFrom
    <2> QED  BY <2>1, <2>2
  <1>5. PICK G : \A k \in 0 .. m - 1 : G[k] = FromStep(s, G, k)
    BY <1>4
  <1> DEFINE F == [k \in 0..m |-> FromStep(s, G, k)]
  <1>6. \A k \in 0 .. m - 1 : F[k] = G[k]
    BY <1>3, <1>5
  <1>7. \A k \in 0..m : FromStep(s, F, k) = FromStep(s, G, k)
    <2> HIDE DEF F
    <2> TAKE k \in 0..m
    <2>1. k \in 0 .. Len(s) /\ \A j \in 0 .. k - 1 : F[j] = G[j]
      BY <1>3, <1>6
    <2> QED  BY <2>1, FromStepNeeds
  <1>8. IsFrom(s, F, m)
    BY <1>7 DEF IsFrom
  <1> QED  BY <1>3, <1>8

\* The laws of the reference.
LEMMA RestStep ==
  ASSUME NEW s \in Seq(Octet), NEW k \in 0 .. Len(s)
  PROVE  From(s)[k] = FromStep(s, From(s), k)
  <1>1. Len(s) \in Nat
    OBVIOUS
  <1>2. IsFrom(s, From(s), Len(s))
    BY <1>1, FromExists DEF From
  <1> HIDE DEF From
  <1> QED  BY <1>2 DEF IsFrom

Torn == [whole |-> FALSE, list |-> <<>>]
Done == [whole |-> TRUE, list |-> <<>>]
Found == [whole : BOOLEAN, list : Seq(Opt)]

LEMMA RestAtEnd ==
  ASSUME NEW s \in Seq(Octet), NEW i \in 1 .. Len(s) + 1, i <= Len(s) => s[i] = End
  PROVE  Rest(s, i) = Done
  <1> DEFINE k == Len(s) + 1 - i
  <1>1. k \in 0 .. Len(s) /\ (k = 0 \/ s[i] = End) /\ Len(s) + 1 - k = i
    OBVIOUS
  <1> HIDE DEF k
  <1>2. From(s)[k] = Done
    <2>1. From(s)[k] = FromStep(s, From(s), k)
      BY <1>1, RestStep
    <2>2. k = 0 \/ s[Len(s) + 1 - k] = End
      BY <1>1
    <2> QED  BY <2>1, <2>2 DEF FromStep, Done
  <1> QED  BY <1>2 DEF Rest, k

LEMMA RestAtPad ==
  ASSUME NEW s \in Seq(Octet), NEW i \in 1 .. Len(s), s[i] = Pad
  PROVE  Rest(s, i) = Rest(s, i + 1)
  <1> DEFINE k == Len(s) + 1 - i
  <1>1. k \in 0 .. Len(s) /\ k # 0 /\ Len(s) + 1 - k = i /\ k - 1 = Len(s) + 1 - (i + 1)
    OBVIOUS
  <1>2. Pad # End
    BY PacketOptionsAssumption DEF Pad, End
  <1> HIDE DEF k
  <1>3. From(s)[k] = From(s)[k - 1]
    BY <1>1, <1>2, RestStep DEF FromStep
  <1> QED  BY <1>1, <1>3 DEF Rest, k

LEMMA RestAtTorn ==
  ASSUME NEW s \in Seq(Octet), NEW i \in 1 .. Len(s), s[i] \notin {Pad, End},
         i = Len(s) \/ i + 1 + s[i + 1] > Len(s)
  PROVE  Rest(s, i) = Torn
  <1> DEFINE k == Len(s) + 1 - i
  <1>1. k \in 0 .. Len(s) /\ k # 0 /\ Len(s) + 1 - k = i
    OBVIOUS
  <1>2. k = 1 \/ s[i + 1] > k - 2
    <2>1. i # Len(s) => s[i + 1] \in Octet
      OBVIOUS
    <2>2. i # Len(s) => s[i + 1] \in Nat
      BY <2>1, PacketOptionsAssumption DEF Octet
    <2>3. i = Len(s) => k = 1
      OBVIOUS
    <2>4. i # Len(s) => s[i + 1] > k - 2
      BY <2>2
    <2> QED  BY <2>3, <2>4
  <1> HIDE DEF k
  <1>3. From(s)[k] = Torn
    BY <1>1, <1>2, RestStep DEF FromStep, Torn
  <1> QED  BY <1>3 DEF Rest, k

LEMMA RestAtOption ==
  ASSUME NEW s \in Seq(Octet), NEW i \in 1 .. Len(s), s[i] \notin {Pad, End},
         i # Len(s), i + 1 + s[i + 1] <= Len(s)
  PROVE  Rest(s, i) = [Rest(s, i + 2 + s[i + 1]) EXCEPT !.list =
                        <<<<s[i], SubSeq(s, i + 2, i + 1 + s[i + 1])>>>> \o @]
  <1> DEFINE k == Len(s) + 1 - i
  <1>1. k \in 0 .. Len(s) /\ k # 0 /\ k # 1 /\ Len(s) + 1 - k = i
    OBVIOUS
  <1>2. s[i + 1] \in Nat
    <2>1. s[i + 1] \in Octet
      OBVIOUS
    <2> QED  BY <2>1, PacketOptionsAssumption DEF Octet
  <1>3. ~(s[i + 1] > k - 2) /\ k - 2 - s[i + 1] = Len(s) + 1 - (i + 2 + s[i + 1])
    BY <1>2
  <1> HIDE DEF k
  <1>4. From(s)[k] = [From(s)[k - 2 - s[i + 1]] EXCEPT !.list =
                        <<<<s[i], SubSeq(s, i + 2, i + 1 + s[i + 1])>>>> \o @]
    BY <1>1, <1>3, RestStep DEF FromStep
  <1> QED  BY <1>3, <1>4 DEF Rest, k

\* At any place there is something to be said of the rest.
LEMMA OctetsAre ==
  ASSUME NEW s \in Seq(Octet), NEW i \in 1 .. Len(s), i # Len(s)
  PROVE  s[i] \in Octet /\ s[i + 1] \in Nat
  <1>1. s[i] \in Octet /\ s[i + 1] \in Octet
    OBVIOUS
  <1> QED  BY <1>1, PacketOptionsAssumption DEF Octet

LEMMA ValueType ==
  ASSUME NEW s \in Seq(Octet), NEW i \in 1 .. Len(s), i # Len(s), i + 1 + s[i + 1] <= Len(s)
  PROVE  <<s[i], SubSeq(s, i + 2, i + 1 + s[i + 1])>> \in Opt
  <1> DEFINE n == s[i + 1]
  <1>1. s[i] \in Octet /\ n \in Nat
    BY OctetsAre
  <1>2. SubSeq(s, i + 2, i + 1 + n) \in Seq(Octet)
    <2>1. i + 1 + n <= Len(s) /\ i \in Nat
      OBVIOUS
    <2> HIDE DEF n
    <2> QED  BY <1>1, <2>1
  <1> QED  BY <1>1, <1>2 DEF Opt

\* What there is to read is a list of options, from any place on.
LEMMA RestType ==
  ASSUME NEW s \in Seq(Octet), NEW i \in 1 .. Len(s) + 1
  PROVE  Rest(s, i) \in Found
  <1> DEFINE At(k) == Len(s) + 1 - k
             B == {k \in 0 .. Len(s) : Rest(s, At(k)) \notin Found}
  <1>0. B \in SUBSET Nat
    OBVIOUS
  <1>1. SUFFICES ASSUME B # {} PROVE FALSE
    <2>1. Len(s) + 1 - i \in 0 .. Len(s) /\ At(Len(s) + 1 - i) = i
      OBVIOUS
    <2> QED  BY <2>1 DEF B
  <1> HIDE DEF B
  <1>2. PICK k \in B : \A j \in B : k <= j
    BY <1>0, <1>1, LeastNat
  <1> DEFINE p == At(k)
  <1>3. k \in 0 .. Len(s) /\ Rest(s, p) \notin Found
    BY <1>2 DEF B
  <1>4. p \in 1 .. Len(s) + 1 /\ p \in Nat /\ k = Len(s) + 1 - p /\ Len(s) \in Nat
    BY <1>3
  <1> HIDE DEF p
  <1>5. ASSUME NEW j \in 1 .. Len(s) + 1, p < j PROVE Rest(s, j) \in Found
    <2>1. Len(s) + 1 - j \in 0 .. Len(s) /\ Len(s) + 1 - j < k /\ At(Len(s) + 1 - j) = j
      BY <1>4, <1>5
    <2>2. Len(s) + 1 - j \notin B
      BY <1>0, <1>2, <2>1
    <2> QED  BY <2>1, <2>2 DEF B
  <1>6. p <= Len(s) /\ s[p] # End
    <2>1. Done \in Found
      BY DEF Done, Found
    <2> QED  BY <1>3, <1>4, <2>1, RestAtEnd
  <1>7. p \in 1 .. Len(s) /\ p + 1 \in 1 .. Len(s) + 1 /\ p < p + 1
    BY <1>4, <1>6
  <1>8. s[p] # Pad
    BY <1>3, <1>5, <1>7, RestAtPad
  <1>9. p # Len(s) /\ ~ (p + 1 + s[p + 1] > Len(s))
    <2>1. Torn \in Found
      BY DEF Torn, Found
    <2> QED  BY <1>3, <1>6, <1>7, <1>8, <2>1, RestAtTorn
  <1> DEFINE n == s[p + 1]
             q == p + 2 + n
  <1>10. n \in Nat
    BY <1>7, <1>9, OctetsAre
  <1>11. p + 1 + n <= Len(s) /\ q \in 1 .. Len(s) + 1 /\ p < q
    <2> HIDE DEF n
    <2> QED  BY <1>4, <1>9, <1>10 DEF n
  <1>12. <<s[p], SubSeq(s, p + 2, p + 1 + n)>> \in Opt
    BY <1>7, <1>9, <1>11, ValueType
  <1>13. Rest(s, q) \in Found
    BY <1>5, <1>11
  <1>14. Rest(s, p) = [Rest(s, q) EXCEPT !.list = <<<<s[p], SubSeq(s, p + 2, p + 1 + n)>>>> \o @]
    BY <1>6, <1>7, <1>8, <1>9, <1>11, RestAtOption
  <1> DEFINE o == <<s[p], SubSeq(s, p + 2, p + 1 + n)>>
             r == Rest(s, q)
  <1>15. o \in Opt /\ r \in Found /\ Rest(s, p) = [r EXCEPT !.list = <<o>> \o @]
    BY <1>12, <1>13, <1>14
  <1> HIDE DEF o, r
  <1>16. Rest(s, p) \in Found
    <2>1. r.list \in Seq(Opt) /\ r.whole \in BOOLEAN
          /\ Rest(s, p) = [whole |-> r.whole, list |-> <<o>> \o r.list]
      BY <1>15 DEF Found
    <2> DEFINE v == <<o>> \o r.list
    <2>2. v \in Seq(Opt)
      <3>1. <<o>> \in Seq(Opt)
        BY <1>15
      <3> QED  BY <2>1, <3>1
    <2> HIDE DEF v
    <2>3. [whole |-> r.whole, list |-> v] \in Found
      BY <2>1, <2>2 DEF Found
    <2> QED  BY <2>1, <2>3 DEF v
  <1> QED  BY <1>3, <1>16

(***************************************************************************)
(* The loop that reads an area, at position i after the options in list.   *)
(***************************************************************************)
Continues(s, i, list) ==
  /\ i \in 1 .. Len(s) + 1
  /\ list \in Seq(Opt)
  /\ Options(s).list = list \o Rest(s, i).list
  /\ Options(s).whole = Rest(s, i).whole

\* A round of the loop keeps to the reference: at the start, at a pad, at an option.
LEMMA ContinuesStart ==
  ASSUME NEW s \in Seq(Octet)
  PROVE  Continues(s, 1, <<>>)
  <1>1. 1 \in 1 .. Len(s) + 1 /\ Len(s) + 1 - 1 = Len(s)
    OBVIOUS
  <1>2. Options(s) = Rest(s, 1)
    BY <1>1, OptionsIs DEF Rest
  <1>3. Rest(s, 1) \in Found
    BY <1>1, RestType
  <1>4. Rest(s, 1).list = <<>> \o Rest(s, 1).list
    BY <1>3 DEF Found
  <1> QED  BY <1>1, <1>2, <1>4 DEF Continues

LEMMA ContinuesPad ==
  ASSUME NEW s \in Seq(Octet), NEW i, NEW list, Continues(s, i, list), i <= Len(s), s[i] = Pad
  PROVE  Continues(s, i + 1, list)
  <1>1. i \in 1 .. Len(s) /\ i + 1 \in 1 .. Len(s) + 1
    BY DEF Continues
  <1> QED  BY <1>1, RestAtPad DEF Continues

LEMMA ContinuesOption ==
  ASSUME NEW s \in Seq(Octet), NEW i, NEW list, Continues(s, i, list), i <= Len(s),
         s[i] \notin {Pad, End}, i + 1 <= Len(s), i + 1 + s[i + 1] <= Len(s)
  PROVE  /\ <<s[i], SubSeq(s, i + 2, i + 1 + s[i + 1])>> \in Opt
         /\ Continues(s, i + 1 + s[i + 1] + 1,
                   Append(list, <<s[i], SubSeq(s, i + 2, i + 1 + s[i + 1])>>))
  <1> DEFINE n == s[i + 1]
             o == <<s[i], SubSeq(s, i + 2, i + 1 + n)>>
             q == i + 2 + n
  <1>1. i \in 1 .. Len(s) /\ i # Len(s)
    BY DEF Continues
  <1>2. n \in Nat /\ o \in Opt
    BY <1>1, OctetsAre, ValueType
  <1>3. q \in 1 .. Len(s) + 1 /\ q = i + 1 + n + 1
    <2>1. i + 1 + n <= Len(s) /\ i \in Nat /\ Len(s) \in Nat /\ n \in Nat
      BY <1>1, <1>2
    <2> HIDE DEF n
    <2> QED  BY <1>1, <2>1
  <1>4. Rest(s, q) \in Found
    BY <1>3, RestType
  <1>5. Rest(s, i) = [Rest(s, q) EXCEPT !.list = <<o>> \o @]
    BY <1>1, RestAtOption
  <1>6. /\ list \in Seq(Opt) /\ Options(s).list = list \o Rest(s, i).list
        /\ Options(s).whole = Rest(s, i).whole
    BY DEF Continues
  <1> DEFINE r == Rest(s, q)
             t == Rest(s, i)
  <1>7. t = [r EXCEPT !.list = <<o>> \o @] /\ r \in Found
    BY <1>4, <1>5
  <1> HIDE DEF r, t, o
  <1>8. t.whole = r.whole /\ t.list = <<o>> \o r.list /\ r.list \in Seq(Opt)
    BY <1>7 DEF Found
  <1>9. list \o (<<o>> \o r.list) = Append(list, o) \o r.list /\ Append(list, o) \in Seq(Opt)
    <2> DEFINE u == r.list
    <2>1. u \in Seq(Opt) /\ <<o>> \in Seq(Opt)
      BY <1>2, <1>8
    <2> HIDE DEF u
    <2>2. list \o (<<o>> \o u) = (list \o <<o>>) \o u
      BY <1>6, <2>1
    <2>3. Append(list, o) = list \o <<o>> /\ Append(list, o) \in Seq(Opt)
      BY <1>2, <1>6
    <2> QED  BY <2>2, <2>3 DEF u
  <1>10. /\ Options(s).list = Append(list, o) \o r.list
         /\ Options(s).whole = r.whole
    BY <1>6, <1>8, <1>9 DEF t
  <1>11. Continues(s, q, Append(list, o))
    BY <1>3, <1>9, <1>10 DEF Continues, r
  <1> QED  BY <1>2, <1>3, <1>11 DEF o

(***************************************************************************)
(* The octets of a packet.                                                 *)
(***************************************************************************)
\* The dump goes on with the first area whatever parse has gone on to.
PacketInv == PacketTypeOK /\ NoPanic /\ areas["options"] # NotRead

LEMMA PacketInvInit == Init => PacketInv
  <1> SUFFICES ASSUME Init PROVE PacketInv
    OBVIOUS
  <1> USE PacketOptionsAssumption
  <1>1. PICK o \in OptionAreas :
          areas = [a \in Area |-> IF a = "options" THEN o ELSE NotRead]
    BY DEF Init
  <1>2. areas \in [Area -> Seq(Octet) \cup {NotRead}] /\ areas["options"] # NotRead
    BY <1>1 DEF Area
  <1>3. options \in [DOMAIN options -> Seq(Octet)] /\ DOMAIN options \subseteq Octet
    BY DEF Init
  <1> QED  BY <1>2, <1>3 DEF Init, PacketInv, PacketTypeOK, NoPanic, Area, Header

\* What is between two positions of an area.
LEMMA ValueIn ==
  ASSUME NEW s \in Seq(Octet), NEW i \in Nat \ {0}, i + 1 <= Len(s)
  PROVE  /\ s[i] \in Octet /\ s[i + 1] \in Nat
         /\ InBounds(s, i + 1, i + 1)
         /\ i + 1 + s[i + 1] <= Len(s) =>
              /\ InBounds(s, i + 2, i + 1 + s[i + 1])
              /\ SubSeq(s, i + 2, i + 1 + s[i + 1]) \in Seq(Octet)
              /\ i + 1 + s[i + 1] + 1 \in Nat \ {0}
  <1>1. Top \in Nat /\ Octet \subseteq Nat
    BY PacketOptionsAssumption DEF Octet
  <1>2. s[i] \in Octet /\ s[i + 1] \in Octet
    OBVIOUS
  <1>3. s[i + 1] \in Nat
    BY <1>1, <1>2
  <1>4. ASSUME i + 1 + s[i + 1] <= Len(s)
        PROVE  SubSeq(s, i + 2, i + 1 + s[i + 1]) \in Seq(Octet)
    BY <1>3, <1>4
  <1> QED  BY <1>2, <1>3, <1>4 DEF InBounds

LEMMA ReadOptionInv == ASSUME PacketInv, ReadOption PROVE PacketInv'
  <1>1. /\ Bytes \in Seq(Octet) /\ pos \in Nat \ {0} /\ pos <= Len(Bytes)
        /\ DOMAIN options \subseteq Octet /\ options \in [DOMAIN options -> Seq(Octet)]
        /\ UNCHANGED <<header, areas, area, overload, dumpVars>>
    BY DEF PacketInv, PacketTypeOK, ReadOption, Bytes
  <1>2. CASE UNCHANGED <<pos, options>> /\ verdict' = "error"
    BY <1>1, <1>2 DEF PacketInv, PacketTypeOK, NoPanic, dumpVars
  <1>3. CASE HasLength
    <2>1. /\ Bytes[pos] \in Octet /\ InBounds(Bytes, pos + 1, pos + 1)
          /\ HasValue =>
               /\ InBounds(Bytes, pos + 2, pos + 1 + Bytes[pos + 1])
               /\ SubSeq(Bytes, pos + 2, pos + 1 + Bytes[pos + 1]) \in Seq(Octet)
               /\ pos + 1 + Bytes[pos + 1] + 1 \in Nat \ {0}
      BY <1>1, <1>3, ValueIn DEF HasLength, HasValue
    <2>2. CASE HasValue
      <3> DEFINE more == SubSeq(Bytes, pos + 2, pos + 1 + Bytes[pos + 1])
      <3>1. /\ options' = Extended(Bytes[pos], more)
            /\ pos' = pos + 1 + Bytes[pos + 1] + 1
            /\ verdict' = verdict
        BY <1>3, <2>1, <2>2 DEF ReadOption
      <3>2. more \in Seq(Octet) /\ pos' \in Nat \ {0}
        BY <2>1, <2>2, <3>1
      <3> HIDE DEF more
      <3>3. DOMAIN options' \subseteq Octet /\ options' \in [DOMAIN options' -> Seq(Octet)]
        BY <1>1, <2>1, <3>1, <3>2 DEF Extended
      <3> QED  BY <1>1, <3>1, <3>2, <3>3 DEF PacketInv, PacketTypeOK, NoPanic, dumpVars
    <2>3. CASE ~HasValue
      BY <1>2, <1>3, <2>1, <2>3 DEF ReadOption
    <2> QED  BY <2>2, <2>3
  <1>4. CASE ~HasLength
    BY <1>2, <1>4 DEF ReadOption
  <1> QED  BY <1>3, <1>4

LEMMA EnterInv ==
  ASSUME PacketInv, UNCHANGED <<header, options, dumpVars>>, overload' \in Seq(Octet),
         EnterFile \/ EnterName
  PROVE  PacketInv'
  <1>1. PICK a \in Area \ {"options"}, s \in Seq(Octet) :
          /\ area' = a /\ pos' = 1 /\ verdict' = verdict
          /\ areas' = [areas EXCEPT ![a] = s]
    BY PacketOptionsAssumption DEF EnterFile, EnterName, Enter, Area
  <1>2. areas' \in [Area -> Seq(Octet) \cup {NotRead}] /\ areas'[area'] = s
        /\ areas'["options"] = areas["options"]
    BY <1>1 DEF PacketInv, PacketTypeOK, Area
  <1>3. areas'[area'] # NotRead
    BY <1>1, <1>2, PacketOptionsAssumption
  <1> QED  BY <1>1, <1>2, <1>3 DEF PacketInv, PacketTypeOK, NoPanic, dumpVars

LEMMA ParseInv == ASSUME PacketInv, Parse PROVE PacketInv'
  <1>1. CASE RefuseHeader
    BY <1>1 DEF RefuseHeader, PacketInv, PacketTypeOK, NoPanic, dumpVars
  <1>2. CASE SkipPad
    BY <1>2 DEF SkipPad, PacketInv, PacketTypeOK, NoPanic, dumpVars
  <1>3. CASE OptionsEnd
    <2>1. UNCHANGED <<header, options, dumpVars>>
      BY <1>3 DEF OptionsEnd
    <2>2. overload' \in Seq(Octet)
      BY <1>3 DEF OptionsEnd, PacketInv, PacketTypeOK
    <2>3. CASE EnterFile \/ EnterName
      BY <2>1, <2>2, <2>3, EnterInv
    <2>4. CASE UNCHANGED <<areas, area, pos>> /\ verdict' \in {"checking", "error"}
      BY <2>1, <2>2, <2>4 DEF PacketInv, PacketTypeOK, NoPanic, dumpVars
    <2> QED  BY <1>3, <2>3, <2>4 DEF OptionsEnd, LeaveAreas
  <1>4. CASE FileEnd \/ NameEnd
    <2>1. UNCHANGED <<header, options, overload, dumpVars>>
      BY <1>4 DEF FileEnd, NameEnd
    <2>2. CASE EnterName
      BY <2>1, <2>2, EnterInv DEF PacketInv, PacketTypeOK
    <2>3. CASE LeaveAreas
      BY <2>1, <2>3 DEF LeaveAreas, PacketInv, PacketTypeOK, NoPanic, dumpVars
    <2> QED  BY <1>4, <2>2, <2>3 DEF FileEnd, NameEnd
  <1>5. CASE Check
    BY <1>5 DEF Check, PacketInv, PacketTypeOK, NoPanic, dumpVars
  <1> QED  BY <1>1, <1>2, <1>3, <1>4, <1>5, ReadOptionInv DEF Parse

LEMMA DumpOptionInv == ASSUME PacketInv, DumpOption PROVE PacketInv'
  <1>1. /\ Text \in Seq(Octet) /\ at \in Nat \ {0} /\ at <= Len(Text)
        /\ lines \in Seq(Octet \X Seq(Octet))
        /\ UNCHANGED parseVars
    BY DEF PacketInv, PacketTypeOK, DumpOption, Text, Area
  <1>2. CASE UNCHANGED <<at, lines>> /\ dump' = "malformed"
    BY <1>1, <1>2 DEF PacketInv, PacketTypeOK, NoPanic, parseVars
  <1>3. CASE ShowsLength
    <2>1. /\ Text[at] \in Octet /\ InBounds(Text, at + 1, at + 1)
          /\ ShowsValue =>
               /\ InBounds(Text, at + 2, at + 1 + Text[at + 1])
               /\ SubSeq(Text, at + 2, at + 1 + Text[at + 1]) \in Seq(Octet)
               /\ at + 1 + Text[at + 1] + 1 \in Nat \ {0}
      BY <1>1, <1>3, ValueIn DEF ShowsLength, ShowsValue
    <2>2. CASE ShowsValue
      <3> DEFINE shown == <<Text[at], SubSeq(Text, at + 2, at + 1 + Text[at + 1])>>
      <3>1. /\ lines' = Append(lines, shown)
            /\ at' = at + 1 + Text[at + 1] + 1
            /\ dump' = dump
        BY <1>3, <2>1, <2>2 DEF DumpOption
      <3>2. shown \in Octet \X Seq(Octet) /\ at' \in Nat \ {0}
        BY <2>1, <2>2, <3>1
      <3> HIDE DEF shown
      <3>3. lines' \in Seq(Octet \X Seq(Octet))
        BY <1>1, <3>1, <3>2
      <3> QED  BY <1>1, <3>1, <3>2, <3>3 DEF PacketInv, PacketTypeOK, NoPanic, parseVars
    <2>3. CASE ~ShowsValue
      BY <1>2, <1>3, <2>1, <2>3 DEF DumpOption
    <2> QED  BY <2>2, <2>3
  <1>4. CASE ~ShowsLength
    BY <1>2, <1>4 DEF DumpOption
  <1> QED  BY <1>3, <1>4

LEMMA DumpInv == ASSUME PacketInv, Dump PROVE PacketInv'
  <1>1. CASE DumpHeaderOnly
    BY <1>1 DEF DumpHeaderOnly, parseVars, PacketInv, PacketTypeOK, NoPanic
  <1>2. CASE DumpPad
    BY <1>2 DEF DumpPad, parseVars, PacketInv, PacketTypeOK, NoPanic
  <1>3. CASE DumpEnd
    BY <1>3 DEF DumpEnd, parseVars, PacketInv, PacketTypeOK, NoPanic
  <1> QED  BY <1>1, <1>2, <1>3, DumpOptionInv DEF Dump

LEMMA PacketInvStep == PacketInv /\ [Next]_vars => PacketInv'
  <1>1. PacketInv /\ UNCHANGED vars => PacketInv'
    BY DEF vars, PacketInv, PacketTypeOK, NoPanic
  <1> QED  BY <1>1, ParseInv, DumpInv DEF Next

THEOREM PacketInvariant == Spec => []PacketInv
  BY PacketInvInit, PacketInvStep, PTL DEF Spec

\* What parse and the dump have read of a packet is made of its octets.
THEOREM PacketTypeCorrect == Spec => []PacketTypeOK
  <1>1. PacketInv => PacketTypeOK
    BY DEF PacketInv
  <1> QED  BY <1>1, PacketInvariant, PTL

\* No packet of any length makes parse or the dump read behind its end (read_options
\* and the loop of dhcp_packet_dump).
THEOREM NoPacketPanics == Spec => []NoPanic
  <1>1. PacketInv => NoPanic
    BY DEF PacketInv
  <1> QED  BY <1>1, PacketInvariant, PTL

\* Nothing but empty sequences is the empty sequence.
LEMMA FlatNothing ==
  ASSUME NEW S, NEW ss \in Seq(Seq(S)), \A i \in 1 .. Len(ss) : ss[i] = <<>>
  PROVE  FlattenSeq(ss) = <<>>
  <1> DEFINE Empty(t) == \A i \in 1 .. Len(t) : t[i] = <<>>
             B == {n \in Nat : \E t \in Seq(Seq(S)) :
                                 Len(t) = n /\ Empty(t) /\ FlattenSeq(t) # <<>>}
  <1>0. B \in SUBSET Nat
    OBVIOUS
  <1>1. SUFFICES ASSUME B # {} PROVE FALSE
    <2>1. Len(ss) \in Nat
      OBVIOUS
    <2> QED  BY <2>1 DEF B
  <1> HIDE DEF B
  <1>2. PICK n \in B : \A m \in B : n <= m
    BY <1>0, <1>1, LeastNat
  <1>3. PICK t \in Seq(Seq(S)) : Len(t) = n /\ Empty(t) /\ FlattenSeq(t) # <<>>
    BY <1>2 DEF B
  <1>4. t # <<>>
    BY <1>3, FlatEmpty
  <1>5. PICK u \in Seq(Seq(S)), x \in Seq(S) :
          Len(u) \in Nat /\ Len(t) = Len(u) + 1 /\ t = Append(u, x)
    <2> DEFINE Q == Seq(S)
    <2> HIDE DEF Q
    <2>1. t \in Seq(Q)
      BY DEF Q
    <2>2. \E u \in Seq(Q), x \in Q : Len(u) \in Nat /\ Len(t) = Len(u) + 1 /\ t = Append(u, x)
      BY <1>4, <2>1, ButLast
    <2> QED  BY <2>2 DEF Q
  <1>6. x = <<>> /\ Empty(u)
    <2>1. /\ \A i \in 1 .. Len(u) : t[i] = u[i] /\ i \in 1 .. Len(t)
          /\ t[Len(u) + 1] = x /\ Len(u) + 1 \in 1 .. Len(t)
      BY <1>5
    <2> QED  BY <1>3, <2>1
  <1>7. FlattenSeq(u) = <<>>
    <2>1. Len(u) < n
      BY <1>0, <1>3, <1>5
    <2>2. Len(u) \notin B
      BY <1>0, <1>2, <1>5, <2>1
    <2> QED  BY <1>5, <1>6, <2>2 DEF B
  <1>8. FlattenSeq(t) = FlattenSeq(u) \o x
    BY <1>5, FlatAppend
  <1> QED  BY <1>3, <1>6, <1>7, <1>8

(***************************************************************************)
(* Joined: the codes of a list, and what each has in it.                   *)
(***************************************************************************)
Codes(list) == {list[i][1] : i \in DOMAIN list}
PartsOf(list, c) == [i \in DOMAIN list |-> IF list[i][1] = c THEN list[i][2] ELSE <<>>]
ValueOf(list, c) == FlattenSeq(PartsOf(list, c))

LEMMA JoinedIs ==
  ASSUME NEW list
  PROVE  Joined(list) = [c \in Codes(list) |-> ValueOf(list, c)]
  BY DEF Joined, Codes, PartsOf, ValueOf

LEMMA PartsType ==
  ASSUME NEW list \in Seq(Opt), NEW c
  PROVE  PartsOf(list, c) \in Seq(Seq(Octet)) /\ Len(PartsOf(list, c)) = Len(list)
  <1>1. DOMAIN list = 1 .. Len(list) /\ Len(list) \in Nat
    OBVIOUS
  <1>2. \A i \in 1 .. Len(list) : list[i][2] \in Seq(Octet)
    <2>1. \A i \in 1 .. Len(list) : list[i] \in Opt
      OBVIOUS
    <2> QED  BY <2>1 DEF Opt
  <1>3. <<>> \in Seq(Octet)
    OBVIOUS
  <1>4. \A i \in 1 .. Len(list) : PartsOf(list, c)[i] \in Seq(Octet)
    BY <1>1, <1>2, <1>3 DEF PartsOf
  <1>5. PartsOf(list, c) \in [1 .. Len(list) -> Seq(Octet)]
    BY <1>1, <1>2, <1>3 DEF PartsOf
  <1> DEFINE Q == Seq(Octet)
             p == PartsOf(list, c)
             n == Len(list)
  <1>6. p \in [1 .. n -> Q] /\ n \in Nat
    BY <1>1, <1>5
  <1> HIDE DEF Q, p, n
  <1>7. p \in Seq(Q) /\ Len(p) = n
    BY <1>6
  <1> QED  BY <1>7 DEF Q, p, n

LEMMA ValueOfType ==
  ASSUME NEW list \in Seq(Opt), NEW c
  PROVE  ValueOf(list, c) \in Seq(Octet)
  BY PartsType, FlatSeq DEF ValueOf

\* The value of a code in two lists is its value in the one, then in the other.
LEMMA ValueOfConcat ==
  ASSUME NEW a \in Seq(Opt), NEW b \in Seq(Opt), NEW c
  PROVE  ValueOf(a \o b, c) = ValueOf(a, c) \o ValueOf(b, c)
  <1> DEFINE p == PartsOf(a, c)
             q == PartsOf(b, c)
             r == PartsOf(a \o b, c)
  <1>1. a \o b \in Seq(Opt) /\ Len(a \o b) = Len(a) + Len(b)
    OBVIOUS
  <1>2. /\ p \in Seq(Seq(Octet)) /\ q \in Seq(Seq(Octet)) /\ r \in Seq(Seq(Octet))
        /\ Len(p) = Len(a) /\ Len(q) = Len(b) /\ Len(r) = Len(a) + Len(b)
    BY <1>1, PartsType
  <1>3. r = p \o q
    <2>1. \A i \in 1 .. Len(a) : (a \o b)[i] = a[i]
      OBVIOUS
    <2>2. \A i \in Len(a) + 1 .. Len(a) + Len(b) : (a \o b)[i] = b[i - Len(a)]
      OBVIOUS
    <2>3. /\ DOMAIN a = 1 .. Len(a) /\ DOMAIN b = 1 .. Len(b)
          /\ DOMAIN (a \o b) = 1 .. Len(a) + Len(b)
          /\ Len(a) \in Nat /\ Len(b) \in Nat
      BY <1>1
    <2>4. \A i \in 1 .. Len(a) : r[i] = p[i]
      BY <2>1, <2>3 DEF PartsOf
    <2>5. \A i \in Len(a) + 1 .. Len(a) + Len(b) : r[i] = q[i - Len(a)]
      BY <2>2, <2>3 DEF PartsOf
    <2> DEFINE Q == Seq(Octet)
    <2>6. p \in Seq(Q) /\ q \in Seq(Q) /\ r \in Seq(Q)
      BY <1>2
    <2> HIDE DEF p, q, r, Q
    <2>7. p \o q \in Seq(Q) /\ Len(p \o q) = Len(r)
      BY <1>2, <2>6
    <2>8. ASSUME NEW i \in 1 .. Len(r) PROVE r[i] = (p \o q)[i]
      <3>1. (p \o q)[i] = IF i <= Len(p) THEN p[i] ELSE q[i - Len(p)]
        BY <1>2, <2>6
      <3>2. CASE i <= Len(a)
        <4>1. i \in 1 .. Len(a)
          BY <2>3, <3>2
        <4> QED  BY <1>2, <2>4, <3>1, <3>2, <4>1
      <3>3. CASE ~(i <= Len(a))
        <4>1. i \in Len(a) + 1 .. Len(a) + Len(b)
          BY <1>2, <2>3, <3>3
        <4> QED  BY <1>2, <2>5, <3>1, <3>3, <4>1
      <3> QED  BY <3>2, <3>3
    <2> QED  BY <2>6, <2>7, <2>8, SeqEqual
  <1> HIDE DEF p, q, r
  <1>4. FlattenSeq(p \o q) = FlattenSeq(p) \o FlattenSeq(q)
    BY <1>2, FlatConcat
  <1> QED  BY <1>3, <1>4 DEF ValueOf, p, q, r

LEMMA ValueOfNone ==
  ASSUME NEW list \in Seq(Opt), NEW c, c \notin Codes(list)
  PROVE  ValueOf(list, c) = <<>>
  <1>1. DOMAIN list = 1 .. Len(list)
    OBVIOUS
  <1>2. \A i \in 1 .. Len(list) : PartsOf(list, c)[i] = <<>>
    BY <1>1 DEF PartsOf, Codes
  <1> QED  BY <1>2, PartsType, FlatNothing DEF ValueOf

LEMMA ValueOfOne ==
  ASSUME NEW o \in Opt, NEW c
  PROVE  /\ Codes(<<o>>) = {o[1]}
         /\ ValueOf(<<o>>, c) = IF o[1] = c THEN o[2] ELSE <<>>
  <1>1. PartsOf(<<o>>, c) = <<IF o[1] = c THEN o[2] ELSE <<>>>>
    BY DEF PartsOf
  <1>2. ValueOf(<<o>>, c) = IF o[1] = c THEN o[2] ELSE <<>>
    BY <1>1, FlatOne DEF ValueOf
  <1>3. Codes(<<o>>) = {o[1]}
    BY DEF Codes
  <1> QED  BY <1>2, <1>3

LEMMA CodesConcat ==
  ASSUME NEW a \in Seq(Opt), NEW b \in Seq(Opt)
  PROVE  Codes(a \o b) = Codes(a) \cup Codes(b)
  <1>1. /\ DOMAIN a = 1 .. Len(a) /\ DOMAIN b = 1 .. Len(b)
        /\ DOMAIN (a \o b) = 1 .. Len(a) + Len(b)
        /\ Len(a) \in Nat /\ Len(b) \in Nat
    OBVIOUS
  <1>2. \A i \in 1 .. Len(a) : (a \o b)[i] = a[i] /\ i \in 1 .. Len(a) + Len(b)
    OBVIOUS
  <1>3. \A i \in 1 .. Len(b) : (a \o b)[Len(a) + i] = b[i] /\ Len(a) + i \in 1 .. Len(a) + Len(b)
    OBVIOUS
  <1>4. \A i \in 1 .. Len(a) + Len(b) :
          i \in 1 .. Len(a) \/ \E j \in 1 .. Len(b) : i = Len(a) + j
    <2> TAKE i \in 1 .. Len(a) + Len(b)
    <2>1. i \notin 1 .. Len(a) => i - Len(a) \in 1 .. Len(b) /\ i = Len(a) + (i - Len(a))
      BY <1>1
    <2> QED  BY <2>1
  <1>5. Codes(a) \cup Codes(b) \subseteq Codes(a \o b)
    <2>1. \A i \in 1 .. Len(a) : a[i][1] \in Codes(a \o b)
      <3> TAKE i \in 1 .. Len(a)
      <3>1. i \in DOMAIN (a \o b) /\ a[i][1] = (a \o b)[i][1]
        BY <1>1, <1>2
      <3> QED  BY <3>1 DEF Codes
    <2>2. \A i \in 1 .. Len(b) : b[i][1] \in Codes(a \o b)
      <3> TAKE i \in 1 .. Len(b)
      <3>1. Len(a) + i \in DOMAIN (a \o b) /\ b[i][1] = (a \o b)[Len(a) + i][1]
        BY <1>1, <1>3
      <3> QED  BY <3>1 DEF Codes
    <2>3. \A c \in Codes(a) \cup Codes(b) :
            (\E i \in 1 .. Len(a) : c = a[i][1]) \/ (\E i \in 1 .. Len(b) : c = b[i][1])
      BY <1>1 DEF Codes
    <2> QED  BY <2>1, <2>2, <2>3
  <1>6. ASSUME NEW i \in 1 .. Len(a) + Len(b)
        PROVE  (a \o b)[i][1] \in Codes(a) \cup Codes(b)
    <2>1. CASE i \in 1 .. Len(a)
      <3>1. (a \o b)[i][1] = a[i][1] /\ i \in DOMAIN a
        BY <1>1, <1>2, <2>1
      <3> QED  BY <3>1 DEF Codes
    <2>2. ASSUME NEW j \in 1 .. Len(b), i = Len(a) + j
          PROVE  (a \o b)[i][1] \in Codes(b)
      <3>1. (a \o b)[i][1] = b[j][1] /\ j \in DOMAIN b
        BY <1>1, <1>3, <2>2
      <3> QED  BY <3>1 DEF Codes
    <2> QED  BY <1>4, <2>1, <2>2
  <1> QED  BY <1>1, <1>5, <1>6 DEF Codes

\* One more option continues what its code has so far, as read_options does.
LEMMA JoinedMore ==
  ASSUME NEW a \in Seq(Opt), NEW o \in Opt, options = Joined(a)
  PROVE  Extended(o[1], o[2]) = Joined(Append(a, o))
  <1>1. Append(a, o) = a \o <<o>> /\ <<o>> \in Seq(Opt) /\ Append(a, o) \in Seq(Opt)
    OBVIOUS
  <1>2. Codes(Append(a, o)) = Codes(a) \cup {o[1]}
    BY <1>1, CodesConcat, ValueOfOne
  <1>3. DOMAIN options = Codes(a) /\ \A c \in Codes(a) : options[c] = ValueOf(a, c)
    BY JoinedIs
  <1>4. o[2] \in Seq(Octet)
    BY DEF Opt
  <1>5. ASSUME NEW c \in Codes(a) \cup {o[1]}
        PROVE  ValueOf(Append(a, o), c)
                 = IF c # o[1] THEN options[c]
                   ELSE IF c \in DOMAIN options THEN options[c] \o o[2] ELSE o[2]
    <2> DEFINE v == ValueOf(a, c)
               w == ValueOf(<<o>>, c)
    <2>1. ValueOf(Append(a, o), c) = v \o w /\ v \in Seq(Octet)
      <3>1. ValueOf(a \o <<o>>, c) = ValueOf(a, c) \o ValueOf(<<o>>, c)
        BY <1>1, ValueOfConcat
      <3> QED  BY <1>1, <3>1, ValueOfType
    <2>2. w = IF o[1] = c THEN o[2] ELSE <<>>
      BY ValueOfOne
    <2>3. c \notin Codes(a) => v = <<>>
      BY ValueOfNone
    <2> HIDE DEF v, w
    <2>4. v \o <<>> = v /\ <<>> \o o[2] = o[2]
      BY <1>4, <2>1
    <2>5. CASE c # o[1]
      BY <1>3, <1>5, <2>1, <2>2, <2>4, <2>5 DEF v
    <2>6. CASE c = o[1] /\ c \in Codes(a)
      BY <1>3, <2>1, <2>2, <2>6 DEF v
    <2>7. CASE c = o[1] /\ c \notin Codes(a)
      BY <1>3, <2>1, <2>2, <2>3, <2>4, <2>7
    <2> QED  BY <2>5, <2>6, <2>7
  <1>6. Joined(Append(a, o)) = [c \in Codes(a) \cup {o[1]} |-> ValueOf(Append(a, o), c)]
    BY <1>2, JoinedIs
  <1> QED  BY <1>3, <1>5, <1>6 DEF Extended

(***************************************************************************)
(* What read_options has read so far.  With what the reference has in the  *)
(* rest of the area it is what the reference has in all of it, and with    *)
(* the areas before this one it is what the packet has so far.             *)
(***************************************************************************)
List(a) == Options(areas[a]).list
Whole(a) == Options(areas[a]).whole

\* What the areas before this one hold.
Prior ==
  CASE area = "options" -> <<>>
    [] area = "file" \/ overload = << 2 >> -> List("options")
    [] OTHER -> List("options") \o List("file")

\* Where parse is, and by which overload it came there.
InArea ==
  /\ area = "options" => overload = <<>>
  /\ area # "options" =>
       /\ Whole("options")
       /\ Overload \in DOMAIN Joined(List("options"))
       /\ overload = Joined(List("options"))[Overload]
       /\ overload \in (IF area = "file" THEN {<< 1 >>, << 3 >>} ELSE {<< 2 >>, << 3 >>})
  /\ area = "sname" /\ overload = << 3 >> => areas["file"] # NotRead /\ Whole("file")

SoFar == \E list \in Seq(Opt) : Continues(Bytes, pos, list) /\ options = Joined(Prior \o list)

AllRead ==
  /\ header = "good" /\ Untorn /\ options = AllSent
  /\ overload = <<>> => InUse = <<"options">>

ReadInv ==
  /\ Reading => InArea /\ SoFar
  /\ verdict = "checking" => AllRead
  /\ verdict = "parsed" => AllRead /\ Sound(AllSent)
  /\ verdict = "error" /\ header = "good" => ~(Untorn /\ Sound(AllSent))

LEMMA OptionsType ==
  ASSUME NEW s \in Seq(Octet)
  PROVE  /\ Options(s) \in Found /\ Options(s).list \in Seq(Opt)
         /\ <<>> \o Options(s).list = Options(s).list
         /\ Options(s).list \o <<>> = Options(s).list
  <1>1. 1 \in 1 .. Len(s) + 1 /\ Len(s) + 1 - 1 = Len(s)
    OBVIOUS
  <1>2. Options(s) \in Found
    BY <1>1, OptionsIs, RestType DEF Rest
  <1>3. Options(s).list \in Seq(Opt)
    BY <1>2 DEF Found
  <1> DEFINE l == Options(s).list
  <1>4. l \in Seq(Opt)
    BY <1>3
  <1> HIDE DEF l
  <1>5. <<>> \o l = l /\ l \o <<>> = l
    BY <1>4
  <1> QED  BY <1>2, <1>3, <1>5 DEF l

LEMMA AreaType ==
  ASSUME PacketTypeOK, NEW a \in Area, areas[a] # NotRead
  PROVE  areas[a] \in Seq(Octet) /\ List(a) \in Seq(Opt)
  <1>1. areas[a] \in Seq(Octet)
    BY DEF PacketTypeOK
  <1> QED  BY <1>1, OptionsType DEF List

\* What the packet holds, by the areas that are in use.
LEMMA OneArea ==
  ASSUME InUse = <<"options">>
  PROVE  /\ AllSent = Joined(List("options"))
         /\ Untorn <=> areas["options"] # NotRead /\ Whole("options")
  <1>1. DOMAIN InUse = {1} /\ InUse[1] = "options" /\ InUse # <<>>
    OBVIOUS
  <1>2. [i \in DOMAIN InUse |-> Sent[i].list] = <<List("options")>>
    BY <1>1 DEF Sent, List
  <1>3. AllSent = Joined(List("options"))
    BY <1>2, FlatOne DEF AllSent
  <1>4. Sent[1].whole = Whole("options")
    BY <1>1 DEF Sent, Whole
  <1>5. Untorn <=> areas["options"] # NotRead /\ Whole("options")
    BY <1>1, <1>4 DEF Untorn
  <1> QED  BY <1>3, <1>5

LEMMA FlatTwo ==
  ASSUME NEW S, NEW x \in Seq(S), NEW y \in Seq(S)
  PROVE  FlattenSeq(<<x, y>>) = x \o y
  <1>1. <<x>> \in Seq(Seq(S)) /\ <<x, y>> = Append(<<x>>, y)
    OBVIOUS
  <1> QED  BY <1>1, FlatAppend, FlatOne

LEMMA TwoAreas ==
  ASSUME PacketTypeOK, areas["options"] # NotRead, NEW a \in Area, areas[a] # NotRead,
         InUse = <<"options", a>>
  PROVE  /\ AllSent = Joined(List("options") \o List(a))
         /\ Untorn <=> Whole("options") /\ Whole(a)
  <1>1. DOMAIN InUse = {1, 2} /\ InUse[1] = "options" /\ InUse[2] = a /\ InUse # <<>>
    OBVIOUS
  <1>2. [i \in DOMAIN InUse |-> Sent[i].list] = <<List("options"), List(a)>>
    BY <1>1 DEF Sent, List
  <1>3. List("options") \in Seq(Opt) /\ List(a) \in Seq(Opt)
    BY AreaType DEF Area
  <1>4. AllSent = Joined(List("options") \o List(a))
    BY <1>2, <1>3, FlatTwo DEF AllSent
  <1>5. Sent[1].whole = Whole("options") /\ Sent[2].whole = Whole(a)
    BY <1>1 DEF Sent, Whole
  <1>6. Untorn <=> Whole("options") /\ Whole(a)
    BY <1>1, <1>5 DEF Untorn
  <1> QED  BY <1>4, <1>6

LEMMA ThreeAreas ==
  ASSUME PacketTypeOK, \A a \in Area : areas[a] # NotRead,
         InUse = <<"options", "file", "sname">>
  PROVE  /\ AllSent = Joined((List("options") \o List("file")) \o List("sname"))
         /\ Untorn <=> Whole("options") /\ Whole("file") /\ Whole("sname")
  <1>1. /\ DOMAIN InUse = {1, 2, 3} /\ InUse # <<>>
        /\ InUse[1] = "options" /\ InUse[2] = "file" /\ InUse[3] = "sname"
    OBVIOUS
  <1>2. [i \in DOMAIN InUse |-> Sent[i].list] = <<List("options"), List("file"), List("sname")>>
    BY <1>1 DEF Sent, List
  <1>3. List("options") \in Seq(Opt) /\ List("file") \in Seq(Opt) /\ List("sname") \in Seq(Opt)
    BY AreaType DEF Area
  <1>4. AllSent = Joined((List("options") \o List("file")) \o List("sname"))
    <2> DEFINE p == List("options")
               q == List("file")
               r == List("sname")
    <2>1. p \in Seq(Opt) /\ q \in Seq(Opt) /\ r \in Seq(Opt)
      BY <1>3
    <2>2. AllSent = Joined(FlattenSeq(<<p, q, r>>))
      BY <1>2 DEF AllSent
    <2> HIDE DEF p, q, r
    <2>3. FlattenSeq(<<p, q, r>>) = (p \o q) \o r
      <3>1. <<p, q>> \in Seq(Seq(Opt)) /\ <<p, q, r>> = Append(<<p, q>>, r)
        BY <2>1
      <3>2. FlattenSeq(<<p, q>>) = p \o q
        BY <2>1, FlatTwo
      <3>3. FlattenSeq(Append(<<p, q>>, r)) = FlattenSeq(<<p, q>>) \o r
        BY <2>1, <3>1, FlatAppend
      <3> QED  BY <3>1, <3>2, <3>3
    <2>4. AllSent = Joined((p \o q) \o r)
      BY <2>2, <2>3
    <2> QED  BY <2>4 DEF p, q, r
  <1>5. /\ Sent[1].whole = Whole("options") /\ Sent[2].whole = Whole("file")
        /\ Sent[3].whole = Whole("sname")
    BY <1>1 DEF Sent, Whole
  <1>6. \A a \in Area : areas[a] # NotRead
    OBVIOUS
  <1>7. areas["options"] # NotRead /\ areas["file"] # NotRead /\ areas["sname"] # NotRead
    BY <1>6 DEF Area
  <1>8. Untorn <=> /\ areas[InUse[1]] # NotRead /\ Sent[1].whole
                  /\ areas[InUse[2]] # NotRead /\ Sent[2].whole
                  /\ areas[InUse[3]] # NotRead /\ Sent[3].whole
    BY <1>1 DEF Untorn
  <1> QED  BY <1>1, <1>4, <1>5, <1>7, <1>8

\* The areas in use follow from the first one.
LEMMA UseOfAreas ==
  LET first == Joined(List("options"))
  IN /\ Overload \notin DOMAIN first => InUse = <<"options">>
     /\ Overload \in DOMAIN first =>
          /\ first[Overload] = << 1 >> => InUse = <<"options", "file">>
          /\ first[Overload] = << 2 >> => InUse = <<"options", "sname">>
          /\ first[Overload] = << 3 >> => InUse = <<"options", "file", "sname">>
          /\ first[Overload] \notin {<< 1 >>, << 2 >>, << 3 >>} => InUse = <<>>
  <1> DEFINE first == Joined(Options(areas["options"]).list)
             v == first[Overload]
  <1>1. /\ << 1 >> # << 2 >> /\ << 1 >> # << 3 >> /\ << 2 >> # << 3 >>
    OBVIOUS
  <1>2. InUse = IF Overload \notin DOMAIN first THEN <<"options">>
                ELSE CASE v = << 1 >> -> <<"options", "file">>
                       [] v = << 2 >> -> <<"options", "sname">>
                       [] v = << 3 >> -> <<"options", "file", "sname">>
                       [] OTHER -> <<>>
    BY DEF InUse
  <1>3. first = Joined(List("options"))
    BY DEF List
  <1> HIDE DEF first, v
  <1>4. /\ Overload \notin DOMAIN first => InUse = <<"options">>
        /\ Overload \in DOMAIN first =>
             /\ v = << 1 >> => InUse = <<"options", "file">>
             /\ v = << 2 >> => InUse = <<"options", "sname">>
             /\ v = << 3 >> => InUse = <<"options", "file", "sname">>
             /\ v \notin {<< 1 >>, << 2 >>, << 3 >>} => InUse = <<>>
    BY <1>1, <1>2
  <1> QED  BY <1>3, <1>4 DEF v

\* parse is in an area that is in use, unless the overload is none it knows.
LEMMA UseIsArea ==
  ASSUME InArea, area \in Area
  PROVE  InUse = <<>> \/ \E i \in DOMAIN InUse : InUse[i] = area
  <1>1. CASE area = "options"
    <2>1. InUse = <<>> \/ (1 \in DOMAIN InUse /\ InUse[1] = "options")
      BY UseOfAreas
    <2> QED  BY <1>1, <2>1
  <1>2. CASE area = "file"
    <2>1. InUse = <<"options", "file">> \/ InUse = <<"options", "file", "sname">>
      BY <1>2, UseOfAreas DEF InArea
    <2>2. 2 \in DOMAIN InUse /\ InUse[2] = "file"
      BY <2>1
    <2> QED  BY <1>2, <2>2
  <1>3. CASE area = "sname"
    <2>1. InUse = <<"options", "sname">> \/ InUse = <<"options", "file", "sname">>
      BY <1>3, UseOfAreas DEF InArea
    <2>2. \E i \in DOMAIN InUse : InUse[i] = "sname"
      <3>1. CASE InUse = <<"options", "sname">>
        <4>1. 2 \in DOMAIN InUse /\ InUse[2] = "sname"
          BY <3>1
        <4> QED  BY <4>1
      <3>2. CASE InUse = <<"options", "file", "sname">>
        <4>1. 3 \in DOMAIN InUse /\ InUse[3] = "sname"
          BY <3>2
        <4> QED  BY <4>1
      <3> QED  BY <2>1, <3>1, <3>2
    <2> QED  BY <1>3, <2>2
  <1> QED  BY <1>1, <1>2, <1>3 DEF Area

\* So an area with a torn option makes the packet torn.
LEMMA TornArea ==
  ASSUME InArea, area \in Area, ~Whole(area)
  PROVE  ~Untorn
  <1>1. \A i \in DOMAIN InUse : Sent[i].whole = Whole(InUse[i])
    BY DEF Sent, Whole
  <1> QED  BY <1>1, UseIsArea DEF Untorn

\* What the packet holds only depends on its areas.
LEMMA AreasKept ==
  ASSUME areas' = areas
  PROVE  /\ InUse' = InUse /\ AllSent' = AllSent /\ Untorn' = Untorn
         /\ \A a : List(a)' = List(a) /\ Whole(a)' = Whole(a)
  <1>1. InUse' = InUse
    BY DEF InUse
  <1>2. Sent' = Sent
    BY <1>1 DEF Sent
  <1>3. AllSent' = AllSent
    BY <1>1, <1>2 DEF AllSent
  <1>4. Untorn' = Untorn
    BY <1>1, <1>2 DEF Untorn
  <1>5. \A a : List(a)' = List(a) /\ Whole(a)' = Whole(a)
    BY DEF List, Whole
  <1> QED  BY <1>1, <1>3, <1>4, <1>5

\* At the end of an area, all of it has been read.
LEMMA AreaRead ==
  ASSUME PacketInv, InArea, SoFar, AtEnd
  PROVE  options = Joined(Prior \o List(area)) /\ Whole(area)
  <1>1. PICK list \in Seq(Opt) : Continues(Bytes, pos, list) /\ options = Joined(Prior \o list)
    BY DEF SoFar
  <1>2. Bytes \in Seq(Octet) /\ pos \in 1 .. Len(Bytes) + 1
    BY <1>1 DEF PacketInv, PacketTypeOK, Bytes, Continues
  <1>3. Rest(Bytes, pos) = Done
    BY <1>2, RestAtEnd DEF AtEnd
  <1>4. List(area) = list \o <<>> /\ Whole(area)
    BY <1>1, <1>3 DEF Continues, Done, List, Whole, Bytes
  <1>5. list \o <<>> = list
    OBVIOUS
  <1> QED  BY <1>1, <1>4, <1>5

LEMMA JoinedNothing == Joined(<<>>) = [c \in {} |-> <<>>]
  <1>1. Codes(<<>>) = {}
    BY DEF Codes
  <1>2. Joined(<<>>) = [c \in Codes(<<>>) |-> ValueOf(<<>>, c)]
    BY JoinedIs
  <1> QED  BY <1>1, <1>2

LEMMA ReadInvInit == Init => ReadInv
  <1> SUFFICES ASSUME Init PROVE ReadInv
    OBVIOUS
  <1>1. area = "options" /\ overload = <<>> /\ verdict = "reading" /\ pos = 1
        /\ options = [c \in {} |-> <<>>]
    BY DEF Init
  <1>2. Bytes \in Seq(Octet)
    BY PacketInvInit DEF PacketInv, PacketTypeOK, Bytes
  <1>3. Prior \o <<>> = <<>> /\ <<>> \in Seq(Opt)
    BY <1>1 DEF Prior
  <1>4. SoFar
    BY <1>1, <1>2, <1>3, ContinuesStart, JoinedNothing DEF SoFar
  <1>5. InArea
    BY <1>1 DEF InArea
  <1> QED  BY <1>1, <1>4, <1>5 DEF ReadInv

\* The areas before this one hold a list of options.
LEMMA PriorType ==
  ASSUME PacketInv, InArea, Reading
  PROVE  Prior \in Seq(Opt)
  <1>1. areas["options"] # NotRead /\ area \in Area
    BY DEF PacketInv, PacketTypeOK
  <1>2. List("options") \in Seq(Opt)
    BY <1>1, AreaType DEF PacketInv, Area
  <1>3. CASE area = "options" \/ area = "file" \/ overload = << 2 >>
    BY <1>2, <1>3 DEF Prior
  <1>4. CASE area = "sname" /\ overload # << 2 >>
    <2>1. areas["file"] # NotRead
      BY <1>4 DEF InArea
    <2>2. List("file") \in Seq(Opt)
      BY <2>1, AreaType DEF PacketInv, Area
    <2>3. Prior = List("options") \o List("file")
      BY <1>4 DEF Prior
    <2> DEFINE p == List("options")
               q == List("file")
    <2>4. p \in Seq(Opt) /\ q \in Seq(Opt) /\ Prior = p \o q
      BY <1>2, <2>2, <2>3
    <2> HIDE DEF p, q
    <2> QED  BY <2>4
  <1> QED  BY <1>1, <1>3, <1>4 DEF Area

\* Where the area stays the same, only what is read of it can change.
LEMMA InAreaKept ==
  ASSUME InArea, UNCHANGED <<areas, area, overload>>
  PROVE  InArea' /\ Prior' = Prior /\ Bytes' = Bytes
  <1>1. \A a : List(a)' = List(a) /\ Whole(a)' = Whole(a)
    BY AreasKept
  <1>2. List("options")' = List("options") /\ List("file")' = List("file")
    BY <1>1
  <1>3. Whole("options")' = Whole("options") /\ Whole("file")' = Whole("file")
    BY <1>1
  <1>4. Prior' = Prior
    BY <1>2 DEF Prior
  <1>5. InArea'
    BY <1>2, <1>3 DEF InArea
  <1> QED  BY <1>4, <1>5 DEF Bytes

\* One step of parse after the other.
LEMMA SkipPadRead == ASSUME PacketInv, ReadInv, SkipPad PROVE ReadInv'
  <1>1. /\ Reading /\ pos <= Len(Bytes) /\ Bytes[pos] = Pad /\ pos' = pos + 1
        /\ UNCHANGED <<header, areas, area, options, overload, verdict>>
    BY DEF SkipPad
  <1>2. InArea /\ SoFar
    BY <1>1 DEF ReadInv
  <1>3. InArea' /\ Prior' = Prior /\ Bytes' = Bytes
    BY <1>1, <1>2, InAreaKept
  <1>4. PICK list \in Seq(Opt) : Continues(Bytes, pos, list) /\ options = Joined(Prior \o list)
    BY <1>2 DEF SoFar
  <1>5. Bytes \in Seq(Octet)
    BY DEF PacketInv, PacketTypeOK, Bytes
  <1>6. Continues(Bytes, pos + 1, list)
    BY <1>1, <1>4, <1>5, ContinuesPad
  <1>7. SoFar'
    BY <1>1, <1>3, <1>4, <1>6 DEF SoFar
  <1>8. Reading' /\ verdict' = "reading"
    BY <1>1 DEF Reading
  <1> QED  BY <1>3, <1>7, <1>8 DEF ReadInv

LEMMA ReadOptionRead == ASSUME PacketInv, ReadInv, ReadOption PROVE ReadInv'
  <1>1. /\ Reading /\ pos <= Len(Bytes) /\ Bytes[pos] \notin {Pad, End}
        /\ UNCHANGED <<header, areas, area, overload>>
    BY DEF ReadOption
  <1>2. InArea /\ SoFar /\ area \in Area
    BY <1>1 DEF ReadInv, PacketInv, PacketTypeOK
  <1>3. PICK list \in Seq(Opt) : Continues(Bytes, pos, list) /\ options = Joined(Prior \o list)
    BY <1>2 DEF SoFar
  <1>4. Bytes \in Seq(Octet) /\ pos \in 1 .. Len(Bytes) /\ pos \in Nat \ {0}
    BY <1>1, <1>3 DEF PacketInv, PacketTypeOK, Bytes, Continues
  <1>5. CASE HasLength /\ HasValue
    <2>1. pos + 1 <= Len(Bytes) /\ pos + 1 + Bytes[pos + 1] <= Len(Bytes)
      BY <1>5 DEF HasLength, HasValue
    <2> DEFINE n == Bytes[pos + 1]
               o == <<Bytes[pos], SubSeq(Bytes, pos + 2, pos + 1 + n)>>
    <2>2. /\ InBounds(Bytes, pos + 1, pos + 1)
          /\ InBounds(Bytes, pos + 2, pos + 1 + n)
      BY <1>4, <2>1, ValueIn
    <2>3. /\ options' = Extended(o[1], o[2])
          /\ pos' = pos + 1 + n + 1
          /\ verdict' = verdict
      BY <1>5, <2>2 DEF ReadOption
    <2>4. o \in Opt /\ Continues(Bytes, pos', Append(list, o))
      BY <1>1, <1>3, <1>4, <2>1, <2>3, ContinuesOption
    <2>5. Prior \in Seq(Opt)
      BY <1>1, <1>2, PriorType
    <2> HIDE DEF o, n
    <2>6. /\ Prior \o list \in Seq(Opt) /\ Append(list, o) \in Seq(Opt)
          /\ Append(Prior \o list, o) = Prior \o Append(list, o)
      <3> DEFINE p == Prior
      <3>1. p \in Seq(Opt)
        BY <2>5
      <3> HIDE DEF p
      <3>2. /\ p \o list \in Seq(Opt) /\ Append(list, o) \in Seq(Opt)
            /\ Append(p \o list, o) = p \o Append(list, o)
        BY <2>4, <3>1
      <3> QED  BY <3>2 DEF p
    <2>7. options' = Joined(Prior \o Append(list, o))
      BY <1>3, <2>3, <2>4, <2>6, JoinedMore
    <2>8. InArea' /\ Prior' = Prior /\ Bytes' = Bytes
      BY <1>1, <1>2, InAreaKept
    <2>9. SoFar'
      BY <2>4, <2>6, <2>7, <2>8 DEF SoFar
    <2>10. Reading' /\ verdict' = "reading"
      BY <1>1, <2>3 DEF Reading
    <2> QED  BY <2>8, <2>9, <2>10 DEF ReadInv
  <1>6. CASE ~(HasLength /\ HasValue)
    <2>1. pos = Len(Bytes) \/ pos + 1 + Bytes[pos + 1] > Len(Bytes)
      <3>1. CASE ~HasLength
        BY <1>4, <3>1 DEF HasLength
      <3>2. CASE HasLength /\ ~HasValue
        <4>1. Bytes[pos + 1] \in Nat
          BY <1>4, <3>2, ValueIn DEF HasLength
        <4> QED  BY <1>4, <3>2, <4>1 DEF HasValue
      <3> QED  BY <1>6, <3>1, <3>2
    <2>2. Rest(Bytes, pos) = Torn
      BY <1>1, <1>4, <2>1, RestAtTorn
    <2>3. ~Whole(area)
      BY <1>3, <2>2 DEF Continues, Torn, Whole, Bytes
    <2>4. ~Untorn'
      BY <1>1, <1>2, <2>3, TornArea, AreasKept
    <2>5. verdict' = "error"
      <3>1. HasLength => InBounds(Bytes, pos + 1, pos + 1)
        BY <1>4, ValueIn DEF HasLength
      <3> QED  BY <1>6, <3>1 DEF ReadOption
    <2> QED  BY <2>4, <2>5 DEF ReadInv, Reading
  <1> QED  BY <1>5, <1>6

\* An area that parse enters has all of it before it.
LEMMA EnterRead ==
  ASSUME PacketInv, PacketInv', area' # "options", pos' = 1, InArea',
         options' = Joined(Prior'), Prior' \in Seq(Opt), verdict' = "reading"
  PROVE  ReadInv'
  <1>1. Bytes' \in Seq(Octet)
    BY DEF PacketInv, PacketTypeOK, Bytes
  <1>2. Continues(Bytes', 1, <<>>) /\ <<>> \in Seq(Opt)
    BY <1>1, ContinuesStart
  <1> DEFINE p == Prior'
  <1>3. p \o <<>> = p
    <2>1. p \in Seq(Opt)
      OBVIOUS
    <2> HIDE DEF p
    <2> QED  BY <2>1
  <1>4. SoFar'
    BY <1>2, <1>3 DEF SoFar
  <1> QED  BY <1>4 DEF ReadInv

\* What parse leaves the first area as, when it enters another.
LEMMA EnterKeeps ==
  ASSUME PacketInv, NEW a \in Area \ {"options"}, NEW Contents, Enter(a, Contents)
  PROVE  /\ areas'["options"] = areas["options"] /\ area' = a /\ pos' = 1
         /\ verdict' = verdict
         /\ a # "file" => areas'["file"] = areas["file"]
  BY DEF Enter, PacketInv, PacketTypeOK, Area

LEMMA OptionsEndRead == ASSUME PacketInv, PacketInv', ReadInv, OptionsEnd PROVE ReadInv'
  <1>1. /\ Reading /\ area = "options" /\ AtEnd /\ InArea /\ SoFar /\ overload = <<>>
        /\ verdict = "reading" /\ header = "good" /\ UNCHANGED <<header, options>>
    BY DEF OptionsEnd, ReadInv, Reading, InArea
  <1>2. List("options") \in Seq(Opt) /\ areas["options"] # NotRead
    BY AreaType DEF PacketInv, Area
  <1>3. options = Joined(List("options")) /\ Whole("options")
    <2> DEFINE p == List("options")
    <2>1. p \in Seq(Opt)
      BY <1>2
    <2>2. options = Joined(<<>> \o p) /\ Whole("options")
      BY <1>1, AreaRead DEF Prior
    <2> HIDE DEF p
    <2>3. <<>> \o p = p
      BY <2>1
    <2>4. options = Joined(p)
      BY <2>2, <2>3
    <2> QED  BY <2>2, <2>4 DEF p
  <1>4. CASE Overload \notin DOMAIN options
    <2>1. InUse = <<"options">>
      BY <1>3, <1>4, UseOfAreas
    <2>2. AllSent = options /\ Untorn
      BY <1>2, <1>3, <2>1, OneArea
    <2>3. verdict' = "checking" /\ UNCHANGED <<areas, overload>>
      BY <1>4 DEF OptionsEnd, LeaveAreas
    <2>4. InUse' = InUse /\ AllSent' = AllSent /\ Untorn' = Untorn
      BY <2>3, AreasKept
    <2>5. AllRead'
      BY <1>1, <2>1, <2>2, <2>4 DEF AllRead
    <2> QED  BY <2>3, <2>5 DEF ReadInv, Reading
  <1>5. CASE Overload \in DOMAIN options
    <2>1. overload' = options[Overload]
      BY <1>5 DEF OptionsEnd
    <2>2. ASSUME NEW a \in Area \ {"options"}, NEW Contents, Enter(a, Contents),
                 overload' \in IF a = "file" THEN {<< 1 >>, << 3 >>} ELSE {<< 2 >>}
          PROVE  ReadInv'
      <3>1. /\ areas'["options"] = areas["options"] /\ area' = a /\ pos' = 1
            /\ verdict' = verdict
        BY <2>2, EnterKeeps
      <3>2. List("options")' = List("options") /\ Whole("options")' = Whole("options")
        BY <3>1 DEF List, Whole
      <3>3. << 2 >> # << 3 >>
        OBVIOUS
      <3>4. Prior' = List("options")
        BY <2>2, <3>1, <3>2 DEF Prior, Area
      <3>5. InArea'
        <4>1. area' # "options" /\ ~(area' = "sname" /\ overload' = << 3 >>)
          BY <2>2, <3>1, <3>3
        <4>2. overload' \in (IF area' = "file" THEN {<< 1 >>, << 3 >>} ELSE {<< 2 >>, << 3 >>})
          BY <2>2, <3>1
        <4> QED  BY <1>3, <1>5, <2>1, <3>2, <4>1, <4>2 DEF InArea
      <3> QED  BY <1>1, <1>2, <1>3, <2>2, <3>1, <3>4, <3>5, EnterRead
    <2>3. CASE overload' \in {<< 1 >>, << 3 >>} /\ EnterFile
      BY <2>2, <2>3 DEF EnterFile, Area
    <2>4. CASE overload' = << 2 >> /\ EnterName
      BY <2>2, <2>4 DEF EnterName, Area
    <2>5. CASE overload' \notin {<< 1 >>, << 2 >>, << 3 >>} /\ verdict' = "error" /\ UNCHANGED areas
      <3>1. InUse = <<>>
        BY <1>3, <1>5, <2>1, <2>5, UseOfAreas
      <3>2. ~Untorn'
        BY <2>5, <3>1, AreasKept DEF Untorn
      <3> QED  BY <2>5, <3>2 DEF ReadInv, Reading
    <2> QED  BY <1>5, <2>3, <2>4, <2>5 DEF OptionsEnd
  <1> QED  BY <1>4, <1>5

\* With everything read, parse goes on to the checks.
LEMMA LeaveRead ==
  ASSUME LeaveAreas, UNCHANGED <<header, options, overload>>, header = "good",
         Untorn, options = AllSent, overload # <<>>
  PROVE  ReadInv'
  <1>1. verdict' = "checking" /\ areas' = areas
    BY DEF LeaveAreas
  <1>2. AllSent' = AllSent /\ Untorn' = Untorn
    BY <1>1, AreasKept
  <1>3. AllRead'
    BY <1>2 DEF AllRead
  <1> QED  BY <1>1, <1>3 DEF ReadInv, Reading

LEMMA FileEndRead == ASSUME PacketInv, PacketInv', ReadInv, FileEnd PROVE ReadInv'
  <1>1. /\ Reading /\ area = "file" /\ AtEnd /\ InArea /\ SoFar
        /\ verdict = "reading" /\ header = "good" /\ UNCHANGED <<header, options, overload>>
    BY DEF FileEnd, ReadInv, Reading
  <1>2. areas["options"] # NotRead /\ areas["file"] # NotRead
    BY <1>1 DEF PacketInv, PacketTypeOK
  <1>3. /\ options = Joined(List("options") \o List("file")) /\ Whole("file")
    BY <1>1, AreaRead DEF Prior
  <1>4. /\ Whole("options") /\ overload \in {<< 1 >>, << 3 >>}
        /\ Overload \in DOMAIN Joined(List("options"))
        /\ overload = Joined(List("options"))[Overload]
    BY <1>1 DEF InArea
  <1>5. << 1 >> # << 3 >> /\ << 2 >> # << 3 >> /\ <<>> # << 1 >> /\ << 1 >> # << 2 >>
    OBVIOUS
  <1>6. CASE overload = << 3 >>
    <2>1. EnterName
      BY <1>6 DEF FileEnd
    <2>2. /\ areas'["options"] = areas["options"] /\ area' = "sname" /\ pos' = 1
          /\ verdict' = verdict /\ areas'["file"] = areas["file"]
      BY <2>1, EnterKeeps DEF EnterName, Area
    <2>3. /\ List("options")' = List("options") /\ List("file")' = List("file")
          /\ Whole("options")' = Whole("options") /\ Whole("file")' = Whole("file")
      BY <2>2 DEF List, Whole
    <2>4. Prior' = List("options") \o List("file")
      BY <1>1, <1>5, <1>6, <2>2, <2>3 DEF Prior
    <2>5. Prior' \in Seq(Opt)
      <3> DEFINE p == List("options")
                 q == List("file")
      <3>1. p \in Seq(Opt) /\ q \in Seq(Opt) /\ Prior' = p \o q
        BY <1>2, <2>4, AreaType DEF PacketInv, Area
      <3> HIDE DEF p, q
      <3> QED  BY <3>1
    <2>6. InArea'
      BY <1>1, <1>2, <1>3, <1>4, <1>6, <2>2, <2>3 DEF InArea
    <2> QED  BY <1>1, <1>3, <2>2, <2>4, <2>5, <2>6, EnterRead
  <1>7. CASE overload # << 3 >>
    <2>1. overload = << 1 >> /\ InUse = <<"options", "file">>
      BY <1>4, <1>7, UseOfAreas
    <2>2. AllSent = options /\ Untorn
      BY <1>2, <1>3, <1>4, <2>1, TwoAreas DEF PacketInv, Area
    <2>3. LeaveAreas
      BY <1>7 DEF FileEnd
    <2> QED  BY <1>1, <1>5, <2>1, <2>2, <2>3, LeaveRead
  <1> QED  BY <1>6, <1>7

LEMMA NameEndRead == ASSUME PacketInv, ReadInv, NameEnd PROVE ReadInv'
  <1>1. /\ Reading /\ area = "sname" /\ AtEnd /\ InArea /\ SoFar /\ LeaveAreas
        /\ header = "good" /\ UNCHANGED <<header, options, overload>>
    BY DEF NameEnd, ReadInv, Reading
  <1>2. areas["options"] # NotRead /\ areas["sname"] # NotRead
    BY <1>1 DEF PacketInv, PacketTypeOK
  <1>3. /\ Whole("options") /\ overload \in {<< 2 >>, << 3 >>}
        /\ Overload \in DOMAIN Joined(List("options"))
        /\ overload = Joined(List("options"))[Overload]
    BY <1>1 DEF InArea
  <1>4. options = Joined(Prior \o List("sname")) /\ Whole("sname")
    BY <1>1, AreaRead
  <1>5. <<>> # << 2 >> /\ << 2 >> # << 3 >> /\ <<>> # << 3 >>
    OBVIOUS
  <1>6. CASE overload = << 2 >>
    <2>1. InUse = <<"options", "sname">>
      BY <1>3, <1>6, UseOfAreas
    <2>2. Prior = List("options")
      BY <1>1, <1>6 DEF Prior
    <2>3. AllSent = options /\ Untorn
      BY <1>2, <1>3, <1>4, <2>1, <2>2, TwoAreas DEF PacketInv, Area
    <2> QED  BY <1>1, <1>5, <1>6, <2>3, LeaveRead
  <1>7. CASE overload = << 3 >>
    <2>1. InUse = <<"options", "file", "sname">>
      BY <1>3, <1>7, UseOfAreas
    <2>2. Prior = List("options") \o List("file")
      BY <1>1, <1>5, <1>7 DEF Prior
    <2>3. areas["file"] # NotRead /\ Whole("file")
      BY <1>1, <1>7 DEF InArea
    <2>4. \A a \in Area : areas[a] # NotRead
      BY <1>2, <2>3 DEF Area
    <2>5. AllSent = options /\ Untorn
      BY <1>3, <1>4, <2>1, <2>2, <2>3, <2>4, ThreeAreas DEF PacketInv
    <2> QED  BY <1>1, <1>5, <1>7, <2>5, LeaveRead
  <1> QED  BY <1>3, <1>6, <1>7

LEMMA CheckRead == ASSUME PacketInv, ReadInv, Check PROVE ReadInv'
  <1>1. /\ verdict = "checking" /\ AllRead
        /\ UNCHANGED <<header, areas, options, overload>>
    BY DEF Check, ReadInv
  <1>2. options = AllSent /\ header = "good"
    BY <1>1 DEF AllRead
  <1>3. verdict' = (IF Sound(options) THEN "parsed" ELSE "error")
    <2>1. ASSUME Message \in DOMAIN options
          PROVE  Len(options[Message]) = 1 /\ options[Message][1] \in Messages
                   <=> options[Message] \in {<<m>> : m \in Messages}
      <3> DEFINE v == options[Message]
      <3>1. v \in Seq(Octet)
        BY <2>1 DEF PacketInv, PacketTypeOK
      <3> HIDE DEF v
      <3>2. ASSUME Len(v) = 1 PROVE v = <<v[1]>>
        BY <3>1, <3>2
      <3>3. \A m : Len(<<m>>) = 1 /\ <<m>>[1] = m
        OBVIOUS
      <3>4. Len(v) = 1 /\ v[1] \in Messages <=> v \in {<<m>> : m \in Messages}
        BY <3>2, <3>3
      <3> QED  BY <3>4 DEF v
    <2> QED  BY <2>1 DEF Check, Sound
  <1>4. AllSent' = AllSent /\ Untorn' = Untorn /\ InUse' = InUse
    BY <1>1, AreasKept
  <1>5. AllRead'
    BY <1>1, <1>4 DEF AllRead
  <1>6. Sound(AllSent') <=> Sound(options)
    BY <1>2, <1>4
  <1> QED  BY <1>3, <1>5, <1>6 DEF ReadInv, Reading

LEMMA ReadInvStep == PacketInv /\ PacketInv' /\ ReadInv /\ [Next]_vars => ReadInv'
  <1> SUFFICES ASSUME PacketInv, PacketInv', ReadInv, [Next]_vars PROVE ReadInv'
    OBVIOUS
  <1>1. CASE RefuseHeader
    BY <1>1 DEF RefuseHeader, ReadInv, Reading
  <1>2. CASE UNCHANGED parseVars
    <2>1. /\ areas' = areas /\ Reading' = Reading /\ Bytes' = Bytes
          /\ UNCHANGED <<header, area, pos, options, overload, verdict>>
      BY <1>2 DEF parseVars, Reading, Bytes
    <2>2. AllSent' = AllSent /\ Untorn' = Untorn /\ InUse' = InUse
      BY <2>1, AreasKept
    <2>3. Reading => InArea' /\ Prior' = Prior
      BY <2>1, InAreaKept DEF ReadInv
    <2>4. Reading => SoFar'
      BY <2>1, <2>3 DEF SoFar, ReadInv
    <2>5. AllRead' = AllRead
      BY <2>1, <2>2 DEF AllRead
    <2> QED  BY <2>1, <2>2, <2>3, <2>4, <2>5 DEF ReadInv
  <1>3. CASE Parse
    BY <1>1, <1>3, SkipPadRead, ReadOptionRead, OptionsEndRead, FileEndRead, NameEndRead,
       CheckRead DEF Parse
  <1>4. CASE Dump
    BY <1>2, <1>4 DEF Dump, DumpHeaderOnly, DumpPad, DumpOption, DumpEnd
  <1>5. CASE UNCHANGED vars
    BY <1>2, <1>5 DEF vars, parseVars
  <1> QED  BY <1>3, <1>4, <1>5 DEF Next

\* Whatever packet it is, and wherever parse stands in it, ReadInv holds.
THEOREM ReadInvariant == Spec => []ReadInv
  BY PacketInvariant, ReadInvInit, ReadInvStep, PTL DEF Spec

\* For areas of any length, parse accepts a packet if and only if its options are sound
\* and none is torn, and it has them as the standard puts them together: a code that
\* comes several times, in the same area or in another, loses nothing (read_options and
\* Packet::parse against the reference).
THEOREM ParsedAsSent == Spec => []OptionsAsSent
  <1>1. ReadInv => OptionsAsSent
    BY DEF ReadInv, OptionsAsSent, AllRead
  <1> QED  BY <1>1, ReadInvariant, PTL

(***************************************************************************)
(* The dump reads the first area again, whatever parse made of it.         *)
(***************************************************************************)
ShownSoFar ==
  /\ HasOptions => Continues(Text, at, lines)
  /\ dump # "open" => verdict \in {"parsed", "error"}
  /\ dump = "malformed" => header = "short" \/ (HasOptions /\ ~Whole("options"))
  /\ dump = "complete" /\ HasOptions => lines = List("options")

LEMMA ShownInit == Init => ShownSoFar
  <1> SUFFICES ASSUME Init PROVE ShownSoFar
    OBVIOUS
  <1>1. Text \in Seq(Octet)
    BY PacketInvInit DEF PacketInv, PacketTypeOK, Text, Area
  <1> QED  BY <1>1, ContinuesStart DEF Init, ShownSoFar

\* parse never changes what the dump reads.
LEMMA ParseKeepsText ==
  ASSUME PacketInv, Parse
  PROVE  /\ Text' = Text /\ UNCHANGED <<header, at, lines, dump>>
         /\ verdict \in {"reading", "checking"}
  <1>1. UNCHANGED <<header, at, lines, dump>> /\ verdict \in {"reading", "checking"}
    BY DEF Parse, RefuseHeader, SkipPad, ReadOption, OptionsEnd, FileEnd, NameEnd, Check,
           Reading, dumpVars
  <1>2. ASSUME NEW a \in Area \ {"options"}, NEW Contents, Enter(a, Contents)
        PROVE  Text' = Text
    BY <1>2, EnterKeeps DEF Text
  <1>3. EnterFile \/ EnterName => Text' = Text
    BY <1>2 DEF EnterFile, EnterName, Area
  <1>4. EnterFile \/ EnterName \/ areas' = areas
    BY DEF Parse, RefuseHeader, SkipPad, ReadOption, OptionsEnd, FileEnd, NameEnd, Check,
           LeaveAreas
  <1> QED  BY <1>1, <1>3, <1>4 DEF Text

LEMMA ShownKept ==
  ASSUME ShownSoFar, Text' = Text, UNCHANGED <<header, at, lines, dump>>,
         dump # "open" => verdict' \in {"parsed", "error"}
  PROVE  ShownSoFar'
  <1>1. List("options")' = List("options") /\ Whole("options")' = Whole("options")
    BY DEF List, Whole, Text
  <1> QED  BY <1>1 DEF ShownSoFar, HasOptions

\* The dump takes an option, or complains of it, as the reference does.
LEMMA DumpOptionShown == ASSUME PacketInv, ShownSoFar, DumpOption PROVE ShownSoFar'
  <1>0. Text[at] \notin {Pad, End} /\ Continues(Text, at, lines) /\ at <= Len(Text)
    BY DEF DumpOption, ShownSoFar
  <1>1. /\ HasOptions /\ dump = "open" /\ verdict \in {"parsed", "error"} /\ HasOptions' = HasOptions
        /\ UNCHANGED <<header, areas, verdict>>
    BY DEF DumpOption, Dumping, ShownSoFar, parseVars, HasOptions
  <1>2. Text \in Seq(Octet) /\ at \in 1 .. Len(Text) /\ at \in Nat \ {0} /\ Text' = Text
    <2>1. Text \in Seq(Octet) /\ at \in Nat \ {0} /\ Text' = Text /\ at <= Len(Text)
      BY <1>1 DEF PacketInv, PacketTypeOK, Text, Area, DumpOption
    <2> QED  BY <2>1
  <1>3. CASE ShowsLength /\ ShowsValue
    <2>1. at + 1 <= Len(Text) /\ at + 1 + Text[at + 1] <= Len(Text)
      BY <1>3 DEF ShowsLength, ShowsValue
    <2> DEFINE n == Text[at + 1]
               o == <<Text[at], SubSeq(Text, at + 2, at + 1 + n)>>
    <2>2. InBounds(Text, at + 1, at + 1) /\ InBounds(Text, at + 2, at + 1 + n)
      BY <1>2, <2>1, ValueIn
    <2>3. lines' = Append(lines, o) /\ at' = at + 1 + n + 1 /\ dump' = dump
      BY <1>3, <2>2 DEF DumpOption
    <2>4. Continues(Text, at', Append(lines, o))
      BY <1>0, <1>2, <2>1, <2>3, ContinuesOption
    <2> QED  BY <1>1, <1>2, <2>3, <2>4 DEF ShownSoFar
  <1>4. CASE ~(ShowsLength /\ ShowsValue)
    <2>1. at = Len(Text) \/ at + 1 + Text[at + 1] > Len(Text)
      <3>1. CASE ~ShowsLength
        BY <1>2, <3>1 DEF ShowsLength
      <3>2. CASE ShowsLength /\ ~ShowsValue
        <4>1. Text[at + 1] \in Nat
          BY <1>2, <3>2, ValueIn DEF ShowsLength
        <4> QED  BY <1>2, <3>2, <4>1 DEF ShowsValue
      <3> QED  BY <1>4, <3>1, <3>2
    <2>2. Rest(Text, at) = Torn
      BY <1>0, <1>2, <2>1, RestAtTorn
    <2>3. Options(Text).whole = FALSE
      BY <1>0, <2>2 DEF Continues, Torn
    <2>4. ~Whole("options")'
      BY <1>1, <2>3 DEF Whole, Text
    <2>5. dump' = "malformed" /\ UNCHANGED <<at, lines>>
      <3>1. ShowsLength => InBounds(Text, at + 1, at + 1)
        BY <1>2, ValueIn DEF ShowsLength
      <3> QED  BY <1>4, <3>1 DEF DumpOption
    <2> QED  BY <1>1, <1>2, <2>4, <2>5 DEF ShownSoFar
  <1> QED  BY <1>3, <1>4

LEMMA DumpShown == ASSUME PacketInv, ShownSoFar, Dump PROVE ShownSoFar'
  <1>1. /\ UNCHANGED <<header, areas, verdict>> /\ dump = "open" /\ Text' = Text
        /\ verdict \in {"parsed", "error"} /\ HasOptions' = HasOptions
    BY DEF Dump, DumpHeaderOnly, DumpPad, DumpOption, DumpEnd, Dumping, parseVars, Text,
           HasOptions
  <1>2. Text \in Seq(Octet)
    BY DEF PacketInv, PacketTypeOK, Text, Area
  <1>3. CASE DumpHeaderOnly
    BY <1>1, <1>3 DEF DumpHeaderOnly, ShownSoFar
  <1>4. CASE DumpPad
    <2>1. Continues(Text, at + 1, lines)
      BY <1>2, <1>4, ContinuesPad DEF DumpPad, ShownSoFar
    <2> QED  BY <1>1, <1>4, <2>1 DEF DumpPad, ShownSoFar
  <1>5. CASE DumpEnd
    <2>1. Continues(Text, at, lines) /\ UNCHANGED <<at, lines>> /\ dump' = "complete"
      BY <1>5 DEF DumpEnd, ShownSoFar
    <2>2. Rest(Text, at) = Done
      BY <1>2, <1>5, <2>1, RestAtEnd DEF DumpEnd, Continues
    <2>3. Options(Text).list = lines \o <<>> /\ lines \in Seq(Opt)
      BY <2>1, <2>2 DEF Continues, Done
    <2>4. lines = List("options")'
      BY <1>1, <2>3 DEF List, Text
    <2> QED  BY <1>1, <2>1, <2>4 DEF ShownSoFar
  <1> QED  BY <1>3, <1>4, <1>5, DumpOptionShown DEF Dump

LEMMA ShownStep == PacketInv /\ ShownSoFar /\ [Next]_vars => ShownSoFar'
  <1> SUFFICES ASSUME PacketInv, ShownSoFar, [Next]_vars PROVE ShownSoFar'
    OBVIOUS
  <1>1. CASE Parse
    <2>1. dump = "open"
      BY <1>1, ParseKeepsText DEF ShownSoFar
    <2> QED  BY <1>1, <2>1, ParseKeepsText, ShownKept
  <1>2. CASE UNCHANGED vars
    BY <1>2, ShownKept DEF vars, Text, ShownSoFar
  <1> QED  BY <1>1, <1>2, DumpShown DEF Next

\* What a longer list adds to the value of a code, it adds behind it.
LEMMA JoinedPrefix ==
  ASSUME NEW a \in Seq(Opt), NEW b \in Seq(Opt)
  PROVE  /\ DOMAIN Joined(a) \subseteq DOMAIN Joined(a \o b)
         /\ \A c \in DOMAIN Joined(a) : IsPrefix(Joined(a)[c], Joined(a \o b)[c])
  <1>1. /\ DOMAIN Joined(a) = Codes(a) /\ DOMAIN Joined(a \o b) = Codes(a) \cup Codes(b)
        /\ \A c \in Codes(a) : /\ Joined(a)[c] = ValueOf(a, c)
                               /\ Joined(a \o b)[c] = ValueOf(a \o b, c)
    BY JoinedIs, CodesConcat
  <1>2. ASSUME NEW c PROVE IsPrefix(ValueOf(a, c), ValueOf(a \o b, c))
    <2> DEFINE v == ValueOf(a, c)
               w == ValueOf(b, c)
    <2>1. v \in Seq(Octet) /\ w \in Seq(Octet) /\ ValueOf(a \o b, c) = v \o w
      BY ValueOfType, ValueOfConcat
    <2> HIDE DEF v, w
    <2>2. IsPrefix(v, v \o w)
      <3>1. Len(v) <= Len(v \o w) /\ v \o w \in Seq(Octet)
        BY <2>1
      <3>2. SubSeq(v, 1, Len(v)) = SubSeq(v \o w, 1, Len(v))
        BY <2>1
      <3> QED  BY <3>1, <3>2 DEF IsPrefix
    <2> QED  BY <2>1, <2>2 DEF v
  <1> QED  BY <1>1, <1>2

\* All that a packet holds begins with its first area.
LEMMA AllSentExtends ==
  ASSUME PacketTypeOK, areas["options"] # NotRead, Untorn
  PROVE  \E more \in Seq(Opt) : AllSent = Joined(List("options") \o more)
  <1>1. List("options") \in Seq(Opt)
    BY AreaType DEF Area
  <1>2. CASE InUse = <<"options">>
    <2> DEFINE p == List("options")
    <2>1. p \in Seq(Opt) /\ AllSent = Joined(p)
      BY <1>1, <1>2, OneArea
    <2> HIDE DEF p
    <2>2. p \o <<>> = p /\ <<>> \in Seq(Opt)
      BY <2>1
    <2> QED  BY <2>1, <2>2 DEF p
  <1>3. ASSUME NEW a \in Area, InUse = <<"options", a>>
        PROVE  \E more \in Seq(Opt) : AllSent = Joined(List("options") \o more)
    <2>1. areas[a] # NotRead
      <3>1. 2 \in DOMAIN InUse /\ InUse[2] = a
        BY <1>3
      <3> QED  BY <3>1 DEF Untorn
    <2>2. List(a) \in Seq(Opt) /\ AllSent = Joined(List("options") \o List(a))
      BY <1>3, <2>1, AreaType, TwoAreas
    <2> QED  BY <2>2
  <1>4. CASE InUse = <<"options", "file", "sname">>
    <2>1. areas["file"] # NotRead /\ areas["sname"] # NotRead
      <3>1. 2 \in DOMAIN InUse /\ InUse[2] = "file" /\ 3 \in DOMAIN InUse /\ InUse[3] = "sname"
        BY <1>4
      <3> QED  BY <3>1 DEF Untorn
    <2>2. \A a \in Area : areas[a] # NotRead
      BY <2>1 DEF Area
    <2> DEFINE p == List("options")
               q == List("file")
               r == List("sname")
    <2>3. p \in Seq(Opt) /\ q \in Seq(Opt) /\ r \in Seq(Opt)
      BY <1>1, <2>1, AreaType DEF Area
    <2>4. AllSent = Joined((p \o q) \o r)
      BY <1>4, <2>2, ThreeAreas
    <2> HIDE DEF p, q, r
    <2>5. (p \o q) \o r = p \o (q \o r) /\ q \o r \in Seq(Opt)
      BY <2>3, ConcatIsAssociative
    <2> QED  BY <2>4, <2>5 DEF p
  <1>5. InUse \in {<<"options">>, <<"options", "file">>, <<"options", "sname">>,
                   <<"options", "file", "sname">>}
    BY UseOfAreas DEF Untorn
  <1> QED  BY <1>2, <1>3, <1>4, <1>5 DEF Area

\* For areas of any length, the log of a packet shows what parse read: no complaint of
\* a packet that parse accepts, no option that parse does not have, and all of them
\* without an overload (dhcp_packet_dump, which reads the octets anew).
THEOREM DumpShowsOptions == Spec => []DumpAgrees
  <1>1. PacketInv /\ ReadInv /\ ShownSoFar => DumpAgrees
    <2> SUFFICES ASSUME PacketInv, ReadInv, ShownSoFar PROVE DumpAgrees
      OBVIOUS
    <2>1. ASSUME verdict = "parsed"
          PROVE  /\ header = "good" /\ Untorn /\ options = AllSent /\ HasOptions
                 /\ overload = <<>> => InUse = <<"options">>
      BY <2>1 DEF ReadInv, AllRead, HasOptions
    <2>2. ASSUME dump = "malformed" PROVE verdict = "error"
      <3>1. Untorn => Whole("options")
        <4>1. InUse # <<>> => 1 \in DOMAIN InUse /\ InUse[1] = "options"
          BY UseOfAreas
        <4> QED  BY <4>1 DEF Untorn, Sent, Whole
      <3> QED  BY <2>1, <2>2, <3>1 DEF ShownSoFar
    <2>3. ASSUME verdict = "parsed", dump = "complete"
          PROVE  /\ DOMAIN Joined(lines) \subseteq DOMAIN options
                 /\ \A c \in DOMAIN Joined(lines) : IsPrefix(Joined(lines)[c], options[c])
                 /\ overload = <<>> => Joined(lines) = options
      <3>1. lines = List("options") /\ lines \in Seq(Opt)
        BY <2>1, <2>3 DEF ShownSoFar, Continues
      <3>2. PICK more \in Seq(Opt) : options = Joined(lines \o more)
        BY <2>1, <2>3, <3>1, AllSentExtends DEF PacketInv
      <3>3. overload = <<>> => Joined(lines) = options
        BY <2>1, <2>3, <3>1, OneArea
      <3> QED  BY <3>1, <3>2, <3>3, JoinedPrefix
    <2> QED  BY <2>2, <2>3 DEF DumpAgrees
  <1> QED  BY <1>1, PacketInvariant, ReadInvariant, ShownInit, ShownStep, PTL DEF Spec
=============================================================================
