----------------------------- MODULE ReplyProofs -----------------------------
(***************************************************************************)
(* Proofs about the answers: their decisions, for any addresses, boot      *)
(* files and packets, and their sizes, for the numbers of the protocol and *)
(* any others.                                                             *)
(***************************************************************************)
EXTENDS ReplyTable, ReplySize, FiniteSetTheorems, TLAPS

Decided ==
  /\ packet \in Packet
  /\ client \in Client
  /\ server \in {ThisServer, Unusable}
  /\ answer \in {Pending, reply(packet, client, server)}

LEMMA DecidedAlways == TableSpec => []Decided
  <1>1. TableInit => Decided
    BY ReplyTableAssumption, DhcpReplyAssumption
    DEF TableInit, Decided, Config, Identifier, explicit
  <1>2. Decided /\ [Decide]_tableVars => Decided'
    BY DEF Decided, Decide, tableVars
  <1> QED  BY <1>1, <1>2, PTL DEF TableSpec

\* What an answer that is not silence says of its packet.
LEMMA AnAnswer ==
  Decided /\ Answered =>
    /\ server # Unusable
    /\ packet.server \in {None, server}
    /\ ~boot_mode_mismatch(packet, client)
    /\ answer.message = AnswerType(packet, client)
    /\ answer.message = "nak" => answer.routes = "none"
    /\ answer.message # "nak" => answer.routes = route_mode(packet)
    /\ answer.to = destination(packet, answer.message)
    /\ answer.message = "nak" /\ packet.giaddr # None => answer.broadcast
  <1> SUFFICES ASSUME Decided, Answered
               PROVE  /\ server # Unusable
                      /\ packet.server \in {None, server}
                      /\ ~boot_mode_mismatch(packet, client)
                      /\ answer.message = AnswerType(packet, client)
                      /\ answer.message = "nak" => answer.routes = "none"
                      /\ answer.message # "nak" => answer.routes = route_mode(packet)
                      /\ answer.to = destination(packet, answer.message)
                      /\ answer.message = "nak" /\ packet.giaddr # None => answer.broadcast
    OBVIOUS
  <1>1. answer = reply(packet, client, server)
    BY DEF Decided, Answered, Pending
  <1>2. /\ server # Unusable /\ packet.server \in {None, server}
        /\ ~boot_mode_mismatch(packet, client)
        /\ AnswerType(packet, client) # "silence" /\ packet.room # "none"
    BY <1>1 DEF Answered, reply, NoReply, NotPossible
  <1> QED  BY <1>1, <1>2 DEF reply

\* A REQUEST that is answered is answered by the state its client is in.
LEMMA AnsweredByState == Decided => Confirmed
  <1> SUFFICES ASSUME Decided, Answered, packet.message = "request"
               PROVE  /\ ClientState(packet) # "none of these"
                      /\ packet.server \in {None, server}
                      /\ answer.message = IF Claim(packet) = client.ip THEN "ack" ELSE "nak"
    BY DEF Confirmed, ForUs
  <1>1. packet.server \in {None, server} /\ answer.message = AnswerType(packet, client)
    BY AnAnswer
  <1>2. ~IllFormed(packet) /\ wanted(packet) # None
    BY <1>1 DEF Answered, AnswerType, Requests, Informs
  <1>3. CASE packet.ciaddr # None
    <2>1. packet.requested = None /\ packet.server = None
      BY <1>2, <1>3 DEF IllFormed
    <2>2. ClientState(packet) = "renewing" /\ Claim(packet) = wanted(packet)
      BY <1>3, <2>1 DEF ClientState, Claim, wanted
    <2> QED  BY <1>1, <1>2, <2>2 DEF AnswerType, Requests, Informs
  <1>4. CASE packet.ciaddr = None
    <2>1. packet.requested # None
      BY <1>2, <1>4 DEF IllFormed, wanted
    <2>2. ClientState(packet) \in {"selecting", "init-reboot"} /\ Claim(packet) = wanted(packet)
      BY <1>4, <2>1 DEF ClientState, Claim, wanted
    <2> QED  BY <1>1, <1>2, <2>2 DEF AnswerType, Requests, Informs
  <1> QED  BY <1>3, <1>4

\* One with a meaning is not met with silence, but for the boot mode.
LEMMA MeaningIsNotIgnored == Decided => NotIgnored
  <1> SUFFICES ASSUME Decided, answer = NoReply, packet.message = "request",
                      ClientState(packet) # "none of these",
                      packet.server \in {None, server}, ~boot_mode_mismatch(packet, client)
               PROVE  FALSE
    BY DEF NotIgnored, ForUs
  <1>1. answer.message = "silence"
    BY DEF NoReply
  <1>2. reply(packet, client, server).message = "silence"
    <2>1. answer # Pending
      <3>1. Pending.message = "pending"
        BY DEF Pending
      <3> QED  BY <1>1, <3>1
    <2> QED  BY <1>1, <2>1 DEF Decided
  <1>3. AnswerType(packet, client) = "silence"
    BY <1>2 DEF reply, NoReply, NotPossible
  <1>4. ~Requests(packet)
    BY <1>3 DEF AnswerType
  <1>5. IllFormed(packet) \/ wanted(packet) = None
    BY <1>4 DEF Requests
  <1> QED  BY <1>5 DEF IllFormed, wanted, ClientState

\* REQUESTs are answered as RFC 2131 has it for the state the client is in, all that
\* have one and no other (the REQUEST arm of reply).
THEOREM RequestsAnsweredByState == TableSpec => []RequestsByState
  <1>1. Decided => RequestsByState
    BY AnsweredByState, MeaningIsNotIgnored DEF RequestsByState
  <1> QED  BY <1>1, DecidedAlways, PTL

\* The routes are those PLAN.md has for the boot stage (route_mode).
THEOREM RoutesAsPlanned == TableSpec => []RoutesFollowPlan
  <1>1. Decided => RoutesFollowPlan
    <2> SUFFICES ASSUME Decided, Answered, answer.message # "nak"
                 PROVE  <<packet.wantsRoutes, answer.routes>> \in PlanRoutes[stage(packet)[1]]
      BY AnAnswer DEF RoutesFollowPlan
    <2>1. answer.routes = route_mode(packet)
      BY AnAnswer
    <2>2. packet \in Packet /\ packet.wantsRoutes \in BOOLEAN
      BY DEF Decided, Packet
    <2>3. stage(packet)[1] \in {"bios", "uefi", "ipxe", "os", "unknown"}
      BY <2>2 DEF stage, Packet, Arch, Unknown
    <2> QED  BY <2>1, <2>2, <2>3 DEF PlanRoutes, route_mode, Firmware
  <1> QED  BY <1>1, DecidedAlways, PTL

\* No answer goes where its client would not hear it (destination).
THEOREM AnswersAreHeard == TableSpec => []HeardByClient
  <1>1. Decided => HeardByClient
    <2> SUFFICES ASSUME Decided, Answered PROVE HeardByClient
      BY DEF HeardByClient
    <2>1. server # Unusable /\ answer.to = destination(packet, answer.message)
          /\ (answer.message = "nak" /\ packet.giaddr # None => answer.broadcast)
      BY AnAnswer
    <2>2. packet.giaddr = None =>
            \/ answer.to = "broadcast"
            \/ answer.message # "nak" /\ packet.ciaddr # None /\ answer.to = packet.ciaddr
      BY <2>1 DEF destination
    <2> QED  BY <2>1, <2>2, DhcpReplyAssumption DEF HeardByClient, destination
  <1> QED  BY <1>1, DecidedAlways, PTL

-----------------------------------------------------------------------------
\* Taking MaxChunk away takes one from a quotient by it.
LEMMA OneChunkLess ==
  ASSUME NEW n \in Nat, n >= MaxChunk
  PROVE  (n + MaxChunk - 1) \div MaxChunk = ((n - MaxChunk) + MaxChunk - 1) \div MaxChunk + 1
  BY ReplySizeAssumption, Z3

LEMMA ChunkCount ==
  ASSUME NEW n \in Nat
  PROVE  /\ (n + MaxChunk - 1) \div MaxChunk \in Nat
         /\ n = 0 => (n + MaxChunk - 1) \div MaxChunk = 0
         /\ n \in 1 .. MaxChunk => (n + MaxChunk - 1) \div MaxChunk = 1
  <1>1. (n + MaxChunk - 1) \div MaxChunk \in Nat
    BY ReplySizeAssumption, Z3
  <1>2. n = 0 => (n + MaxChunk - 1) \div MaxChunk = 0
    BY ReplySizeAssumption, Z3
  <1>3. n \in 1 .. MaxChunk => (n + MaxChunk - 1) \div MaxChunk = 1
    BY ReplySizeAssumption, Z3
  <1> QED  BY <1>1, <1>2, <1>3

\* encoded_size is a number, and falls by what one pass of option writes.
LEMMA EncodedSize ==
  ASSUME NEW n \in Nat
  PROVE  /\ encoded_size(n) \in Nat
         /\ n = 0 => encoded_size(n) = 0
         /\ n \in 1 .. MaxChunk => encoded_size(n) = n + 2
         /\ n > MaxChunk => encoded_size(n) = encoded_size(n - MaxChunk) + MaxChunk + 2
  <1>1. /\ encoded_size(n) \in Nat
        /\ n = 0 => encoded_size(n) = 0
        /\ n \in 1 .. MaxChunk => encoded_size(n) = n + 2
    BY ChunkCount DEF encoded_size
  <1>2. ASSUME n > MaxChunk
        PROVE  encoded_size(n) = encoded_size(n - MaxChunk) + MaxChunk + 2
    <2> DEFINE q == (n + MaxChunk - 1) \div MaxChunk
               r == ((n - MaxChunk) + MaxChunk - 1) \div MaxChunk
    <2>1. MaxChunk \in Nat /\ n - MaxChunk \in Nat
      BY <1>2, ReplySizeAssumption
    <2>2. q = r + 1
      BY <1>2, OneChunkLess, ReplySizeAssumption
    <2>3. r \in Nat
      BY <2>1, ChunkCount
    <2>4. encoded_size(n) = n + q * 2 /\ encoded_size(n - MaxChunk) = (n - MaxChunk) + r * 2
      BY DEF encoded_size
    <2> HIDE DEF q, r
    <2> QED  BY <2>1, <2>2, <2>3, <2>4
  <1> QED  BY <1>1, <1>2

-----------------------------------------------------------------------------
\* What has been written of the relay option, and what is still to come, is
\* what encoded_size said, and that was found to fit.
RelayPlan ==
  /\ at = "options" => rest = 0 /\ ~omitted
  /\ at = "relay" => len = fixed /\ rest = 0 /\ ~omitted
  /\ at = "chunks" =>
       /\ relay # Absent /\ ~omitted
       /\ len + encoded_size(rest) = fixed + encoded_size(relay)
       /\ fixed + encoded_size(relay) < maximum
  /\ at \in {"end", "sent", "error"} =>
       (omitted <=> relay # Absent /\ fixed + encoded_size(relay) + 1 > maximum)
  /\ at = "end" =>
       IF relay = Absent \/ omitted THEN len = fixed ELSE len = fixed + encoded_size(relay)
  /\ at = "error" => fixed + 1 > maximum

SizeInv == SizeTypeOK /\ RelayPlan /\ SentFits

LEMMA Maximum == SizeTypeOK => maximum \in Nat /\ maximum >= MinReply
  BY ReplySizeAssumption DEF SizeTypeOK, maximum, Absent

LEMMA RelayLength == SizeTypeOK /\ relay # Absent => relay \in Nat /\ encoded_size(relay) \in Nat
  BY EncodedSize DEF SizeTypeOK, Absent

LEMMA SizeInvInit == SizeInit => SizeInv
  <1>1. SizeInit => SizeTypeOK
    <2>1. SizeInit => omitted \in BOOLEAN
      BY DEF SizeInit
    <2>2. SizeInit => len \in Nat /\ rest \in Nat /\ fixed \in Nat
      BY DEF SizeInit
    <2> QED  BY <2>1, <2>2 DEF SizeInit, SizeTypeOK
  <1>2. SizeInit => RelayPlan /\ SentFits
    BY DEF SizeInit, RelayPlan, SentFits
  <1> QED  BY <1>1, <1>2 DEF SizeInv

LEMMA SizeInvStep == SizeInv /\ [SizeNext]_sizeVars => SizeInv'
  <1> SUFFICES ASSUME SizeInv, [SizeNext]_sizeVars PROVE SizeInv'
    OBVIOUS
  <1> USE DEF SizeInv
  <1>1. MaxChunk \in Nat \ {0} /\ MinReply \in Nat /\ MaxLength \in Nat
    BY ReplySizeAssumption
  <1>2. maximum \in Nat /\ maximum >= MinReply
    BY Maximum
  <1>3. relay # Absent => relay \in Nat /\ encoded_size(relay) \in Nat
    BY RelayLength
  <1>4. input' = input => maximum' = maximum /\ encoded_size(relay)' = encoded_size(relay)
    BY DEF input, maximum, encoded_size
  <1>5. CASE Options
    <2>1. SizeTypeOK'
      BY <1>1, <1>5 DEF Options, input, SizeTypeOK
    <2>2. (RelayPlan /\ SentFits)'
      BY <1>5 DEF Options, RelayPlan, SentFits
    <2> QED  BY <2>1, <2>2
  <1>6. CASE RelayOption
    <2>1. SizeTypeOK'
      <3>1. omitted' \in BOOLEAN
        BY <1>6 DEF RelayOption, SizeTypeOK
      <3>2. rest' \in Nat
        BY <1>3, <1>6 DEF RelayOption, SizeTypeOK
      <3> QED  BY <1>6, <3>1, <3>2 DEF RelayOption, input, SizeTypeOK
    <2>2. (RelayPlan /\ SentFits)'
      <3>1. maximum' = maximum /\ encoded_size(relay)' = encoded_size(relay) /\ relay' = relay
        BY <1>4, <1>6 DEF RelayOption, input
      <3>2. at = "relay" /\ len = fixed /\ ~omitted /\ len' = fixed /\ fixed' = fixed
            /\ fixed \in Nat
        BY <1>6 DEF RelayOption, RelayPlan, SizeTypeOK
      <3>3. CASE relay = Absent
        BY <1>6, <3>1, <3>2, <3>3 DEF RelayOption, RelayPlan, SentFits
      <3>4. CASE relay # Absent /\ len + encoded_size(relay) < maximum
        <4>1. at' = "chunks" /\ rest' = relay /\ omitted' = omitted
          BY <1>6, <3>4 DEF RelayOption
        <4>2. encoded_size(rest)' = encoded_size(relay)
          BY <4>1 DEF encoded_size
        <4> QED  BY <3>1, <3>2, <3>4, <4>1, <4>2 DEF RelayPlan, SentFits
      <3>5. CASE relay # Absent /\ ~(len + encoded_size(relay) < maximum)
        <4>1. at' = "end" /\ omitted'
          BY <1>6, <3>5 DEF RelayOption
        <4>2. fixed + encoded_size(relay) + 1 > maximum
          BY <1>2, <1>3, <3>2, <3>5
        <4> QED  BY <3>1, <3>2, <3>5, <4>1, <4>2 DEF RelayPlan, SentFits
      <3> QED  BY <3>3, <3>4, <3>5
    <2> QED  BY <2>1, <2>2
  <1>7. CASE Chunk
    <2> USE <1>7
    <2>1. encoded_size(rest) \in Nat
      BY EncodedSize DEF SizeTypeOK
    <2>2. CASE rest = 0
      <3>1. encoded_size(rest) = 0
        BY <2>2, EncodedSize
      <3> QED
        BY <1>2, <1>3, <1>4, <2>2, <3>1 DEF Chunk, input, SizeTypeOK, RelayPlan, SentFits
    <2>3. CASE rest # 0
      <3>1. len' + encoded_size(rest)' = len + encoded_size(rest) /\ len' \in Nat /\ rest' \in Nat
        <4>1. rest \in Nat /\ len \in Nat
          BY DEF SizeTypeOK
        <4>2. CASE rest > MaxChunk
          <5>1. rest' = rest - MaxChunk /\ len' = len + 2 + MaxChunk /\ rest' \in Nat
            BY <1>1, <2>3, <4>1, <4>2 DEF Chunk
          <5>2. encoded_size(rest)' = encoded_size(rest - MaxChunk)
            BY <5>1 DEF encoded_size
          <5>3. encoded_size(rest) = encoded_size(rest - MaxChunk) + MaxChunk + 2
            BY <4>1, <4>2, EncodedSize
          <5>4. encoded_size(rest - MaxChunk) \in Nat
            BY <5>1, EncodedSize
          <5> QED  BY <1>1, <4>1, <5>1, <5>2, <5>3, <5>4
        <4>3. CASE ~(rest > MaxChunk)
          <5>1. rest' = 0 /\ len' = len + 2 + rest
            BY <1>1, <2>3, <4>1, <4>3 DEF Chunk
          <5>2. encoded_size(rest)' = encoded_size(0)
            BY <5>1 DEF encoded_size
          <5>3. encoded_size(0) = 0 /\ encoded_size(rest) = rest + 2
            BY <1>1, <2>3, <4>1, <4>3, EncodedSize
          <5> QED  BY <4>1, <5>1, <5>2, <5>3
        <4> QED  BY <4>2, <4>3
      <3> QED
        BY <1>2, <1>3, <1>4, <2>3, <3>1 DEF Chunk, input, SizeTypeOK, RelayPlan, SentFits
    <2> QED  BY <2>2, <2>3
  <1>8. CASE End
    BY <1>1, <1>2, <1>3, <1>4, <1>8 DEF End, input, SizeTypeOK, RelayPlan, SentFits
  <1>9. CASE UNCHANGED sizeVars
    BY <1>9 DEF sizeVars, input, SizeTypeOK, RelayPlan, SentFits, maximum, encoded_size
  <1> QED  BY <1>5, <1>6, <1>7, <1>8, <1>9 DEF SizeNext

THEOREM SizeInvariant == SizeSpec => []SizeInv
  BY SizeInvInit, SizeInvStep, PTL DEF SizeSpec

\* Lengths stay lengths: no chunk takes more than there is (option).
THEOREM SizeTypeCorrect == SizeSpec => []SizeTypeOK
  BY SizeInvariant, PTL DEF SizeInv

-----------------------------------------------------------------------------
LEMMA MultipleIs ==
  ASSUME NEW m \in Nat \ {0}, NEW q \in Nat
  PROVE  (q * m) % m = 0 /\ q * m \in Nat
  OBVIOUS

LEMMA MultiplesInOrder ==
  ASSUME NEW m \in Nat \ {0}, NEW p \in Nat, NEW q \in Nat, p < q
  PROVE  p * m < q * m /\ p * m + m <= q * m
  <1>1. q - p - 1 \in Nat /\ (q - p - 1) * m \in Nat
    OBVIOUS
  <1>2. q * m = p * m + m + (q - p - 1) * m
    BY Z3
  <1> QED  BY <1>1, <1>2, Z3

LEMMA Quotient ==
  ASSUME NEW x \in Nat, NEW m \in Nat \ {0}
  PROVE  x \div m \in Nat /\ x % m \in 0 .. m - 1 /\ x = m * (x \div m) + (x % m)
  OBVIOUS

\* How many multiples of m there are below n.
LEMMA MultiplesBelow ==
  ASSUME NEW n \in Nat, NEW m \in Nat \ {0}, NEW h, h = (n + m - 1) \div m
  PROVE  /\ h \in Nat
         /\ \A q \in Nat : q < h <=> q * m < n
  <1>1. h \in Nat /\ (n + m - 1) % m \in 0 .. m - 1
        /\ n + m - 1 = h * m + ((n + m - 1) % m)
    <2>1. n + m - 1 \in Nat
      <3>1. n \in Int /\ m \in Int /\ n >= 0 /\ m >= 1
        OBVIOUS
      <3> QED  BY <3>1
    <2>2. n + m - 1 = m * h + ((n + m - 1) % m) /\ h \in Nat
          /\ (n + m - 1) % m \in 0 .. m - 1
      BY <2>1, Quotient
    <2>3. m * h = h * m
      <3>1. h \in Int /\ m \in Int
        BY <2>2
      <3> QED  BY <3>1
    <2> QED  BY <2>2, <2>3
  <1>2. n <= h * m /\ h * m < n + m /\ h * m \in Nat
    BY <1>1, Z3
  <1>3. ASSUME NEW q \in Nat PROVE q < h <=> q * m < n
    <2>1. ASSUME q < h PROVE q * m < n
      <3>1. q * m + m <= h * m /\ q * m \in Nat
        BY <1>1, <2>1, MultiplesInOrder
      <3> QED  BY <1>2, <3>1
    <2>2. ASSUME q > h PROVE ~(q * m < n)
      <3>1. h * m < q * m /\ q * m \in Nat
        BY <1>1, <2>2, MultiplesInOrder
      <3> QED  BY <1>2, <3>1
    <2>3. q = h => ~(q * m < n)
      BY <1>2
    <2> QED  BY <1>1, <2>1, <2>2, <2>3
  <1> QED  BY <1>1, <1>3

\* The headers counted where they stand are those encoded_size multiplies.
LEMMA HeadersCounted ==
  ASSUME NEW n \in Nat
  PROVE  Headers(n) = (n + MaxChunk - 1) \div MaxChunk
  <1> DEFINE h == (n + MaxChunk - 1) \div MaxChunk
             S == {i \in 0 .. n - 1 : i % MaxChunk = 0}
             f == [k \in 1 .. h |-> (k - 1) * MaxChunk]
  <1>1. MaxChunk \in Nat \ {0}
    BY ReplySizeAssumption
  <1>2. h \in Nat /\ \A q \in Nat : q < h <=> q * MaxChunk < n
    BY <1>1, MultiplesBelow
  <1> HIDE DEF h
  <1>3. \A k \in 1 .. h : f[k] \in S
    <2> TAKE k \in 1 .. h
    <2>1. k - 1 \in Nat /\ k - 1 < h
      BY <1>2
    <2>2. (k - 1) * MaxChunk < n /\ (k - 1) * MaxChunk \in Nat
          /\ ((k - 1) * MaxChunk) % MaxChunk = 0
      BY <1>1, <1>2, <2>1, MultipleIs
    <2> QED  BY <2>2
  <1>4. \A j, k \in 1 .. h : f[j] = f[k] => j = k
    <2> SUFFICES ASSUME NEW j \in 1 .. h, NEW k \in 1 .. h, j < k PROVE f[j] # f[k]
      OBVIOUS
    <2>1. (j - 1) * MaxChunk < (k - 1) * MaxChunk
      <3>1. j - 1 \in Nat /\ k - 1 \in Nat /\ j - 1 < k - 1
        OBVIOUS
      <3> QED  BY <1>1, <3>1, MultiplesInOrder
    <2>2. (j - 1) * MaxChunk \in Nat /\ (k - 1) * MaxChunk \in Nat
      <3>1. j - 1 \in Nat /\ k - 1 \in Nat
        OBVIOUS
      <3> QED  BY <1>1, <3>1, MultipleIs
    <2> QED  BY <2>1, <2>2
  <1>5. \A i \in S : \E k \in 1 .. h : f[k] = i
    <2> TAKE i \in S
    <2> DEFINE q == i \div MaxChunk
    <2>1. q \in Nat /\ i = q * MaxChunk
      BY <1>1, Z3
    <2> HIDE DEF q
    <2>2. q * MaxChunk < n
      BY <2>1
    <2>3. q < h
      BY <1>2, <2>1, <2>2
    <2>4. q + 1 \in 1 .. h /\ f[q + 1] = i
      BY <1>2, <2>1, <2>3
    <2> QED  BY <2>4
  <1>6. f \in Bijection(1 .. h, S)
    BY <1>3, <1>4, <1>5 DEF Bijection, Injection, Surjection, IsInjective
  <1>7. Cardinality(S) = h
    <2>1. ExistsBijection(1 .. h, S)
      BY <1>6 DEF ExistsBijection
    <2> HIDE DEF S
    <2> QED  BY <1>2, <2>1, FS_CountingElements
  <1> QED  BY <1>7 DEF Headers, h

\* The forecast is what the option takes.
LEMMA ForecastIsExact ==
  ASSUME NEW n \in Nat
  PROVE  encoded_size(n) = OptionOctets(n)
  <1>1. (n + MaxChunk - 1) \div MaxChunk \in Nat
    BY ChunkCount
  <1> QED  BY <1>1, HeadersCounted DEF encoded_size, OptionOctets

\* What reply sends fits what the client announced; the relay option is in it whole,
\* each chunk with its header, or not at all, and the latter only if it does not fit
\* counted as it is written; and it is never the reason for an error (encoded_size
\* against the chunks of option, and the last ensure and resize).
THEOREM RelayForecast == SizeSpec => []RelayWhenItFits
  <1>1. SizeInv => RelayWhenItFits
    <2> SUFFICES ASSUME SizeInv PROVE RelayWhenItFits
      OBVIOUS
    <2>1. relay # Absent => encoded_size(relay) = OptionOctets(relay)
      BY RelayLength, ForecastIsExact DEF SizeInv
    <2> QED  BY <2>1 DEF SizeInv, SizeTypeOK, RelayPlan, SentFits, RelayWhenItFits
  <1> QED  BY <1>1, SizeInvariant, PTL

-----------------------------------------------------------------------------
LEMMA SmallerIsRest == ASSUME NEW x \in Nat, NEW w \in Nat, x < w PROVE x % w = x
  BY Z3

LEMMA RebindingFits ==
  ASSUME NEW l \in 0 .. Word - 1, l >= 8
  PROVE  /\ rebinding(l) \in Nat /\ l \div 2 \in Nat
         /\ 0 < l \div 2 /\ l \div 2 < rebinding(l) /\ rebinding(l) < l
  <1> DEFINE t == (l * 7) \div 8
  <1>1. l \in Nat /\ Word \in Nat /\ l < Word
    BY ReplySizeAssumption
  <1>2. t \in Nat /\ l \div 2 \in Nat /\ 0 < l \div 2 /\ l \div 2 < t /\ t < l
    BY <1>1, Z3
  <1>3. rebinding(l) = t % Word
    BY DEF rebinding
  <1> HIDE DEF t
  <1>4. t % Word = t
    BY <1>1, <1>2, SmallerIsRest
  <1> QED  BY <1>2, <1>3, <1>4

\* The times of a lease are in order, for leases up to the end of a u32.
THEOREM LeaseTimes == SizeSpec => []TimesInOrder
  <1>1. SizeInit => TimesInOrder
    BY DEF SizeInit, TimesInOrder
  <1>2. SizeInv /\ TimesInOrder /\ [SizeNext]_sizeVars => TimesInOrder'
    <2> SUFFICES ASSUME SizeInv, TimesInOrder, [SizeNext]_sizeVars PROVE TimesInOrder'
      OBVIOUS
    <2>1. CASE Options
      <3>1. lease \in 0 .. Word - 1 /\ lease' = lease /\ Word \in Nat
        BY <2>1, ReplySizeAssumption DEF SizeInv, SizeTypeOK, Options, input
      <3>2. CASE lease >= 8
        <4>1. times' = <<lease, lease \div 2, rebinding(lease)>>
          BY <2>1, <3>2 DEF Options
        <4>2. /\ 0 < lease \div 2 /\ lease \div 2 < rebinding(lease)
              /\ rebinding(lease) < lease
          BY <3>1, <3>2, RebindingFits
        <4> QED  BY <3>1, <4>1, <4>2 DEF TimesInOrder
      <3>3. CASE ~(lease >= 8)
        BY <2>1, <3>1, <3>3 DEF Options, TimesInOrder
      <3> QED  BY <3>2, <3>3
    <2>2. CASE RelayOption \/ Chunk \/ End \/ UNCHANGED sizeVars
      <3>1. times' = times /\ lease' = lease
        BY <2>2 DEF RelayOption, Chunk, End, sizeVars, input
      <3> QED  BY <3>1 DEF TimesInOrder
    <2> QED  BY <2>1, <2>2 DEF SizeNext
  <1> QED  BY <1>1, <1>2, SizeInvariant, PTL DEF SizeSpec
=============================================================================
