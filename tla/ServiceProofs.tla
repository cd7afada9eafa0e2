--------------------------- MODULE ServiceProofs ---------------------------
(***************************************************************************)
(* Proofs about Service, for any versions, hosts and addresses and for any *)
(* number of packets.                                                      *)
(*                                                                         *)
(* The invariant falls into three parts that do not need each other: what  *)
(* run_sync has written, what a reader can know of that, and the counters  *)
(* of serve.                                                               *)
(***************************************************************************)
EXTENDS Service, TLAPS

\* Nothing is served before the load, and the source of what is served follows in
\* the next write.
Written ==
  /\ SharedTypeOK
  /\ writing = "load" => snapshot = Nothing
  /\ snapshot # Nothing /\ status.source = Nothing => writing \in {"loaded", "activated"}

\* A snapshot, and the socket, stay for as long as the image does.
Readable ==
  /\ reader \in Reading /\ dhcpReady \in BOOLEAN
  /\ serving \in {"bind", "receive", "send", "over"}
  /\ reader.count # Nothing => snapshot # Nothing
  /\ dhcpReady => serving # "bind"
  /\ HealthyHasData

Counted ==
  /\ counter \in [Count -> Nat]
  /\ series \in [Label -> Nat]
  /\ lines \in [Result -> Nat]
  /\ Accounted

\* What serve holds over the await fits together, and what it logged came of that.
Answering ==
  /\ request \in Request \cup {Nothing}
  /\ serving = "send" =>
       /\ request \in Request
       /\ request.mac \in DOMAIN Clients[request.by]
       /\ request.location = Clients[request.by][request.mac].location
       /\ request.yiaddr \in {Clients[request.by][request.mac].ip, Nothing}
  /\ logged \in Line \cup {Nothing}
  /\ OneVersion

-----------------------------------------------------------------------------
LEMMA WrittenStep == Written /\ [Next]_vars => Written'
  <1> SUFFICES ASSUME Written, [Next]_vars PROVE Written'
    OBVIOUS
  <1> USE ServiceAssumption DEF Written, SharedTypeOK
  <1>1. CASE UNCHANGED sharedVars
    BY <1>1 DEF sharedVars
  <1>2. CASE SyncNext
    <2>1. CASE LoadSaved
      BY <2>1 DEF LoadSaved
    <2>2. CASE NoteLoaded
      BY <2>2 DEF NoteLoaded
    <2>3. CASE LoadNothing
      BY <2>3 DEF LoadNothing
    <2>4. CASE Activate
      BY <2>4 DEF Activate
    <2>5. CASE NoteRemote
      BY <2>5 DEF NoteRemote
    <2>6. CASE Succeed
      BY <2>6 DEF Succeed
    <2>7. CASE Fail
      BY <2>7 DEF Fail
    <2>8. CASE SyncEnds
      BY <2>8 DEF SyncEnds
    <2> QED  BY <1>2, <2>1, <2>2, <2>3, <2>4, <2>5, <2>6, <2>7, <2>8 DEF SyncNext
  <1>3. CASE ImageEnds
    BY <1>3 DEF ImageEnds, FreshStatus
  <1>4. CASE Serve
    BY <1>1, <1>4 DEF Serve, Bind, ReceiveFails, Malformed, UnknownClient, Mismatch, NoResponse,
       ReplyFails, Received, Answer,
       Sent, SendFails
  <1>5. CASE Health
    BY <1>1, <1>5 DEF Health, ReadSnapshot, ReadReady, AnswerHealth
  <1> QED  BY <1>1, <1>2, <1>3, <1>4, <1>5 DEF Next, Sync, Restart, vars

LEMMA SnapshotStays ==
  ASSUME Written, SyncNext, snapshot # Nothing
  PROVE  snapshot' # Nothing
  BY ServiceAssumption DEF Written, SharedTypeOK, SyncNext, LoadSaved, NoteLoaded, LoadNothing,
     Activate, NoteRemote, Succeed, Fail, SyncEnds

LEMMA ReaderStep == Written /\ Readable /\ [Next]_vars => Readable'
  <1> SUFFICES ASSUME Written, Readable, [Next]_vars PROVE Readable'
    OBVIOUS
  <1> USE DEF Readable, Reading, HealthyHasData
  <1>1. CASE Serve
    <2>1. /\ UNCHANGED <<reader, snapshot>>
          /\ serving' \in {"receive", "send", "over"}
          /\ dhcpReady' \in BOOLEAN
      BY <1>1 DEF Serve, Bind, ReceiveFails, Malformed, UnknownClient, Mismatch, NoResponse,
       ReplyFails, Received, Answer, Sent,
         SendFails, MayReceive, sharedVars
    <2> QED  BY <2>1
  <1>2. CASE Sync
    <2>1. SyncNext /\ UNCHANGED <<reader, serving, dhcpReady>>
      BY <1>2 DEF Sync, serveVars
    <2>2. snapshot # Nothing => snapshot' # Nothing
      BY <2>1, SnapshotStays
    <2> QED  BY <2>1, <2>2
  <1>3. CASE Health
    <2>1. UNCHANGED <<snapshot, serving, dhcpReady>>
      BY <1>3 DEF Health, ReadSnapshot, ReadReady, AnswerHealth, sharedVars, serveVars
    <2>2. CASE ReadSnapshot
      <3>1. snapshot \in Version \cup {Nothing}
        BY DEF Written, SharedTypeOK
      <3> QED  BY <2>1, <2>2, <3>1 DEF ReadSnapshot
    <2>3. CASE ReadReady
      BY <2>1, <2>3 DEF ReadReady
    <2>4. CASE AnswerHealth
      BY <2>1, <2>4 DEF AnswerHealth, NotReading
    <2> QED  BY <1>3, <2>2, <2>3, <2>4 DEF Health
  <1>4. CASE Restart
    BY <1>4 DEF Restart, NotReading
  <1>5. CASE UNCHANGED vars
    BY <1>5 DEF vars, sharedVars, serveVars
  <1> QED  BY <1>1, <1>2, <1>3, <1>4, <1>5 DEF Next

-----------------------------------------------------------------------------
\* The numbers, one by one.
LEMMA Numbers ==
  ASSUME counter \in [Count -> Nat], series \in [Label -> Nat], lines \in [Result -> Nat]
  PROVE  /\ counter.requests \in Nat /\ counter.responses \in Nat /\ counter.errors \in Nat
         /\ counter.unknown \in Nat /\ counter.mismatches \in Nat /\ counter.durations \in Nat
         /\ series.invalid \in Nat /\ series.unknown \in Nat /\ series.known \in Nat
         /\ lines.malformed \in Nat /\ lines.unknown_or_unavailable \in Nat
         /\ lines.boot_mode_mismatch \in Nat /\ lines.no_response \in Nat
         /\ lines.error \in Nat /\ lines.relay_option_omitted \in Nat
         /\ lines.send_error \in Nat /\ lines.answered \in Nat
  BY DEF Count, Label, Result

\* By how much each number goes up.
Up(x, S) == IF x \in S THEN 1 ELSE 0

LEMMA NumbersUp ==
  ASSUME counter \in [Count -> Nat], lines \in [Result -> Nat], NEW C, CountUp(C), NEW R, Log(R)
  PROVE  /\ counter' \in [Count -> Nat] /\ lines' \in [Result -> Nat]
         /\ counter'.requests = counter.requests + Up("requests", C)
         /\ counter'.responses = counter.responses + Up("responses", C)
         /\ counter'.errors = counter.errors + Up("errors", C)
         /\ counter'.unknown = counter.unknown + Up("unknown", C)
         /\ counter'.mismatches = counter.mismatches + Up("mismatches", C)
         /\ counter'.durations = counter.durations + Up("durations", C)
         /\ lines'.malformed = lines.malformed + Up("malformed", R)
         /\ lines'.unknown_or_unavailable =
              lines.unknown_or_unavailable + Up("unknown_or_unavailable", R)
         /\ lines'.boot_mode_mismatch = lines.boot_mode_mismatch + Up("boot_mode_mismatch", R)
         /\ lines'.no_response = lines.no_response + Up("no_response", R)
         /\ lines'.error = lines.error + Up("error", R)
         /\ lines'.relay_option_omitted =
              lines.relay_option_omitted + Up("relay_option_omitted", R)
         /\ lines'.send_error = lines.send_error + Up("send_error", R)
         /\ lines'.answered = lines.answered + Up("answered", R)
  <1>1. /\ counter' \in [Count -> Nat]
        /\ \A c \in Count : counter'[c] = counter[c] + Up(c, C)
    BY DEF CountUp, Up
  <1>2. /\ lines' \in [Result -> Nat]
        /\ \A r \in Result : lines'[r] = lines[r] + Up(r, R)
    BY DEF Log, Up
  <1> QED  BY <1>1, <1>2 DEF Count, Result

LEMMA SeriesUp ==
  ASSUME series \in [Label -> Nat], NEW l \in Label, record_request(l)
  PROVE  /\ series' \in [Label -> Nat]
         /\ series'.invalid = series.invalid + Up(l, {"invalid"})
         /\ series'.unknown = series.unknown + Up(l, {"unknown"})
         /\ series'.known = series.known + Up(l, {"known"})
  BY DEF record_request, Label, Up

LEMMA CountedStep == Counted /\ [Next]_vars => Counted'
  <1> SUFFICES ASSUME Counted, [Next]_vars PROVE Counted'
    OBVIOUS
  <1> USE DEF Counted, Accounted, InFlight
  <1>0. UNCHANGED <<counter, series, lines, serving>> => Counted'
    OBVIOUS
  <1>1. CASE Malformed
    <2>1. serving = "receive" /\ serving' = serving
      BY <1>1 DEF Malformed, Received, MayReceive
    <2>2. record_request("invalid") /\ CountUp({"requests", "errors"}) /\ Log({"malformed"})
      BY <1>1 DEF Malformed, Received
    <2> QED  BY <2>1, <2>2, Numbers, NumbersUp, SeriesUp DEF Up, Label
  <1>2. ASSUME NEW mac \in Mac, UnknownClient(mac) PROVE Counted'
    <2>1. serving = "receive" /\ serving' = serving
      BY <1>2 DEF UnknownClient, Received, MayReceive
    <2>2. /\ record_request("unknown") /\ CountUp({"requests", "unknown", "durations"})
          /\ Log({"unknown_or_unavailable"})
      BY <1>2 DEF UnknownClient, Received
    <2> QED  BY <2>1, <2>2, Numbers, NumbersUp, SeriesUp DEF Up, Label
  <1>3. ASSUME NEW mac \in Mac, Mismatch(mac) PROVE Counted'
    <2>1. serving = "receive" /\ serving' = serving
      BY <1>3 DEF Mismatch, Received, MayReceive
    <2>2. /\ record_request("known") /\ CountUp({"requests", "mismatches", "durations"})
          /\ Log({"boot_mode_mismatch", "no_response"})
      BY <1>3 DEF Mismatch, Received
    <2> QED  BY <2>1, <2>2, Numbers, NumbersUp, SeriesUp DEF Up, Label
  <1>4. ASSUME NEW mac \in Mac, NoResponse(mac) PROVE Counted'
    <2>1. serving = "receive" /\ serving' = serving
      BY <1>4 DEF NoResponse, Received, MayReceive
    <2>2. record_request("known") /\ CountUp({"requests", "durations"}) /\ Log({"no_response"})
      BY <1>4 DEF NoResponse, Received
    <2> QED  BY <2>1, <2>2, Numbers, NumbersUp, SeriesUp DEF Up, Label
  <1>5. ASSUME NEW mac \in Mac, ReplyFails(mac) PROVE Counted'
    <2>1. serving = "receive" /\ serving' = serving
      BY <1>5 DEF ReplyFails, Received, MayReceive
    <2>2. record_request("known") /\ CountUp({"requests", "errors", "durations"}) /\ Log({"error"})
      BY <1>5 DEF ReplyFails, Received
    <2> QED  BY <2>1, <2>2, Numbers, NumbersUp, SeriesUp DEF Up, Label
  <1>6. ASSUME NEW mac \in Mac, Answer(mac) PROVE Counted'
    <2>1. serving = "receive" /\ serving' = "send" /\ record_request("known")
      BY <1>6 DEF Answer, MayReceive
    <2>2. CASE CountUp({"requests"}) /\ UNCHANGED lines
      <3>1. Log({})
        BY <2>2 DEF Log
      <3> QED  BY <2>1, <2>2, <3>1, Numbers, NumbersUp, SeriesUp DEF Up, Label
    <2>3. CASE CountUp({"requests", "errors"}) /\ Log({"relay_option_omitted"})
      BY <2>1, <2>3, Numbers, NumbersUp, SeriesUp DEF Up, Label
    <2> QED  BY <1>6, <2>2, <2>3 DEF Answer
  <1>7. CASE Sent
    <2>1. serving = "send" /\ serving' = "receive" /\ series' = series
      BY <1>7 DEF Sent
    <2>2. CountUp({"responses", "durations"}) /\ Log({"answered"})
      BY <1>7 DEF Sent
    <2> QED  BY <2>1, <2>2, Numbers, NumbersUp DEF Up
  <1>8. CASE SendFails
    <2>1. serving = "send" /\ serving' = "receive" /\ series' = series
      BY <1>8 DEF SendFails
    <2>2. CountUp({"errors", "durations"}) /\ Log({"send_error"})
      BY <1>8 DEF SendFails
    <2> QED  BY <2>1, <2>2, Numbers, NumbersUp DEF Up
  <1>9. CASE Bind \/ ReceiveFails
    <2>1. /\ UNCHANGED <<counter, series, lines>>
          /\ serving # "send" /\ serving' # "send"
      BY <1>9 DEF Bind, ReceiveFails
    <2> QED  BY <2>1
  <1>10. CASE Sync \/ Health
    BY <1>0, <1>10 DEF Sync, Health, ReadSnapshot, ReadReady, AnswerHealth, serveVars
  <1>11. CASE Restart
    <2>1. /\ counter' = [c \in Count |-> 0] /\ series' = [l \in Label |-> 0]
          /\ lines' = [r \in Result |-> 0] /\ serving' = "bind"
      BY <1>11 DEF Restart
    <2> QED  BY <2>1 DEF Count, Label, Result
  <1>12. CASE UNCHANGED vars
    BY <1>0, <1>12 DEF vars, serveVars
  <1> QED
    BY <1>1, <1>2, <1>3, <1>4, <1>5, <1>6, <1>7, <1>8, <1>9, <1>10, <1>11, <1>12
    DEF Next, Serve

-----------------------------------------------------------------------------
LEMMA ClientOfVersion ==
  ASSUME NEW v \in Version, NEW m \in DOMAIN Clients[v]
  PROVE  /\ m \in Mac /\ Clients[v][m].location \in Location /\ Clients[v][m].ip \in Ip
         /\ Clients[v][m] = [location |-> Clients[v][m].location, ip |-> Clients[v][m].ip]
  BY ServiceAssumption DEF Client

LEMMA AnsweringStep == Written /\ Answering /\ [Next]_vars => Answering'
  <1> SUFFICES ASSUME Written, Answering, [Next]_vars PROVE Answering'
    OBVIOUS
  <1> USE DEF Answering
  <1>0. ASSUME UNCHANGED <<request, logged>>, serving' \in {serving, "receive", "over"}
        PROVE  Answering'
    BY <1>0 DEF OneVersion
  <1>1. ASSUME NEW mac \in Mac, Answer(mac) PROVE Answering'
    <2>1. snapshot \in Version /\ mac \in DOMAIN Clients[snapshot]
      BY <1>1 DEF Answer, Known, Written, SharedTypeOK
    <2>2. PICK yiaddr \in {Clients[snapshot][mac].ip, Nothing} :
                 request' = [mac |-> mac, location |-> Clients[snapshot][mac].location,
                             by |-> snapshot, yiaddr |-> yiaddr]
      BY <1>1 DEF Answer
    <2>3. request' \in Request /\ logged' = logged
      BY <1>1, <2>1, <2>2, ClientOfVersion DEF Answer, Request
    <2>4. /\ request'.mac \in DOMAIN Clients[request'.by]
          /\ request'.location = Clients[request'.by][request'.mac].location
          /\ request'.yiaddr \in {Clients[request'.by][request'.mac].ip, Nothing}
      BY <2>1, <2>2
    <2> QED  BY <2>3, <2>4 DEF OneVersion
  <1>2. CASE Sent
    <2> DEFINE r == request
    <2>1. r \in Request /\ r.mac \in DOMAIN Clients[r.by]
      BY <1>2 DEF Sent
    <2>2. r.by \in Version /\ r.mac \in DOMAIN Clients[r.by] /\ r.yiaddr \in Ip \cup {Nothing}
      BY <2>1 DEF Request
    <2>3. logged' = [mac |-> r.mac, location |-> r.location,
                     ip |-> Clients[r.by][r.mac].ip, yiaddr |-> r.yiaddr]
          /\ request' = Nothing /\ serving' = "receive"
      BY <1>2 DEF Sent
    <2>4. r.location = Clients[r.by][r.mac].location
          /\ r.yiaddr \in {Clients[r.by][r.mac].ip, Nothing}
      BY <1>2 DEF Sent
    <2>5. Clients[r.by][r.mac] = [location |-> r.location, ip |-> Clients[r.by][r.mac].ip]
          /\ r.mac \in Mac /\ r.location \in Location /\ Clients[r.by][r.mac].ip \in Ip
      BY <2>2, <2>4, ClientOfVersion
    <2> HIDE DEF r
    <2>6. logged' \in Line
      BY <2>2, <2>3, <2>5 DEF Line
    <2>7. OneVersion'
      BY <2>2, <2>3, <2>4, <2>5 DEF OneVersion
    <2> QED  BY <2>3, <2>6, <2>7
  <1>3. CASE SendFails
    <2>1. request' = Nothing /\ serving' = "receive" /\ logged' = logged
      BY <1>3 DEF SendFails
    <2> QED  BY <2>1 DEF OneVersion
  <1>4. ASSUME NEW mac \in Mac,
               UnknownClient(mac) \/ Mismatch(mac) \/ NoResponse(mac) \/ ReplyFails(mac)
        PROVE  Answering'
    BY <1>0, <1>4 DEF UnknownClient, Mismatch, NoResponse, ReplyFails, Received
  <1>5. CASE Bind \/ ReceiveFails \/ Malformed \/ Sync \/ Health \/ UNCHANGED vars
    BY <1>0, <1>5 DEF Bind, ReceiveFails, Malformed, Received, Sync, Health, ReadSnapshot,
       ReadReady, AnswerHealth, serveVars, vars
  <1>6. CASE Restart
    BY <1>6 DEF Restart, OneVersion
  <1> QED  BY <1>1, <1>2, <1>3, <1>4, <1>5, <1>6 DEF Next, Serve

-----------------------------------------------------------------------------
ServiceInv == Written /\ Readable /\ Counted /\ Answering

LEMMA ServiceInvInit == Init => ServiceInv
  <1> SUFFICES ASSUME Init PROVE ServiceInv
    OBVIOUS
  <1> USE ServiceAssumption DEF Init, SharedInit
  <1>1. Written
    BY DEF Written, SharedTypeOK, FreshStatus
  <1>2. Readable
    BY DEF Readable, Reading, NotReading, HealthyHasData
  <1>3. Counted
    BY DEF Counted, Accounted, InFlight, Count, Label, Result
  <1>4. Answering
    BY DEF Answering, OneVersion
  <1> QED  BY <1>1, <1>2, <1>3, <1>4 DEF ServiceInv

THEOREM ServiceInvariant == Spec => []ServiceInv
  <1>1. ServiceInv /\ [Next]_vars => ServiceInv'
    BY WrittenStep, ReaderStep, CountedStep, AnsweringStep DEF ServiceInv
  <1> QED  BY <1>1, ServiceInvInit, PTL DEF Spec

\* Every variable keeps its type, whatever is received and however run_sync fares.
THEOREM ServiceTypeCorrect == Spec => []ServiceTypeOK
  <1>1. ServiceInv => ServiceTypeOK
    BY DEF ServiceInv, Written, Readable, Counted, Answering, ServiceTypeOK
  <1> QED  BY <1>1, ServiceInvariant, PTL

\* The line that tells of an answer is what one version of the CSV says, with the
\* address that was sent (serve's clone of the snapshot outlives its await).
THEOREM AnswersOfOneVersion == Spec => []OneVersion
  <1>1. ServiceInv => OneVersion
    BY DEF ServiceInv, Answering
  <1> QED  BY <1>1, ServiceInvariant, PTL

\* Counters, series and the log agree after any number of packets (the ways through serve).
THEOREM PacketsAccounted == Spec => []Accounted
  <1>1. ServiceInv => Accounted
    BY DEF ServiceInv, Counted
  <1> QED  BY <1>1, ServiceInvariant, PTL

\* /health is right to say healthy, although it reads three things one by one.
THEOREM HealthIsBacked == Spec => []HealthyHasData
  <1>1. ServiceInv => HealthyHasData
    BY DEF ServiceInv, Readable
  <1> QED  BY <1>1, ServiceInvariant, PTL

\* /health misses the source only between the two writes of run_sync or poll.
THEOREM SourceFollows == Spec => []SourceIsAtMostOneWriteLate
  <1>1. ServiceInv => SourceIsAtMostOneWriteLate
    BY DEF ServiceInv, Written, Readable, SourceIsAtMostOneWriteLate
  <1> QED  BY <1>1, ServiceInvariant, PTL
=============================================================================
