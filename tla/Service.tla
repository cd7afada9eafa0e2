------------------------------ MODULE Service ------------------------------
(***************************************************************************)
(* The DHCP loop dhcp::serve and the HTTP handler runtime::health, next to *)
(* the synchronizer, which is here what SharedState says of it.            *)
(*                                                                         *)
(* serve and run_sync are branches of one select! on one task: each moves  *)
(* on only while the other awaits.  Requests to /health are answered by    *)
(* other threads, between any two steps.                                   *)
(*                                                                         *)
(* Abstractions.  What serve does between two awaits is one step.  reply   *)
(* decides by itself, also by which identifier the packet is answered (see *)
(* ReplyTable), and can decide anything here.  The metric series are       *)
(* counted by who they name: "invalid" for a packet that does not parse,   *)
(* "unknown" for a MAC that is not in the snapshot.  Of a record there is  *)
(* what a log line of serve says of it, and of the log how many lines of   *)
(* each result there are.                                                  *)
(***************************************************************************)
EXTENDS SharedState, Naturals

CONSTANTS
  Mac,
  Location,
  Ip,
  Clients,     \* the records of each version, by MAC
  MaxRequests  \* a bound on the packets of one image, for TLC

Client == [location : Location, ip : Ip]

ASSUME ServiceAssumption ==
  /\ \A v \in Version :
       DOMAIN Clients[v] \subseteq Mac /\ \A m \in DOMAIN Clients[v] : Clients[v][m] \in Client
  /\ Nothing \notin Version \cup Ip \cup {"state", "remote"}
  /\ MaxRequests \in Nat

VARIABLES
  serving,   \* where serve stands
  request,   \* the request whose answer is being sent
  logged,    \* the last line that told of an answer
  lines,     \* how many lines the log has of each result
  counter,   \* the counters of Shared that serve writes
  series,    \* how many requests record_request was told of, by whom they name
  dhcpReady, \* Shared.dhcp_ready
  reader     \* one request to /health, and what it has read so far

serveVars == <<serving, request, logged, lines, counter, series, dhcpReady>>
vars == <<sharedVars, serveVars, reader>>

\* What serve holds over the await of send_to: the location it has looked up, its own
\* reference to the snapshot, and the address in the datagram (a NAK has none).
Request == [mac : Mac, location : Location, by : Version, yiaddr : Ip \cup {Nothing}]
Line == [mac : Mac, location : Location, ip : Ip, yiaddr : Ip \cup {Nothing}]
Result == {"malformed", "unknown_or_unavailable", "boot_mode_mismatch", "no_response", "error",
           "relay_option_omitted", "send_error", "answered"}
Count == {"requests", "responses", "errors", "unknown", "mismatches", "durations"}
Label == {"invalid", "unknown", "known"}

\* What a request to /health has read: nothing yet, the snapshot, or dhcp_ready too.
Reading == [at : {"idle", "ready", "status"}, count : Version \cup {Nothing}, healthy : BOOLEAN]

NotReading == [at |-> "idle", count |-> Nothing, healthy |-> FALSE]

ServiceTypeOK ==
  /\ SharedTypeOK
  /\ serving \in {"bind", "receive", "send", "over"}
  /\ request \in Request \cup {Nothing}
  /\ logged \in Line \cup {Nothing}
  /\ lines \in [Result -> Nat]
  /\ counter \in [Count -> Nat]
  /\ series \in [Label -> Nat]
  /\ dhcpReady \in BOOLEAN
  /\ reader \in Reading

Init ==
  /\ SharedInit
  /\ serving = "bind"
  /\ request = Nothing
  /\ logged = Nothing
  /\ lines = [r \in Result |-> 0]
  /\ counter = [c \in Count |-> 0]
  /\ series = [l \in Label |-> 0]
  /\ dhcpReady = FALSE
  /\ reader = NotReading

-----------------------------------------------------------------------------
\* serve moves only while run_sync awaits: the load of the file, or in poll.
\* Once that one is gone, select! has dropped them all.
BlockingLoad == writing = "poll"
SyncAwaits == writing \in {"load", "poll"}

Bind ==
  /\ serving = "bind" /\ SyncAwaits
  /\ \/ serving' = "receive" /\ dhcpReady' = TRUE
     \/ serving' = "over" /\ UNCHANGED dhcpReady
  /\ UNCHANGED <<sharedVars, request, logged, lines, counter, series, reader>>

\* An error of the socket ends serve, and main with it.
ReceiveFails ==
  /\ serving = "receive" /\ SyncAwaits
  /\ serving' = "over"
  /\ UNCHANGED <<sharedVars, request, logged, lines, counter, series, dhcpReady, reader>>

CountUp(C) == counter' = [c \in Count |-> counter[c] + (IF c \in C THEN 1 ELSE 0)]
Log(R) == lines' = [r \in Result |-> lines[r] + (IF r \in R THEN 1 ELSE 0)]
record_request(l) == series' = [series EXCEPT ![l] = @ + 1]

MayReceive == serving = "receive" /\ SyncAwaits /\ counter.requests < MaxRequests

\* The snapshot of this moment knows the MAC.
Known(mac) == snapshot # Nothing /\ mac \in DOMAIN Clients[snapshot]

\* A packet that is done with when it has been received.
Received(l, C, R) ==
  /\ MayReceive
  /\ record_request(l) /\ CountUp({"requests"} \cup C) /\ Log(R)
  /\ UNCHANGED <<sharedVars, serving, request, logged, dhcpReady, reader>>

Malformed == Received("invalid", {"errors"}, {"malformed"})

UnknownClient(mac) ==
  ~Known(mac) /\ Received("unknown", {"unknown", "durations"}, {"unknown_or_unavailable"})

\* No answer to a known client: it booted in another mode, or reply has none, or
\* reply fails.
Mismatch(mac) ==
  /\ Known(mac)
  /\ Received("known", {"mismatches", "durations"}, {"boot_mode_mismatch", "no_response"})

NoResponse(mac) == Known(mac) /\ Received("known", {"durations"}, {"no_response"})

ReplyFails(mac) == Known(mac) /\ Received("known", {"errors", "durations"}, {"error"})

\* An answer, perhaps without the relay option.
Answer(mac) ==
  /\ MayReceive /\ Known(mac)
  /\ record_request("known")
  /\ \/ CountUp({"requests"}) /\ UNCHANGED lines
     \/ CountUp({"requests", "errors"}) /\ Log({"relay_option_omitted"})
  /\ serving' = "send"
  /\ LET client == Clients[snapshot][mac]
     IN  \E yiaddr \in {client.ip, Nothing} :
           request' = [mac |-> mac, location |-> client.location, by |-> snapshot,
                       yiaddr |-> yiaddr]
  /\ UNCHANGED <<sharedVars, logged, dhcpReady, reader>>

SentByCurrent ==
  /\ serving = "send" /\ SyncAwaits /\ Known(request.mac)
  /\ CountUp({"responses", "durations"}) /\ Log({"answered"})
  /\ logged' = [mac |-> request.mac, location |-> request.location,
                ip |-> Clients[snapshot][request.mac].ip, yiaddr |-> request.yiaddr]
  /\ serving' = "receive"
  /\ request' = Nothing
  /\ UNCHANGED <<sharedVars, series, dhcpReady, reader>>

\* The answer is out, and the address in the log is read from the client again.
Sent ==
  /\ serving = "send" /\ SyncAwaits
  /\ CountUp({"responses", "durations"}) /\ Log({"answered"})
  /\ logged' = [mac |-> request.mac, location |-> request.location,
                ip |-> Clients[request.by][request.mac].ip, yiaddr |-> request.yiaddr]
  /\ serving' = "receive"
  /\ request' = Nothing
  /\ UNCHANGED <<sharedVars, series, dhcpReady, reader>>

SendUncounted ==
  /\ serving = "send" /\ SyncAwaits
  /\ CountUp({"durations"}) /\ Log({"send_error"})
  /\ serving' = "receive"
  /\ request' = Nothing
  /\ UNCHANGED <<sharedVars, logged, series, dhcpReady, reader>>

SendFails ==
  /\ serving = "send" /\ SyncAwaits
  /\ CountUp({"errors", "durations"}) /\ Log({"send_error"})
  /\ serving' = "receive"
  /\ request' = Nothing
  /\ UNCHANGED <<sharedVars, logged, series, dhcpReady, reader>>

Serve ==
  \/ Bind \/ ReceiveFails \/ Malformed
  \/ \E mac \in Mac : UnknownClient(mac) \/ Mismatch(mac) \/ NoResponse(mac) \/ ReplyFails(mac)
  \/ \E mac \in Mac : Answer(mac)
  \/ Sent \/ SendFails

\* A step of run_sync.  When serve has returned, main drops run_sync.
Sync ==
  /\ SyncNext
  /\ serving # "over" \/ writing' = "gone"
  /\ UNCHANGED <<serveVars, reader>>

-----------------------------------------------------------------------------
\* health, on its own thread: three reads, one after the other.
ReadSnapshot ==
  /\ reader.at = "idle"
  /\ reader' = [at |-> "ready", count |-> snapshot, healthy |-> FALSE]
  /\ UNCHANGED <<sharedVars, serveVars>>

ReadyIsEnough ==
  /\ reader.at = "ready"
  /\ reader' = [reader EXCEPT !.at = "status", !.healthy = dhcpReady]
  /\ UNCHANGED <<sharedVars, serveVars>>

ReadReady ==
  /\ reader.at = "ready"
  /\ reader' = [reader EXCEPT !.at = "status", !.healthy = reader.count # Nothing /\ dhcpReady]
  /\ UNCHANGED <<sharedVars, serveVars>>

\* The status is read and the answer made of it under the lock of the status.
AnswerHealth ==
  /\ reader.at = "status"
  /\ reader' = NotReading
  /\ UNCHANGED <<sharedVars, serveVars>>

Health == ReadSnapshot \/ ReadReady \/ AnswerHealth

\* The image ends, with the requests it was answering; a new one starts afresh.
Restart ==
  /\ ImageEnds
  /\ serving' = "bind"
  /\ request' = Nothing
  /\ logged' = Nothing
  /\ lines' = [r \in Result |-> 0]
  /\ counter' = [c \in Count |-> 0]
  /\ series' = [l \in Label |-> 0]
  /\ dhcpReady' = FALSE
  /\ reader' = NotReading

Next == Serve \/ Sync \/ Health \/ Restart

Spec == Init /\ [][Next]_vars

\* Each time the task of main runs, select! polls all its branches, so serve is
\* not passed over for ever; and run_sync comes to its next await.  What the file
\* system and the source owe to run_sync is not assumed.
Fairness ==
  /\ SF_vars(Bind)
  /\ SF_vars(Sent \/ SendFails)
  /\ WF_vars(Sync /\ writing \in {"loaded", "activated"})
  /\ WF_vars(Health)

FairSpec == Spec /\ Fairness

-----------------------------------------------------------------------------
\* The line that tells of an answer says what one version of the CSV says of the
\* client, with the address that was in the datagram, although poll may replace the
\* snapshot between the lookup of the client and the line: the location is from before
\* the await of send_to, the address is read after it (serve's clone of the snapshot,
\* location, client.unwrap().ip).
OneVersion ==
  logged # Nothing =>
    /\ logged.yiaddr \in {logged.ip, Nothing}
    /\ \E v \in Version :
         /\ logged.mac \in DOMAIN Clients[v]
         /\ Clients[v][logged.mac] = [location |-> logged.location, ip |-> logged.ip]

\* The counters and series agree with the lines of the log: each packet is counted
\* by one series and ends in one line, each error and each mismatch that is logged is
\* counted and no other, and each packet that parsed is timed once its answer is out
\* (serve's many ways through its loop body, record_request, record_duration).
InFlight == IF serving = "send" THEN 1 ELSE 0
Accounted ==
  /\ counter.requests = series.invalid + series.unknown + series.known
  /\ series.invalid = lines.malformed
  /\ series.unknown = lines.unknown_or_unavailable /\ counter.unknown = series.unknown
  /\ series.known =
       lines.no_response + lines.error + lines.send_error + lines.answered + InFlight
  /\ counter.responses = lines.answered
  /\ counter.mismatches = lines.boot_mode_mismatch
  /\ counter.errors =
       lines.malformed + lines.error + lines.send_error + lines.relay_option_omitted
  /\ counter.durations + InFlight = series.unknown + series.known

\* /health says healthy only of an image that has bound DHCP and has a snapshot,
\* however long the handler pauses between its reads.
HealthyHasData ==
  reader.healthy => snapshot # Nothing /\ serving # "bind"

\* /health can report a snapshot without a source only between the two writes of
\* run_sync or poll that activate the first one.
SourceIsAtMostOneWriteLate ==
  reader.count # Nothing /\ status.source = Nothing => writing \in {"loaded", "activated"}

\* serve binds and finishes each answer without waiting for a file or the source
\* (PLAN.md: DHCP processing is independent of polling and disk).
Independent ==
  /\ serving = "bind" ~> serving # "bind" \/ writing = "gone"
  /\ serving = "send" ~> serving # "send" \/ writing = "gone"

\* What PLAN.md:245-248 says of the startup: the saved CSV is loaded, and then the
\* handlers start, so no client is unknown for want of the load.
LoadBeforeServing == counter.unknown > 0 => writing # "load"
=============================================================================
