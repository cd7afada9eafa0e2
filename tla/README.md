# macdack in TLA+

macdack answers DHCPv4 requests from a static list of clients. The list is a
CSV that the service polls from an HTTP source, checks as a whole, saves to a
local file and then serves. This directory models that program: TLA+ modules
translated from `src/src/*.rs`, TLC configurations that check them on small
instances, and proofs for instances of any size.

## The system

| Component | Code | State it keeps | Operations |
|---|---|---|---|
| Synchronizer | `runtime.rs` `run_sync`, `poll` | `RemoteCache` (body, validators), the pending request | load, ask, receive, save, publish, record, sleep |
| State file | `runtime.rs` `persist`, `persist_blocking` | the file, temporary files, `SEQUENCE` | create, write, fsync, rename, fsync of the directory |
| Shared state | `runtime.rs` `Shared` | snapshot, readiness, status, counters, metric series | written by the synchronizer and the DHCP server, read by HTTP |
| DHCP server | `dhcp.rs` `serve` | the socket | receive, look up, reply, count |
| Reply | `dhcp.rs` `Packet::stage`, `route_mode`, `reply` | none | a decision: silence, error, OFFER, ACK or NAK, with fields, options, destination |
| Packet parser | `dhcp.rs` `read_options`, `Packet::parse` | none | options from three areas of the packet, or an error |
| Client CSV | `clients.rs` | the two indexes of `Clients` | parse all rows or reject the file |
| Configuration | `config.rs` | none after start | load, validate, address arithmetic |
| Lifecycle | `main.rs` | the process image | start, SIGHUP, SIGTERM, exec, exit |
| Health, metrics | `runtime.rs` `health`, `metrics`, `record_*` | series with last-seen times, counters | read in steps, scrape, prune |
| Packet dump | `dhcp.rs` `dhcp_packet_dump`, `classless_routes` | none | text of a received or sent packet |

How they interact. `main` polls four futures in one `select!` on one task: the
DHCP loop, the HTTP listener, the synchronizer and the signal handler. The
first that returns ends the others where they await. HTTP requests are answered
by tasks on other threads, and a save runs on a thread of the blocking pool. All
of them meet in `Shared`. The synchronizer is the only writer of the snapshot
and of the status; the DHCP loop takes one reference to the snapshot per
request. The process is ended by a signal, an error of one of the futures, a
kill or a power cut, and is started again by `exec` or by a supervisor; only the
state file survives.

What is hard here: the order of saving, publishing and caching a version around
an await; a crash or a failing system call at any point of a save; a
source that changes between a request and its answer; process replacement while
a blocking thread still works; protocol decisions that depend on which of
several optional fields a packet carries. `PROJECT.json` lists these hazards
with their lines and the properties that watch them.

## Modules

| Module | What it is |
|---|---|
| `StateFile` | the state file and the saving job, one action per system call, faults and crashes |
| `SnapshotStore` | what the service promises about its data: an abstract store of one active and one saved version |
| `SharedState` | what others may rely on of the snapshot and the status: an abstract synchronizer that writes one after the other |
| `ClientSync` | extends `StateFile` with the synchronizer, the source, and the life of the process; implements `SnapshotStore` and `SharedState` |
| `SyncHistory` | `ClientSync` with two history variables, for properties about what happened before |
| `Service` | `serve` and `/health` built on `SharedState`: one task, three futures, and threads that read; `MCService` gives TLC the versions |
| `DhcpReply` | the decision about one packet, as operators on packets and client records |
| `ReplyTable` | one packet, one server identifier and the answer, against the tables of RFC 2131 and of PLAN.md |
| `ReplySize` | the lengths and times of an answer, byte counts only; `MCReply` runs it next to `ReplyTable` and gives TLC the packets |
| `DhcpSession` | the server between hosts that lose packets and a CSV that is replaced; extends `DhcpReply`; `MCDhcpSession` gives TLC the hosts and tables |
| `Lifecycle` | the process: start, signals, reload, exit, with the file somebody edits and the supervisor |
| `Metrics` | the request series, pruned by requests and scrapes |
| `ClientTable` | the rows of the CSV into two indexes |
| `Subnet`, `ClientRow` | the address arithmetic, and the rules of a row that rest on it |
| `RouteOption` | classless routes from the configuration through as many options 121 as they need, to who joins these and to the log |
| `PacketOptions` | the octets of a packet through `Packet::parse` and the dump; `MCParsing` runs the four parsers one at a time and gives TLC the octets |
| `SyncProofs` (`StateFile`, `ClientSync`, `SyncHistory`), `ReplyProofs` (`ReplyTable`, `ReplySize`), `DhcpSessionProofs`, `ServiceProofs`, `LifecycleProofs`, `MetricsProofs`, `ParsingProofs` (`ClientTable`, `PacketOptions`), `AddressProofs` (`ClientRow`, `RouteOption`) | the theorems about each |

### StateFile

`job.at` is the next system call of `persist_blocking`; each action is one call
and may fail instead, which takes the error path of the closure (`Abandon`:
remove the temporary file, and that may fail too). `file` is what the state path
names; `survivors` is what it may name after a power cut: `RenameTemp` adds the
new body (and `Torn` if its data was not synced), and only `SyncDir` removes the
old. `temps` are the temporary files with the PID of the current process and
`seq` is the static `SEQUENCE`: a process image that inherits the PID of a dead
one starts at zero again and can find its name taken.

### ClientSync

`pc` is where `run_sync` stands. Between two awaits the code runs without the
other futures, but HTTP threads read what it writes and the process can die, so
each write of shared state is an action of its own: `Publish` is the snapshot,
`Record` the status and the cache, `ReportOk` the result in the loop.
`RunSyncDropped` is possible only at an await (`Awaiting`). `ReloadSignal` and
`Exec` are a SIGHUP: the future is dropped, then the image replaced, with the
job's thread running until then. `StopService` and `Exit` are a shutdown, which
waits for a job a thread has begun and drops one that is queued. `Kill` and
`PowerFails` can come at any time.

The source (`Answer`) answers from the body it has at that moment; it may ignore
the validator, send none, refuse, and, if `Misleading`, answer 304 to a body it
does not have. `LoseAnswer` is a failed connection or the client's timeout.

Kept abstract: bodies are model values (`Good` ones parse), ETag and
Last-Modified are one validator, and counters, `last_success` and `last_error`
are "set" or "not set".

### DhcpReply, ReplyTable and ReplySize

`reply` of `dhcp.rs` keeps no state, so `DhcpReply` has one operator for each of
its decisions, named as in the code where the code has a name: `stage`,
`route_mode`, `boot_mode_mismatch`, `boot_file`, `destination`, and `reply`, which
puts them in the order of the code. A packet is the record `Packet::parse`
leaves, with an option that is absent, or an address that is zero, as `None`.
Which bytes the options are is left out, and so are the parameters that every
OFFER and ACK carries. Malformed packets do not get this far.

`ReplyTable` decides one packet and compares the answer with what it should be
by two independent tables: the client states of RFC 2131 (which of `ciaddr`,
option 50 and option 54 a REQUEST carries) and the route table of PLAN.md. The
identifier the server answers by is that of the configuration, or of the listen
address, or the local address the kernel gives with the packet (`Identifier`). The
last may be anything, also `Unusable`: unspecified, broadcast or multicast. It is
the first check of `reply` (`NotPossible`) that keeps it out of an answer, and
`HeardByClient` that says so.

`ReplySize` is the arithmetic that `DhcpReply` hides in `room`: `Options` is
everything up to the relay option, `RelayOption` the forecast with
`encoded_size`, `Chunk` one pass of the loop in `option`, `End` the END octet, the
check against the client's maximum and the padding. `times` are options 51, 58
and 59. What the relay option takes is counted for `RelayWhenItFits` by itself
(`Headers`: one header in front of every `MaxChunk` octets, as a cardinality),
and the property compares with it both the forecast and what `Chunk` has written.

### DhcpSession

`serve` looks a MAC up in the snapshot of that moment and forgets the client.
`Handle` is one packet: lookup, decision and sending in one step, since between
the lookup and the sending of the answer nothing awaits, and an answer that was
decided but not yet sent is no different from one in the network. `Publish` is
what `ClientSync` does to the snapshot: a new version, or none after a restart.

The hosts are external: RFC 2131 clients with INIT-REBOOT, renewal and
rebinding, on the server's link or behind a relay, some of which boot firmware,
iPXE and a system one after the other. A host's packet can be handled again as
long as it waits, with any version that is published meanwhile; its answers come
in any order, or not. INFORM, RELEASE and DECLINE are not sent by these hosts:
`ReplyTable` covers INFORM, and `serve` changes nothing on the other two.

### SharedState and Service

`SharedState` is `run_sync` seen from outside: the snapshot is written, and in a
step of its own the status, so a reader can find the one without the other.
`ClientSync` implements it (`ImplementsShared`, also a theorem): `writing` there
is read off `pc`. `Service` is built on it, so what is shown of `Service` holds
with the real synchronizer, its crashes and reloads.

In `Service` the actions of `Serve` are the ways through the loop body between two
awaits: `Malformed`, `UnknownClient`, `Mismatch`, `NoResponse` and `ReplyFails` come
back to receive, `Answer` goes on to the await of `send_to`, and `Sent` or
`SendFails` ends the round. `serve` and `run_sync` share a task: each moves only
while the other awaits (`SyncAwaits`); `Health` is on another thread and moves
between any two steps, one read at a time. An error of `serve` drops the
synchronizer.

`request` is what serve keeps over the await: the location it has looked up, its own
reference to the snapshot, and the address in the datagram. `Sent` writes the log
line from the first and from the client it reads again through the second, as the
code does with `location` and `client.unwrap().ip`; `OneVersion` asks whether
that line is what one version says, with the address that was sent. `lines` counts
the log lines by result, and `Accounted` compares counters and series with them.

### Lifecycle

`phase` follows `main`: loading the file, setting up, `select!`, a check after a
SIGHUP, the way to `exec`, the way out. A signal before the handlers are there has
the default disposition and ends the process; after that it is `pending` until
`shutdown_or_reload` takes it. The streams of SIGTERM and SIGHUP live as long as
the function; `ctrl_c` is called anew in each round, so a SIGINT that comes while
a file is checked can be lost, which `TakeHup` and `Send` say. `Exec` keeps the PID
and nothing else. The supervisor restarts what failed, not what a signal or its own
return ended. So a second SIGHUP that comes before the new image has its
handlers ends the service for good (`Send` in the phases before `up`), and a
SIGTERM that is pending when a reload has been chosen is lost with the old image
(`Exec`). Nothing in the repository promises otherwise, so no property says more:
`SignalsAreTaken` is about the loop of `main` only. `config` is `NoConfig` until
the image has loaded a valid file, and a valid one from then on (`LifecycleTypeOK`).

### Metrics

`record_request` counts, reads the clock, and then enters the series under the
lock: three steps, of which the last may be `Delay` later than the second. `prune`
is the function of that name, called with the time of the request by
`EnterSeries` and with its own by `Scrape`. `dropped` and `used` are histories:
the counts that were pruned with their series, and when a label was entered.

### ClientTable, Subnet, ClientRow, RouteOption

`ClientTable` takes a file row by row; a row is a client, the header, or bad, and
`ClientRow` says when a row is a client. Addresses have `Width` bits, which is any
number from 4, and the ranges of `is_unicast` are scaled with them; masks are
computed as the code does, with shifts that lose what leaves the word and with
`And` and `Or` bit by bit, and compared with blocks of addresses, by division
only. `ShiftedMask` is the other mask, which `reply` makes by itself for option 1;
`GatewayOnLink` asks that it covers exactly the block.

`RouteOption` follows routes through `parse_route`, the encoding in `reply` and
`option`, which cuts a value into chunks of at most what a length octet counts
(`Chunks`; 7 octets in the instance, so that two routes need more than one). The
chunks are then read in one of two ways: joined, as RFC 3396 has it and
`read_options` does (`JoinChunks`), or one by itself, as the dump does
(`DumpChunk`). The reader is `classless_routes` in both cases, since that is the
only one in the code; it also gets the options of other hosts. Its two places
that could panic are the slices of the option (`InValue`) and the array of four
octets for the network (`InArray`), which the check of the prefix keeps safe.

### PacketOptions

`areas` are the octets after the cookie and, once an overload leads there, those
of `file` and `sname`. Each action is one turn of the loop in `read_options` or
in `dhcp_packet_dump`, with the checks in the order of the code; each read of
octets has its own bounds (`InBounds`), and one outside them is a panic. The
reference (`Options`, `Joined`, `InUse`) is written from the end of an area to
its beginning and joins values after the fact. What is scaled: an octet goes to
`Top`, which is END; there is one option of a fixed length besides the message
type; the header is one of five kinds.

## What the runs check

| Run | Instance | Shows |
|---|---|---|
| `client_sync` | 2 valid and 1 invalid body, 2 sequence numbers, misleading 304s | `ServesOnlyComplete`, `CacheIsActive`, `SuccessMeansData`; `CrashSafe` and `SavedIsDurable` with a failure or crash after any call of a save; that `ClientSync` implements `SnapshotStore` and `SharedState` |
| `sync_history` | the same, honest 304s | `ReportedIsFresh`, `NoRollback`, `Converges`, `ShutdownCompletes` |
| `reply` | decisions: 2 addresses, a relay, 2 machines, every combination of options (a broadcast flag that is only echoed is fixed, and option 82 goes with a relay), every listen address and identifier; sizes: chunks of 2, maximum at least 7, padding to 5, lengths up to 11, leases below 32 | `RequestsByState`, `RoutesFollowPlan`, `HeardByClient`; `RelayWhenItFits`, `TimesInOrder` |
| `dhcp_session` | a host behind a relay that boots from disk, one on the link that boots from the network; 3 versions: two that swap the addresses, one that drops a host and has the other in another mode | `Exclusive`, `Settles` |
| `service` | 2 versions, one of which lists both hosts; a host at other places and addresses in each; 2 packets for each image | `OneVersion`, `Accounted`, `HealthyHasData`, `SourceIsAtMostOneWriteLate`, `Independent` |
| `lifecycle` | 2 valid files and an invalid one | `LifecycleTypeOK`, `ReloadNeedsValidFile`, `ReloadApplies`, `SignalsAreTaken` |
| `metrics` | 2 labels, 4 requests, 11 points of time, a TTL of 4, pruning every 2, entries up to 2 late | `Conserved`, `ActiveIsKept`, `OnlyRecentShown` |
| `parsing` | CSV: 3 MACs, 3 addresses, up to 4 rows | `IndexesAgree`, `KeptWhole` |
| | rows: all pairs of addresses of 6 bits, all prefixes | `ClientsAreHosts`, `GatewayOnLink` |
| | routes: addresses of 2 octets of 3 bits, 2 routes, chunks of up to 7 octets, foreign options of up to 6 | `RoutesArrive`, `ShownAsSent` |
| | packets: octets up to 4, 6 of them as options, 3 in each other area | `NoPanic`, `OptionsAsSent`, `DumpAgrees` |
| `reload_interrupts_save` | 2 valid bodies, honest 304s | a violation: SIGHUP ends a started job |
| `saved_is_active` | the same | a violation: the file and the data in use part for good |
| `load_before_serving` | as `service` | a violation: serving before the load |
| `invalid_file_is_rejected` | as `lifecycle` | a violation: a reload that ends the service |

`client_sync` also checks the type invariant, which says what may be served, and
`lifecycle` its own, which says what an image runs; those of the other modules
with proofs are theorems. Deadlock is checked except in `reply` and
`parsing`, which stop when the answer is made or the input is read.

Bounds. Two valid bodies are enough for "the old one" and "the new one", and for
a source that goes back; the invalid one takes the rejecting path. Two sequence
numbers let a fresh name follow one that is taken, and wrap. Nothing else is
bounded in these runs: the number of polls, failures, crashes and reloads is not.

In `reply` the protocol's numbers are scaled down so that every length is
tried: two full chunks, a rest and nothing fit below the bound, announced
maxima fall below and above the least one, and the seven-fold of a lease passes
the end of a word. The theorems have the real numbers. In `dhcp_session` two
hosts and two addresses are what it takes for an address to change hands; the
third version makes a host unknown while it has an address. Packets, versions,
reboots and lost answers are not bounded.

In `service`, two versions let the snapshot change while an answer is sent, and two
packets put one of every kind behind one of every other; an image can be followed
by any number of others. In `metrics` the clock passes the TTL and two intervals
after the first request, so a series is pruned, comes back, and is pruned again;
`Delay` is less than the TTL, as with 24 hours it is. Four rows are a header, two
clients and a duplicate of either. Six bits have every class of address
(`is_unicast`) in a block of its own and prefixes from /1 to the pair and the
single address. Two routes are up to ten octets, so they are cut behind, or in the
middle of, the second; six foreign octets are a route of either length with a rest,
or a longer one torn anywhere, with every prefix an octet can say. Six octets are two options with a rest, an overload followed by
an option, or one torn at its code, length or value; three in `file` complete a
value, start a torn one, or announce another overload.

Fairness of `dhcp_session`: `serve` handles a packet that is repeated as long
as its host waits, and a host goes on. `Settles` assumes that from some time on
the CSV stays, nobody reboots, and a host does not lose patience while an answer
is there or would come.

Fairness of `sync_history`. The executor polls a future that is ready, the
thread of a job runs, a request is answered, and the runtime stops when nothing
holds it. The answer is the source's, not the code's: without it the poll still
ends (by timeout) but nothing can be fetched. No failure, signal or restart is
ever owed. `Converges` assumes that from some time on no step is a fault
(`Quiet`); a taken file name is no fault, since the code is meant to cope.

Fairness of `service`. Each time the task of `main` runs, `select!` polls
all its branches, so `serve` moves if it can again and again (`SF` of `Bind` and of
the end of `send_to`), and between two awaits `run_sync` goes on by itself (`WF`).
Nothing is assumed of the file system or the source: `Independent` holds although
the load or a poll may never end.

Fairness of `lifecycle`. The process runs and the supervisor restarts what failed
(`WF`). `SF` of `TakeTerm`: `select!` starts at a random branch, so a SIGTERM that
is there each time is not passed over for ever by SIGHUPs. `ReloadApplies` assumes
that edits, signals and failures stop.

## What is proved

For constants of any size; assumptions are the `ASSUME`s of the modules, which
keep special values apart and give the others their types.

- `SyncProofs`, about `StateFile`: `CrashSafe` and `SavedIsDurable`,
  which are not inductive. The invariant `FileInv` adds what the job has done by
  each call: at the rename its data is synced, at the directory fsync the path
  names its body.
- `SyncProofs`, about `ClientSync`: every step of `ClientSync` is a step of
  `StateFile` or leaves it alone (`StepOfFile`), so `Spec => FileSpec` and `FileInv` comes for
  free. `SyncInv` adds that the job exists only while it is awaited
  (`JobAwaited`), that the body in hand is valid and, once saved, all that can
  come back (`InHand`), and that what is cached is served (`Served`). From it:
  `TypeOK`, `ServesOnlyComplete`, `CacheIsActive`, `SuccessMeansData`, and the
  refinement of `SnapshotStore`, in which a rename is a `Save`, the directory
  fsync a `Commit` and `Publish` a `Switch`. `SyncImplementsShared` is the
  refinement of `SharedState`.
- `SyncProofs`, about `SyncHistory`: `NoRollback`, from `Attempted` (what is being saved was
  attempted), and `ReportedIsFresh` under `~Misleading`, from `Offered` (what the
  source sent, or confirmed, it had during this poll).
- `ReplyProofs`, about `ReplyTable`: `RequestsByState`, `RoutesFollowPlan`
  and `HeardByClient` for any addresses and boot files, and whatever local address
  comes with a packet.
- `ReplyProofs`, about `ReplySize`: `RelayWhenItFits` and `TimesInOrder` for
  any chunk size, maximum and word size. `RelayPlan` is the loop invariant of
  `option`: what is written of the relay option and what `encoded_size` says of the
  rest add up to what it said of the whole. `ForecastIsExact` says that this is what
  the independent count of headers gives.
- `DhcpSessionProofs`: `SessionTypeOK` and `Exclusive` for any hosts, relays and
  versions. `Exclusive` is not inductive: `RepliesFit` adds that an answer under
  way is what `reply` gives to the host's last packet by some version, and
  `HeldIsAssigned` that an address in use is that host's in the version that
  acknowledged it. Both rest on a version naming no address twice, which
  `NoAddressTwice` shows of `Clients::parse`.
- `ServiceProofs`: the type and the four invariants of `service`, for any
  hosts, versions and numbers of packets. `ServiceInv` adds that what `serve` holds
  over its await is what the version it holds says (`Answering`), and what the
  position of `run_sync` says of snapshot and source.
- `LifecycleProofs`: `LifecycleTypeOK` and `ReloadNeedsValidFile`, from
  `CheckedFileStays`: what was checked is still there until somebody edits it.
- `MetricsProofs`: `ActiveIsKept` and `OnlyRecentShown` for any times with
  `Delay < TTL`. `LittleDelay` bounds how old the time of an entry is, and
  `NoneOverdue` says that the last pruning was not later than what it left by
  the TTL, which is what holds when pruning is not due.
- `MetricsProofs`: `Conserved`, from `CountInv` and the laws of a sum over a
  finite set (one label more, one value changed, a part taken away).
- `ParsingProofs`, about `ClientTable`: `TableTypeOK` and `IndexesAgree`;
  `KeptWhole`, from `RowsKept` (each row read so far is kept, and each that is
  kept was read) and from `RowRefused` for a file that is rejected.
- `ParsingProofs`, about `PacketOptions`, for areas of any length: `PacketTypeOK`
  and `NoPanic`; `OptionsAsSent`, from `ReadInv`; `DumpAgrees`, from `ShownSoFar`.
  The reference reads an area from its end, the code from its beginning. `ReadInv`
  brings them together: what is read so far, followed by what the reference has
  for the octets that are left (`Rest`), is what it has for the whole, and
  `options` are the values of the first part joined by code. It also says which
  areas are behind, because an overload leads to a second and a third.
- `AddressProofs`, about `ClientRow`: `ClientsAreHosts` and `GatewayOnLink`.
  `RowInv` is simple; the work is in `MaskedIs`, which says that the masks of the
  code cut an address at the length of its block.
- `AddressProofs`, about `RouteOption`, for octets and addresses of any width and
  any number of routes. `RoutesArrive`, from `OwnOption`: chunks joined are the value
  that was cut (`ChunksJoin`), the reader stands behind one of the routes and has
  shown exactly those before it. What `parse_route` accepts has zeros where the
  encoding leaves octets out (`HostOctetIsZero`), and octets are read back as the
  address they came from (`OctetsReadBack`). `ShownAsSent`, from `RouteOptionInv`
  (no step panics, `ReadsInside`) and `ShownInv`: what is shown so far is, written
  down, the value up to where the reader stands.

Induction. The prover cannot apply an induction rule, whose hypothesis is an
operator. Where a fact goes by induction over the length of a sequence, the number
of labels or of bits, the proof takes a least number that breaks it (`LeastNat`,
`LeastSet`) and looks at the one before. `FlattenSeq`, `Joined`, the reference
`Options`, `Sum`, `And` and `FromOctets` are recursive functions, of which such a
proof first shows that there is one and only one. Powers of two come from the
number of subsets of an interval (`Doubling`).

Only model-checked: liveness (`Converges`, `ShutdownCompletes`, `Settles`,
`Independent`, `ReloadApplies`, `SignalsAreTaken`), which is out of the prover's
reach. Every safety property of a passing run is also a theorem.

## Findings

- SIGHUP during a save (`reload_interrupts_save`). The comment at
  `runtime.rs:266-268` says a started job is not interrupted; `exec` in
  `main.rs:132` ends its thread. `CrashSafe` still holds, so the file is whole;
  what remains is a temporary file, or a rename that is not yet durable.
- A directory fsync that fails after the rename (`saved_is_active`). `persist`
  reports failure, so version A stays active while the file already holds B. If
  the source returns to A, polls succeed and never rewrite the file; a restart
  without the source then serves B. `NoRollback` says how far this can go: B is
  always a version that was given to `persist` later than A.
- DHCP before the load (`load_before_serving`). PLAN.md:245-248 loads the saved
  CSV before the handlers start; `main.rs:24-27` starts all at once, and a known
  client is counted and logged as unknown while the file is read.
- A file that changes during a reload (`invalid_file_is_rejected`). README.md:37-38
  says an invalid file is rejected; it is loaded again after the check
  (`main.rs:110` and `main.rs:17`), and what is invalid by then ends the service.

Without a run of its own, since only the log is concerned: README.md:96-98 says that
`packet_dump` includes the classless routes. `option` cuts the value at 255 octets
(`dhcp.rs:447-452`), wherever that is in a route, and the dump gives each option by
itself to `classless_routes` (`dhcp.rs:150`). A torn one is shown as characters, and
what follows may be read as routes nobody configured; `tests/protocol.rs:238-241`
has such a list (320 octets). In `RouteOption` this is `DumpChunk`, which is why
`RoutesArrive` is about who joins the options, as a client does, and `ShownAsSent`
says only that the dump shows what is in the option at hand.

## What is not modelled

- TOML and argument parsing, the set-up of logging, packaging: they run once or
  are a library's. `validate`'s rules for single values (names, URLs, ports,
  file names) are checks of one field each.
- The formatting of dumps, logs, JSON and metrics, with `relay_information` and
  `option_value` of the dump, except for the routes; no property is about their text.
- `setsockopt` and `recvmsg`: their result enters `ReplyTable` as any local address,
  and `Service` as an error.
- The directories above the state file: `create_dir_all` (`runtime.rs:280`) may make
  one whose own entry is not synced, so that a power cut takes it away with the
  file. `StateFile` takes the directory as there and durable.
- The mutexes of the metrics, which `record_request` and a scrape share: they are held
  for a few lines without an await, so `Independent` is about files and the source
  only, and takes the locks as granted.
- The parameters every OFFER and ACK carries: they are copied from the client and
  the configuration.
- Temporary files of processes with other PIDs (`runtime.rs:286`), which nothing
  in the code removes.
- `responses` by message and the sums of durations: each is one write under one
  lock.

## Plan

What is left: `relay_information` as a second loop of the dump, with the bounds of
its suboptions; `DhcpSession` against an abstract table of assignments, as
`ClientSync` is against `SnapshotStore`.
