----------------------------- MODULE ClientSync -----------------------------
(***************************************************************************)
(* How the service gets, keeps and saves the client CSV: the task          *)
(* runtime::run_sync with its poll, the CSV source it polls, the blocking  *)
(* job of StateFile that saves what it got, and the process around them,   *)
(* which a signal, a failure or a power cut can end at any time.           *)
(*                                                                         *)
(* run_sync is polled by main's select! together with DHCP, HTTP and the   *)
(* signal handler, on one task.  The others run only while it awaits, but  *)
(* HTTP requests are answered by other threads and the process can die     *)
(* between any two of its writes, so each write of shared state is a step. *)
(*                                                                         *)
(* Abstractions.  A CSV is one of a small set of bodies, of which Good are *)
(* those Clients::parse accepts; the snapshot is named by the body it was  *)
(* parsed from.  ETag and Last-Modified are one validator, which names the *)
(* body it came with.  A response is one message: its status, headers and  *)
(* chunks are checked in one step when all of it is there.  last_error,    *)
(* last_success and the counters are kept as "set" or "not set".           *)
(***************************************************************************)
EXTENDS StateFile

CONSTANTS
  Good,        \* the bodies Clients::parse accepts
  Misleading   \* whether the source may answer 304 to a body it does not have

ASSUME ClientSyncAssumption ==
  /\ Good \subseteq Body
  /\ Misleading \in BOOLEAN
  /\ None \notin {"state", "remote"}

VARIABLES
  proc,        \* the process: running, leaving its image, or gone
  pc,          \* where run_sync stands
  remote,      \* the body the CSV source serves now
  net,         \* the request in flight, or the answer to it
  cache,       \* RemoteCache: the body last downloaded and its validator
  snapshot,    \* Shared.snapshot
  status,      \* Shared.status
  counted      \* the counters of Shared that are not zero

syncVars == <<proc, pc, remote, net, cache, snapshot, status, counted>>

\* run_sync can be dropped, and the other futures run, only at these points.
Awaiting == {"load", "wait", "persist", "sleep"}
Pc == Awaiting \cup
      {"loaded", "client", "ask", "publish", "record", "reportOk", "reportError", "gone"}
MessageKind == {"none", "request", "ok", "notModified", "refused"}
Counter == {"sync_success", "sync_errors", "state_read_errors", "state_write_errors"}

NoMessage == [kind |-> "none", body |-> None, tag |-> None]
EmptyCache == [body |-> None, tag |-> None]
NoStatus == [source |-> None, success |-> FALSE, error |-> FALSE]

SyncTypeOK ==
  /\ proc \in {"running", "reloading", "stopping", "down"}
  /\ pc \in Pc
  /\ remote \in Body
  /\ net \in [kind : MessageKind, body : Body \cup {None}, tag : Body \cup {None}]
  /\ cache \in [body : Body \cup {None}, tag : Body \cup {None}]
  /\ snapshot \in Good \cup {None, Torn}
  /\ status \in [source : {None, "state", "remote"}, success : BOOLEAN, error : BOOLEAN]
  /\ counted \subseteq Counter

TypeOK == FileTypeOK /\ SyncTypeOK

\* main builds Shared::new before run_sync starts.
FreshImage ==
  /\ proc' = "running"
  /\ pc' = "load"
  /\ net' = NoMessage
  /\ cache' = EmptyCache
  /\ snapshot' = None
  /\ status' = NoStatus
  /\ counted' = {}

Init ==
  /\ FileInit
  /\ proc = "running"
  /\ pc = "load"
  /\ remote \in Body
  /\ net = NoMessage
  /\ cache = EmptyCache
  /\ snapshot = None
  /\ status = NoStatus
  /\ counted = {}

-----------------------------------------------------------------------------
\* The source.
RemoteChange ==
  /\ remote' \in Body \ {remote}
  /\ UNCHANGED <<fileVars, proc, pc, net, cache, snapshot, status, counted>>

\* It answers from what it has when it answers.  It may ignore the validator,
\* send none of its own, or refuse: any status but 200 and 304, a body over
\* MAX_CSV_BYTES, or one that ends early.
Answer ==
  /\ net.kind = "request"
  /\ \/ net' = [NoMessage EXCEPT !.kind = "notModified"] /\ (net.tag = remote \/ Misleading)
     \/ \E tag \in {None, remote} : net' = [kind |-> "ok", body |-> remote, tag |-> tag]
     \/ net' = [NoMessage EXCEPT !.kind = "refused"]
  /\ UNCHANGED <<fileVars, proc, pc, remote, cache, snapshot, status, counted>>

-----------------------------------------------------------------------------
\* run_sync up to its loop: read the saved CSV and parse it.  A file that is
\* missing is no error.  A torn file could still be a shorter list that parses,
\* and would then be served; any file may also fail to be read.
ReadError ==
  /\ pc' = "client"
  /\ status' = [status EXCEPT !.error = TRUE]
  /\ counted' = counted \cup {"state_read_errors"}
  /\ UNCHANGED snapshot

LoadState ==
  /\ pc = "load"
  /\ \/ /\ file = None
        /\ pc' = "client"
        /\ UNCHANGED <<snapshot, status, counted>>
     \/ /\ file \in Good \cup {Torn}
        /\ snapshot' = file
        /\ pc' = "loaded"
        /\ UNCHANGED <<status, counted>>
     \/ file # None /\ ReadError
  /\ UNCHANGED <<fileVars, proc, remote, net, cache>>

MarkLoadedAsRemote ==
  /\ pc = "loaded"
  /\ pc' = "client"
  /\ status' = [status EXCEPT !.source = "remote"]
  /\ UNCHANGED <<fileVars, proc, remote, net, cache, snapshot, counted>>

MarkLoaded ==
  /\ pc = "loaded"
  /\ pc' = "client"
  /\ status' = [status EXCEPT !.source = "state"]
  /\ UNCHANGED <<fileVars, proc, remote, net, cache, snapshot, counted>>

\* If the client cannot be built run_sync returns, select! takes its branch
\* and main returns an error.
BuildClient ==
  /\ pc = "client"
  /\ \/ pc' = "ask" /\ UNCHANGED <<proc, status>>
     \/ pc' = "gone" /\ proc' = "stopping" /\ status' = [status EXCEPT !.error = TRUE]
  /\ UNCHANGED <<fileVars, remote, net, cache, snapshot, counted>>

\* poll: a conditional request if the cache holds a validator.
Ask ==
  /\ pc = "ask"
  /\ pc' = "wait"
  /\ net' = [kind |-> "request", body |-> None, tag |-> cache.tag]
  /\ UNCHANGED <<fileVars, proc, remote, cache, snapshot, status, counted>>

\* A connection error, or the timeout of the client: whatever the source still
\* sends goes to a connection that is closed.
LoseAnswer ==
  /\ pc = "wait"
  /\ pc' = "reportError"
  /\ net' = NoMessage
  /\ UNCHANGED <<fileVars, proc, remote, cache, snapshot, status, counted>>

AcceptNotModified ==
  /\ pc = "wait"
  /\ net.kind = "notModified"
  /\ pc' = "reportOk"
  /\ net' = NoMessage
  /\ UNCHANGED <<fileVars, proc, remote, cache, snapshot, status, counted>>

NotModified ==
  /\ pc = "wait"
  /\ net.kind = "notModified"
  /\ pc' = IF cache.body = None THEN "reportError" ELSE "reportOk"
  /\ net' = NoMessage
  /\ UNCHANGED <<fileVars, proc, remote, cache, snapshot, status, counted>>

Refused ==
  /\ pc = "wait"
  /\ net.kind = "refused"
  /\ pc' = "reportError"
  /\ net' = NoMessage
  /\ UNCHANGED <<fileVars, proc, remote, cache, snapshot, status, counted>>

\* The body the cache has: only its validator may be new.
SameBody ==
  /\ pc = "wait"
  /\ net.kind = "ok" /\ net.body = cache.body
  /\ pc' = "reportOk"
  /\ cache' = [cache EXCEPT !.tag = net.tag]
  /\ net' = NoMessage
  /\ UNCHANGED <<fileVars, proc, remote, snapshot, status, counted>>

InvalidBody ==
  /\ pc = "wait"
  /\ net.kind = "ok" /\ net.body \notin Good \cup {cache.body}
  /\ pc' = "reportError"
  /\ net' = NoMessage
  /\ UNCHANGED <<fileVars, proc, remote, cache, snapshot, status, counted>>

NewBodyUnchecked ==
  /\ pc = "wait"
  /\ net.kind = "ok" /\ net.body # cache.body
  /\ Submit(net.body)
  /\ pc' = "persist"
  /\ UNCHANGED <<proc, remote, net, cache, snapshot, status, counted>>

\* Another valid body: save it, and await that, before anything else changes.
\* poll keeps the bytes and the headers meanwhile; here they stay in net.
NewBody ==
  /\ pc = "wait"
  /\ net.kind = "ok" /\ net.body \in Good \ {cache.body}
  /\ Submit(net.body)
  /\ pc' = "persist"
  /\ UNCHANGED <<proc, remote, net, cache, snapshot, status, counted>>

\* Three ways to get a failed save wrong: to keep the new validator, to keep the
\* new body, and to serve it nevertheless.
SaveFailedKeepsValidator ==
  /\ pc = "persist"
  /\ job.at = "failed"
  /\ Collect
  /\ pc' = "reportError"
  /\ net' = NoMessage
  /\ cache' = [cache EXCEPT !.tag = net.tag]
  /\ UNCHANGED <<proc, remote, snapshot, status, counted>>

SaveFailedKeepsBody ==
  /\ pc = "persist"
  /\ job.at = "failed"
  /\ Collect
  /\ pc' = "reportError"
  /\ net' = NoMessage
  /\ cache' = [body |-> net.body, tag |-> net.tag]
  /\ UNCHANGED <<proc, remote, snapshot, status, counted>>

SaveFailedPublishes ==
  /\ pc = "persist"
  /\ job.at = "failed"
  /\ Collect
  /\ pc' = "publish"
  /\ UNCHANGED <<proc, remote, net, cache, snapshot, status, counted>>

SaveFailed ==
  /\ pc = "persist"
  /\ job.at = "failed"
  /\ Collect
  /\ pc' = "reportError"
  /\ net' = NoMessage
  /\ counted' = counted \cup {"state_write_errors"}
  /\ UNCHANGED <<proc, remote, cache, snapshot, status>>

Saved ==
  /\ pc = "persist"
  /\ job.at = "saved"
  /\ Collect
  /\ pc' = "publish"
  /\ UNCHANGED <<proc, remote, net, cache, snapshot, status, counted>>

\* The new snapshot is served from here on ...
Publish ==
  /\ pc = "publish"
  /\ pc' = "record"
  /\ snapshot' = net.body
  /\ UNCHANGED <<fileVars, proc, remote, net, cache, status, counted>>

\* ... and status and cache follow.
Record ==
  /\ pc = "record"
  /\ pc' = "reportOk"
  /\ status' = [status EXCEPT !.source = "remote"]
  /\ cache' = [body |-> net.body, tag |-> net.tag]
  /\ net' = NoMessage
  /\ UNCHANGED <<fileVars, proc, remote, snapshot, counted>>

ReportOk ==
  /\ pc = "reportOk"
  /\ pc' = "sleep"
  /\ status' = [status EXCEPT !.success = TRUE, !.error = FALSE]
  /\ counted' = counted \cup {"sync_success"}
  /\ UNCHANGED <<fileVars, proc, remote, net, cache, snapshot>>

ReportError ==
  /\ pc = "reportError"
  /\ pc' = "sleep"
  /\ status' = [status EXCEPT !.error = TRUE]
  /\ counted' = counted \cup {"sync_errors"}
  /\ UNCHANGED <<fileVars, proc, remote, net, cache, snapshot>>

Wake ==
  /\ pc = "sleep"
  /\ pc' = "ask"
  /\ UNCHANGED <<fileVars, proc, remote, net, cache, snapshot, status, counted>>

SyncStep ==
  \/ LoadState \/ MarkLoaded \/ BuildClient \/ Ask
  \/ LoseAnswer \/ NotModified \/ Refused \/ SameBody \/ InvalidBody \/ NewBody
  \/ SaveFailed \/ Saved \/ Publish \/ Record \/ ReportOk \/ ReportError \/ Wake

\* The saving job runs on its own thread as long as the process lives.
SaveStep ==
  /\ JobStepTaken
  /\ UNCHANGED syncVars

-----------------------------------------------------------------------------
\* select! takes another branch and drops run_sync where it awaits: a job that
\* was submitted stays.  The signal handler returns Reload after a SIGHUP when
\* the file on disk is valid ...
RunSyncDropped ==
  /\ proc = "running"
  /\ pc \in Awaiting
  /\ pc' = "gone"
  /\ net' = NoMessage
  /\ cache' = EmptyCache
  /\ UNCHANGED <<fileVars, remote, snapshot, status, counted>>

ReloadSignal == RunSyncDropped /\ proc' = "reloading"

\* ... and Shutdown after SIGTERM or SIGINT; DHCP or HTTP may also have failed.
StopService == RunSyncDropped /\ proc' = "stopping"

\* reload_process: exec keeps the PID, and ends every other thread.
Exec ==
  /\ proc = "reloading"
  /\ FreshImage
  /\ BeginProcess
  /\ temps' = temps
  /\ UNCHANGED remote

ExecFails ==
  /\ proc = "reloading"
  /\ proc' = "stopping"
  /\ UNCHANGED <<fileVars, pc, remote, net, cache, snapshot, status, counted>>

ProcessGone ==
  /\ proc' = "down"
  /\ pc' = "gone"
  /\ net' = NoMessage
  /\ cache' = EmptyCache
  /\ snapshot' = None
  /\ status' = NoStatus
  /\ counted' = {}
  /\ UNCHANGED remote

ExitWhenIdle ==
  /\ proc = "stopping"
  /\ job.at = "idle"
  /\ EndProcess
  /\ ProcessGone

\* main has returned: the runtime drops a job still in the queue and waits for
\* one that a thread has begun.
Exit ==
  /\ proc = "stopping"
  /\ job.at \notin Started
  /\ EndProcess
  /\ ProcessGone

Kill ==
  /\ proc # "down"
  /\ EndProcess
  /\ ProcessGone

PowerFails == PowerCut /\ ProcessGone

\* systemd, Podman or the administrator starts it again.
Start ==
  /\ proc = "down"
  /\ FreshImage
  /\ BeginProcess
  /\ UNCHANGED remote

Lifecycle ==
  ReloadSignal \/ StopService \/ Exec \/ ExecFails \/ Exit \/ Kill \/ PowerFails \/ Start

Next == RemoteChange \/ Answer \/ SyncStep \/ SaveStep \/ Lifecycle

vars == <<fileVars, syncVars>>

Spec == Init /\ [][Next]_vars

-----------------------------------------------------------------------------
(***************************************************************************)
(* Fairness: the executor polls run_sync while it has something to do (a   *)
(* timer, an answer, a finished job), the thread of a job runs, the source *)
(* answers a request, and the runtime stops once nothing holds it.  No     *)
(* failure, no signal and no start is owed to anybody.                     *)
(***************************************************************************)
Fairness ==
  /\ WF_vars(SyncStep)
  /\ WF_vars(SaveStep)
  /\ WF_vars(Answer)
  /\ WF_vars(Exit)

FairSpec == Spec /\ Fairness

\* A step in which the environment does nothing to the service: the source
\* keeps its body and answers with it, nothing ends the process, and no call of
\* the job fails, except that the name of its temporary file may be taken.
NameTaken == job.at = "create" /\ job.temp \in temps /\ job.temp \notin temps'
Quiet ==
  /\ remote' = remote
  /\ net'.kind # "refused"
  /\ ~LoseAnswer
  /\ proc' = proc
  /\ job.at # "failed" /\ job'.at = "failed" => NameTaken

-----------------------------------------------------------------------------
\* No client is ever configured from part of a CSV, wherever a crash hit the
\* save (persist_blocking, and the load in run_sync).
ServesOnlyComplete == snapshot # Torn

\* What a conditional request asks about is what the service serves: the body
\* in the cache is the active snapshot, except between the two writes that
\* replace them, and its validator came with that body.  Otherwise a 304 would
\* keep data the source no longer has (poll's order of persist, snapshot, cache).
CacheIsActive ==
  /\ cache.body # None /\ pc # "record" => cache.body = snapshot
  /\ cache.tag \in {None, cache.body}

\* A successful refresh is never reported, in health or metrics, before there
\* is remote data to serve: a 304 counts only if its body was downloaded by
\* this process (the cache.body check of poll).
SuccessMeansData ==
  status.success => snapshot \in Good /\ status.source = "remote"

\* The service implements SnapshotStore: data is served only once it is saved
\* for good, or as it was found saved, and a crash costs the served data only.
Store == INSTANCE SnapshotStore WITH
  Version <- Good, Unusable <- (Body \ Good) \cup {None, Corrupt}, Nothing <- None,
  active <- snapshot, saved <- file, recoverable <- survivors

ImplementsStore == Store!StoreSpec

\* The service implements SharedState: health, metrics and the DHCP server find
\* snapshot and status at most one write apart, with the snapshot ahead, and a
\* success only with remote data (the order of the writes in run_sync and poll).
Writing ==
  CASE pc = "load" -> "load"
    [] pc = "loaded" -> "loaded"
    [] pc = "record" -> "activated"
    [] pc = "gone" -> "gone"
    [] OTHER -> "poll"

Shared == INSTANCE SharedState WITH Version <- Good, Nothing <- None, writing <- Writing

ImplementsShared == Shared!SharedSpec

\* The name of a temporary file that an earlier process left behind, with the
\* same PID, can make saves fail but not for good, and no failure before it
\* leaves the service stuck: once the environment is quiet, the service comes
\* to serve what the source has, and keeps it.
Converges ==
  <>[][Quiet]_vars =>
     <>[](proc = "running" /\ remote \in Good => snapshot = remote)

\* Once main returns the process ends, and the job it waits for with it: a
\* save that nobody awaits any more cannot hold up the shutdown.
ShutdownCompletes == proc = "stopping" ~> proc = "down"

\* What a reader of runtime.rs:266-268 expects: a job that has started is not
\* cut short when its caller is dropped and the service goes on.
StartedJobSurvives ==
  [][proc = "reloading" /\ proc' = "running" => job.at \notin Started]_vars

\* What PLAN.md:62 says of the state file: after a poll that succeeded it holds
\* the client data in use.
SavedIsActive ==
  pc = "sleep" /\ status.success /\ ~status.error => file = snapshot
=============================================================================
