----------------------------- MODULE SyncProofs -----------------------------
(***************************************************************************)
(* Proofs about StateFile, ClientSync and SyncHistory, for any set of      *)
(* bodies, any of them valid, any width of the sequence number, any        *)
(* behaviour of the source and any sequence of failures.                   *)
(*                                                                         *)
(* The saving job is proved first, by itself.  Every step of ClientSync is *)
(* one of the job or leaves its files alone (StepOfFile), so FileInv holds *)
(* there too, and what it says of the job is what run_sync relies on.      *)
(***************************************************************************)
EXTENDS SyncHistory, TLAPS

(***************************************************************************)
(* The saving job.  CrashSafe and SavedIsDurable are not inductive: they   *)
(* need to know what the job has done to its own file by the time it comes *)
(* to each call.                                                           *)
(***************************************************************************)
\* The job has a body to save for as long as it has not given up.
HasBody == job.at \in Started \cup {"queued", "saved"} => job.body \in Body

\* The rename comes after the fsync of the data, ...
RenameIsLate == job.at = "rename" => job.data = "synced"

\* ... and the fsync of the directory after the rename.
DirSyncIsLast == job.at = "dirsync" => file = job.body

FileInv ==
  /\ FileTypeOK
  /\ CrashSafe
  /\ SavedIsDurable
  /\ HasBody
  /\ RenameIsLate
  /\ DirSyncIsLast

\* SEQUENCE stays within its width.
LEMMA SequenceNumbers == 0 \in SeqNo /\ \A n \in SeqNo : (n + 1) % SeqSpace \in SeqNo
<1>. SeqSpace \in Nat \ {0}
  BY StateFileAssumption
<1>. QED
  BY DEF SeqNo

\* A machine at rest satisfies the invariant: its state file is on disk, and
\* no job runs.
LEMMA FileInvInit == FileInit => FileInv
  BY StateFileAssumption, SequenceNumbers
     DEF FileInit, FileInv, FileTypeOK, CrashSafe, SavedIsDurable, HasBody, RenameIsLate,
         DirSyncIsLast, Content, JobStep, Started, TempData, NoJob

\* Giving up keeps the invariant: whatever the job did, the state path and
\* what may survive stay as they are.
LEMMA AbandonKeepsInv == FileInv /\ Abandon => FileInv'
  BY DEF FileInv, Abandon, FileTypeOK, CrashSafe, SavedIsDurable, HasBody, RenameIsLate,
         DirSyncIsLast, JobStep, Started

\* Every system call, its failure, the end of the process and a power cut keep
\* the invariant.
LEMMA FileInvStep == FileInv /\ [FileNext]_fileVars => FileInv'
<1> SUFFICES ASSUME FileInv, [FileNext]_fileVars PROVE FileInv'
  OBVIOUS
<1> USE StateFileAssumption
<1> USE DEF FileInv, FileTypeOK, CrashSafe, SavedIsDurable, HasBody, RenameIsLate,
            DirSyncIsLast, Content, JobStep, Started, TempData, NoJob
<1>1. ASSUME NEW b \in Body, Submit(b) PROVE FileInv'
  <2>1. job' = [at |-> "queued", body |-> b, temp |-> 0, data |-> "none"]
    BY <1>1 DEF Submit
  <2>2. 0 \in SeqNo
    BY SequenceNumbers
  <2>. QED
    BY <1>1, <2>1, <2>2 DEF Submit
<1>2. CASE BeginJob
  <2>1. seq' \in SeqNo /\ seq \in SeqNo
    BY <1>2, SequenceNumbers DEF BeginJob
  <2>2. /\ job' = [at |-> job'.at, body |-> job.body, temp |-> job'.temp, data |-> job.data]
        /\ job'.at \in {"create", "failed"}
        /\ job'.temp \in SeqNo
    BY <1>2, <2>1 DEF BeginJob
  <2>3. job.body \in Body
    BY <1>2 DEF BeginJob
  <2>4. UNCHANGED <<file, survivors, temps>>
    BY <1>2 DEF BeginJob
  <2>. QED
    BY <2>1, <2>2, <2>3, <2>4
<1>3. CASE CreateTemp
  BY <1>3, AbandonKeepsInv DEF CreateTemp
<1>4. CASE WriteTemp
  BY <1>4, AbandonKeepsInv DEF WriteTemp
<1>5. CASE SyncTemp
  BY <1>5, AbandonKeepsInv DEF SyncTemp
<1>6. CASE RenameTemp
  BY <1>6, AbandonKeepsInv DEF RenameTemp, Visible, Durable
<1>7. CASE SyncDir
  BY <1>7, AbandonKeepsInv DEF SyncDir
<1>8. CASE Collect
  BY <1>8, SequenceNumbers DEF Collect
<1>9. CASE EndProcess
  BY <1>9, SequenceNumbers DEF EndProcess
<1>10. CASE BeginProcess
  BY <1>10, SequenceNumbers DEF BeginProcess
<1>11. CASE PowerCut
  BY <1>11, SequenceNumbers DEF PowerCut
<1>12. CASE UNCHANGED fileVars
  BY <1>12 DEF fileVars
<1>. QED
  BY <1>1, <1>2, <1>3, <1>4, <1>5, <1>6, <1>7, <1>8, <1>9, <1>10, <1>11, <1>12
     DEF FileNext, JobStepTaken

THEOREM FileInvariant == FileSpec => []FileInv
  BY FileInvInit, FileInvStep, PTL DEF FileSpec

\* The job and the files keep their types.
THEOREM FileTypeCorrect == FileSpec => []FileTypeOK
<1>. FileInv => FileTypeOK
  BY DEF FileInv
<1>. QED
  BY FileInvariant, PTL

\* No crash, at any call of persist_blocking, leaves part of a body under the
\* state path.
THEOREM StateFileIsCrashSafe == FileSpec => []CrashSafe
<1>. FileInv => CrashSafe
  BY DEF FileInv
<1>. QED
  BY FileInvariant, PTL

\* A save that persist reports as done has left only its body to come back.
THEOREM SaveIsDurable == FileSpec => []SavedIsDurable
<1>. FileInv => SavedIsDurable
  BY DEF FileInv
<1>. QED
  BY FileInvariant, PTL

-----------------------------------------------------------------------------
\* The synchronizer.
Loading == {"load", "loaded", "client"}
Handling == {"persist", "publish", "record"}

\* Only the running process polls, and what it holds dies with the future.
Gone ==
  /\ proc # "running" => pc = "gone"
  /\ pc \in Loading \cup {"gone"} => cache = EmptyCache

\* While run_sync lives, a job exists only while it awaits that job, and saves
\* the body it has in hand; it saves a valid body even when nobody awaits it.
JobAwaited ==
  /\ job.at # "idle" => job.body \in Good
  /\ proc = "running" /\ pc # "persist" => job.at = "idle"
  /\ pc = "persist" => job.at # "idle" /\ job.body = net.body

\* An answer brings a body, with its own validator if it has one.  The body in
\* hand was parsed before it was given to persist, is the only one a crash can
\* leave before it is published, and is active before it is cached.
InHand ==
  /\ net.kind = "ok" => net.body \in Body /\ net.tag \in {None, net.body}
  /\ pc \in Handling => net.kind = "ok" /\ net.body \in Good
  /\ pc = "publish" => survivors = {net.body}
  /\ pc = "record" => snapshot = net.body

\* Nothing is served before the load; what is cached, or reported, is served.
Served ==
  /\ pc = "load" => snapshot = None
  /\ pc \in Loading => ~status.success
  /\ cache.body # None \/ pc = "reportOk" => snapshot \in Good /\ status.source = "remote"

SyncInv ==
  /\ SyncTypeOK /\ Gone /\ JobAwaited /\ InHand /\ Served
  /\ ServesOnlyComplete /\ CacheIsActive /\ SuccessMeansData

-----------------------------------------------------------------------------
\* Each step of ClientSync is a step of StateFile, or leaves the files alone.
LEMMA StepOfFile == [Next]_vars => [FileNext]_fileVars
<1> SUFFICES ASSUME [Next]_vars PROVE [FileNext]_fileVars
  OBVIOUS
<1> USE DEF fileVars
<1>1. CASE RemoteChange
  BY <1>1 DEF RemoteChange
<1>2. CASE Answer
  BY <1>2 DEF Answer
<1>3. CASE SyncStep
  <2>1. CASE LoadState \/ MarkLoaded \/ BuildClient \/ Ask
    BY <2>1 DEF LoadState, MarkLoaded, BuildClient, Ask
  <2>2. CASE LoseAnswer \/ NotModified \/ Refused \/ SameBody \/ InvalidBody
    BY <2>2 DEF LoseAnswer, NotModified, Refused, SameBody, InvalidBody
  <2>3. CASE NewBody
    <3>1. net.body \in Body
      BY <2>3, ClientSyncAssumption DEF NewBody
    <3>. QED
      BY <2>3, <3>1 DEF NewBody, FileNext
  <2>4. CASE SaveFailed \/ Saved
    BY <2>4 DEF SaveFailed, Saved, FileNext
  <2>5. CASE Publish \/ Record \/ ReportOk \/ ReportError \/ Wake
    BY <2>5 DEF Publish, Record, ReportOk, ReportError, Wake
  <2>. QED
    BY <1>3, <2>1, <2>2, <2>3, <2>4, <2>5 DEF SyncStep
<1>4. CASE SaveStep
  BY <1>4 DEF SaveStep, FileNext
<1>5. CASE Lifecycle
  <2>1. CASE ReloadSignal \/ StopService \/ ExecFails
    BY <2>1 DEF ReloadSignal, StopService, ExecFails, RunSyncDropped
  <2>2. CASE Exec \/ Start \/ Exit \/ Kill \/ PowerFails
    BY <2>2 DEF Exec, Start, Exit, Kill, PowerFails, FileNext
  <2>. QED
    BY <1>5, <2>1, <2>2 DEF Lifecycle
<1>6. CASE UNCHANGED vars
  BY <1>6 DEF vars
<1>. QED
  BY <1>1, <1>2, <1>3, <1>4, <1>5, <1>6 DEF Next

\* The state file and its job, inside the service, are those of StateFile.
THEOREM SyncImplementsFile == Spec => FileSpec
<1>1. Init => FileInit
  BY DEF Init
<1>. QED
  BY <1>1, StepOfFile, PTL DEF Spec, FileSpec

THEOREM SyncFileInvariant == Spec => []FileInv
  BY SyncImplementsFile, FileInvariant, PTL

\* A call of the job neither ends it for its caller nor changes what it saves.
LEMMA JobKeepsBody ==
  ASSUME FileTypeOK, JobStepTaken
  PROVE  job.at # "idle" /\ job'.at # "idle" /\ job'.body = job.body
  BY DEF FileTypeOK, JobStepTaken, BeginJob, CreateTemp, WriteTemp, SyncTemp, RenameTemp,
         SyncDir, Abandon

-----------------------------------------------------------------------------
LEMMA SyncInvInit == Init => SyncInv
  BY StateFileAssumption, ClientSyncAssumption
     DEF Init, FileInit, NoJob, NoMessage, EmptyCache, NoStatus, SyncInv, SyncTypeOK, Gone,
         JobAwaited, InHand, Served, ServesOnlyComplete, CacheIsActive, SuccessMeansData,
         Pc, Awaiting, MessageKind, Counter, Loading, Handling

\* A fresh process image starts the invariant over, whatever went before.
LEMMA FreshImageInv ==
  ASSUME SyncInv, FreshImage, remote' = remote, job' = NoJob
  PROVE  SyncInv'
  BY StateFileAssumption, ClientSyncAssumption
     DEF FreshImage, NoJob, NoMessage, EmptyCache, NoStatus, SyncInv, SyncTypeOK, Gone,
         JobAwaited, InHand, Served, ServesOnlyComplete, CacheIsActive, SuccessMeansData,
         Pc, Awaiting, MessageKind, Counter, Loading, Handling

\* So does its end.
LEMMA ProcessGoneInv ==
  ASSUME SyncInv, ProcessGone, job' = NoJob
  PROVE  SyncInv'
  BY StateFileAssumption, ClientSyncAssumption
     DEF ProcessGone, NoJob, NoMessage, EmptyCache, NoStatus, SyncInv, SyncTypeOK, Gone,
         JobAwaited, InHand, Served, ServesOnlyComplete, CacheIsActive, SuccessMeansData,
         Pc, Awaiting, MessageKind, Counter, Loading, Handling

LEMMA SyncInvStep == FileInv /\ SyncInv /\ [Next]_vars => SyncInv'
<1> SUFFICES ASSUME FileInv, SyncInv, [Next]_vars PROVE SyncInv'
  OBVIOUS
<1> USE StateFileAssumption, ClientSyncAssumption
<1> USE DEF SyncInv, SyncTypeOK, Gone, JobAwaited, InHand, Served, ServesOnlyComplete,
            CacheIsActive, SuccessMeansData, Pc, Awaiting, MessageKind, Counter, Loading,
            Handling, fileVars
<1>1. CASE RemoteChange
  BY <1>1 DEF RemoteChange
<1>2. CASE Answer
  BY <1>2 DEF Answer, NoMessage
<1>3. CASE SyncStep
  <2>1. CASE LoadState
    <3>1. file # Torn
      BY DEF FileInv, CrashSafe
    <3>2. /\ pc' \in {"client", "loaded"} /\ snapshot' \in {snapshot} \cup Good
          /\ status' \in {status, [status EXCEPT !.error = TRUE]}
          /\ counted' \subseteq Counter
      BY <2>1, <3>1 DEF LoadState, ReadError
    <3>3. pc = "load" /\ UNCHANGED <<fileVars, proc, remote, net, cache>>
      BY <2>1 DEF LoadState
    <3>4. SyncTypeOK'
      BY <3>2, <3>3
    <3>. QED
      BY <3>2, <3>3, <3>4
  <2>2. CASE MarkLoaded
    BY <2>2 DEF MarkLoaded, EmptyCache
  <2>3. CASE BuildClient
    BY <2>3 DEF BuildClient
  <2>4. CASE Ask
    BY <2>4 DEF Ask
  <2>5. CASE LoseAnswer
    BY <2>5 DEF LoseAnswer, NoMessage
  <2>6. CASE NotModified
    BY <2>6 DEF NotModified, NoMessage
  <2>7. CASE Refused
    BY <2>7 DEF Refused, NoMessage
  <2>8. CASE SameBody
    BY <2>8 DEF SameBody, NoMessage
  <2>9. CASE InvalidBody
    BY <2>9 DEF InvalidBody, NoMessage
  <2>10. CASE NewBody
    <3>1. job'.at = "queued" /\ job'.body = net.body
      BY <2>10 DEF NewBody, Submit, NoJob
    <3>. QED
      BY <2>10, <3>1 DEF NewBody, Submit
  <2>11. CASE SaveFailed
    BY <2>11 DEF SaveFailed, Collect, NoJob, NoMessage
  <2>12. CASE Saved
    <3>1. survivors = {net.body}
      BY <2>12 DEF Saved, FileInv, SavedIsDurable
    <3>. QED
      BY <2>12, <3>1 DEF Saved, Collect, NoJob
  <2>13. CASE Publish
    BY <2>13 DEF Publish
  <2>14. CASE Record
    BY <2>14 DEF Record, NoMessage
  <2>15. CASE ReportOk
    BY <2>15 DEF ReportOk
  <2>16. CASE ReportError
    BY <2>16 DEF ReportError
  <2>17. CASE Wake
    BY <2>17 DEF Wake
  <2>. QED
    BY <1>3, <2>1, <2>2, <2>3, <2>4, <2>5, <2>6, <2>7, <2>8, <2>9, <2>10, <2>11, <2>12,
       <2>13, <2>14, <2>15, <2>16, <2>17 DEF SyncStep
<1>4. CASE SaveStep
  <2>1. job.at # "idle" /\ job'.at # "idle" /\ job'.body = job.body
    BY <1>4, JobKeepsBody DEF SaveStep, FileInv
  <2>. QED
    BY <1>4, <2>1 DEF SaveStep, syncVars
<1>5. CASE Lifecycle
  <2>1. CASE ReloadSignal \/ StopService
    <3>1. /\ RunSyncDropped
          /\ proc' \in {"reloading", "stopping"}
      BY <2>1 DEF ReloadSignal, StopService
    <3>2. /\ cache'.body = None /\ cache'.tag = None
          /\ net'.kind = "none"
      BY <3>1 DEF RunSyncDropped, NoMessage, EmptyCache
    <3>3. SyncTypeOK'
      BY <3>1 DEF RunSyncDropped, NoMessage, EmptyCache
    <3>. QED
      BY <3>1, <3>2, <3>3 DEF RunSyncDropped
  <2>2. CASE ExecFails
    BY <2>2 DEF ExecFails
  <2>3. CASE Exec \/ Start
    BY <2>3, FreshImageInv DEF Exec, Start, BeginProcess
  <2>4. CASE Exit \/ Kill \/ PowerFails
    BY <2>4, ProcessGoneInv DEF Exit, Kill, PowerFails, EndProcess, PowerCut
  <2>. QED
    BY <1>5, <2>1, <2>2, <2>3, <2>4 DEF Lifecycle
<1>6. CASE UNCHANGED vars
  BY <1>6 DEF vars, syncVars
<1>. QED
  BY <1>1, <1>2, <1>3, <1>4, <1>5, <1>6 DEF Next

THEOREM SyncInvariant == Spec => [](FileInv /\ SyncInv)
<1>1. Init => SyncInv
  BY SyncInvInit
<1>2. FileInv /\ SyncInv /\ [Next]_vars => SyncInv'
  BY SyncInvStep
<1>. QED
  BY <1>1, <1>2, SyncFileInvariant, PTL DEF Spec

\* Every variable of the service keeps its type.
THEOREM TypeCorrect == Spec => []TypeOK
<1>. FileInv /\ SyncInv => TypeOK
  BY DEF FileInv, SyncInv, TypeOK
<1>. QED
  BY SyncInvariant, PTL

\* No client is configured from part of a CSV, at whatever call of
\* persist_blocking a crash came.
THEOREM OnlyCompleteServed == Spec => []ServesOnlyComplete
<1>. SyncInv => ServesOnlyComplete
  BY DEF SyncInv
<1>. QED
  BY SyncInvariant, PTL

\* What poll asks about in a conditional request is what the service serves.
THEOREM CacheCoherence == Spec => []CacheIsActive
<1>. SyncInv => CacheIsActive
  BY DEF SyncInv
<1>. QED
  BY SyncInvariant, PTL

\* A success that run_sync records stands for data it downloaded and serves,
\* even if the source answers 304 as it pleases.
THEOREM SuccessIsServed == Spec => []SuccessMeansData
<1>. SyncInv => SuccessMeansData
  BY DEF SyncInv
<1>. QED
  BY SyncInvariant, PTL

-----------------------------------------------------------------------------
(***************************************************************************)
(* The refinement.  A rename is a Save, the directory fsync after it the   *)
(* Commit, Publish the Switch: between the last two the job is idle and    *)
(* InHand says that only the body in hand can come back.                   *)
(***************************************************************************)
LEMMA StoreInitHolds == Init => Store!StoreInit
  BY StateFileAssumption, ClientSyncAssumption DEF Init, FileInit, Store!StoreInit

\* A call of the job saves, commits, or changes nothing the store can tell.
LEMMA SaveStepRefines ==
  ASSUME FileInv, SyncInv, SaveStep
  PROVE  [Store!StoreNext]_Store!storeVars
<1> USE DEF Store!storeVars
<1>1. snapshot' = snapshot
  BY DEF SaveStep, syncVars
<1>2. CASE UNCHANGED <<file, survivors>>
  BY <1>1, <1>2
<1>3. CASE RenameTemp
  <2>1. job.data = "synced" /\ job.body \in Good
    BY <1>3 DEF RenameTemp, FileInv, RenameIsLate, SyncInv, JobAwaited
  <2>2. CASE Abandon
    BY <1>1, <2>2 DEF Abandon
  <2>3. CASE file' = job.body /\ survivors' = survivors \cup {job.body}
    BY <1>1, <2>1, <2>3 DEF Store!StoreNext, Store!Save
  <2>. QED
    BY <1>3, <2>1, <2>2, <2>3 DEF RenameTemp, Visible, Durable
<1>4. CASE SyncDir
  <2>1. CASE Abandon
    BY <1>1, <2>1 DEF Abandon
  <2>2. CASE survivors' = {file} /\ file' = file
    BY <1>1, <2>2 DEF Store!StoreNext, Store!Commit
  <2>. QED
    BY <1>4, <2>1, <2>2 DEF SyncDir
<1>. QED
  BY <1>2, <1>3, <1>4 DEF SaveStep, JobStepTaken, BeginJob, CreateTemp, WriteTemp, SyncTemp,
     Abandon

LEMMA StoreStepHolds ==
  FileInv /\ SyncInv /\ [Next]_vars => [Store!StoreNext]_Store!storeVars
<1> SUFFICES ASSUME FileInv, SyncInv, [Next]_vars
             PROVE  [Store!StoreNext]_Store!storeVars
  OBVIOUS
<1> USE DEF Store!storeVars
<1>1. CASE UNCHANGED <<snapshot, file, survivors>>
  BY <1>1
<1>2. CASE LoadState
  <2>1. snapshot = None /\ file # Torn
    BY <1>2 DEF LoadState, SyncInv, Served, FileInv, CrashSafe
  <2>2. CASE snapshot' = file /\ file \in Good
    BY <1>2, <2>1, <2>2 DEF LoadState, fileVars, Store!StoreNext, Store!Load
  <2>. QED
    BY <1>1, <1>2, <2>1, <2>2 DEF LoadState, ReadError, fileVars
<1>3. CASE Publish
  <2>1. survivors = {net.body} /\ file \in survivors /\ net.body \in Good
    BY <1>3 DEF Publish, SyncInv, InHand, Handling, FileInv, CrashSafe
  <2>. QED
    BY <1>3, <2>1 DEF Publish, fileVars, Store!StoreNext, Store!Switch
<1>4. CASE SaveStep
  BY <1>4, SaveStepRefines
<1>5. CASE Exec \/ Start \/ Exit \/ Kill
  BY <1>5 DEF Exec, Start, Exit, Kill, FreshImage, ProcessGone, BeginProcess, EndProcess,
     Store!StoreNext, Store!Crash
<1>6. CASE PowerFails
  BY <1>6 DEF PowerFails, PowerCut, ProcessGone, Store!StoreNext, Store!PowerLoss
<1>7. CASE RemoteChange \/ Answer
  BY <1>1, <1>7 DEF RemoteChange, Answer, fileVars
<1>8. CASE \/ MarkLoaded \/ BuildClient \/ Ask \/ LoseAnswer \/ NotModified \/ Refused
           \/ SameBody \/ InvalidBody
  BY <1>1, <1>8 DEF MarkLoaded, BuildClient, Ask, LoseAnswer, NotModified, Refused,
     SameBody, InvalidBody, fileVars
<1>9. CASE NewBody \/ SaveFailed \/ Saved \/ Record \/ ReportOk \/ ReportError \/ Wake
  BY <1>1, <1>9 DEF NewBody, SaveFailed, Saved, Record, ReportOk, ReportError, Wake,
     Submit, Collect, fileVars
<1>10. CASE ReloadSignal \/ StopService \/ ExecFails
  BY <1>1, <1>10 DEF ReloadSignal, StopService, ExecFails, RunSyncDropped, fileVars
<1>11. CASE UNCHANGED vars
  BY <1>1, <1>11 DEF vars, syncVars, fileVars
<1>. QED
  BY <1>2, <1>3, <1>4, <1>5, <1>6, <1>7, <1>8, <1>9, <1>10, <1>11
     DEF Next, SyncStep, Lifecycle

\* The service implements SnapshotStore: whatever fails, a version is served
\* only when nothing but it can come back, or as it was found saved.
THEOREM SyncImplementsStore == Spec => ImplementsStore
  BY StoreInitHolds, StoreStepHolds, SyncInvariant, PTL
     DEF Spec, ImplementsStore, Store!StoreSpec

-----------------------------------------------------------------------------
(***************************************************************************)
(* The other refinement: what the readers of Shared find.  run_sync writes *)
(* snapshot and status only where SharedState says it does.                *)
(***************************************************************************)
LEMMA SharedInitHolds == Init => Shared!SharedInit
  BY DEF Init, Shared!SharedInit, Shared!FreshStatus, NoStatus, Writing

\* The steps that leave run_sync where it stands, and what it wrote.
LEMMA SharedUntouched ==
  ASSUME UNCHANGED <<pc, snapshot, status>>
  PROVE  UNCHANGED Shared!sharedVars
  BY DEF Shared!sharedVars, Writing

LEMMA SharedStepHolds ==
  FileInv /\ SyncInv /\ [Next]_vars =>
    [Shared!SyncNext \/ Shared!ImageEnds]_Shared!sharedVars
<1> SUFFICES ASSUME FileInv, SyncInv, [Next]_vars
             PROVE  [Shared!SyncNext \/ Shared!ImageEnds]_Shared!sharedVars
  OBVIOUS
<1> USE DEF Shared!sharedVars
<1>1. CASE UNCHANGED <<pc, snapshot, status>>
  BY <1>1, SharedUntouched
<1>2. CASE LoadState
  <2>1. snapshot = None /\ file # Torn /\ Writing = "load"
    BY <1>2 DEF LoadState, SyncInv, Served, FileInv, CrashSafe, Writing
  <2>2. CASE pc' = "loaded" /\ snapshot' \in Good /\ status' = status
    BY <2>1, <2>2 DEF Writing, Shared!SyncNext, Shared!LoadSaved
  <2>3. CASE /\ pc' = "client" /\ snapshot' = snapshot
             /\ status' \in {status, [status EXCEPT !.error = TRUE]}
    BY <2>1, <2>3 DEF Writing, Shared!SyncNext, Shared!LoadNothing
  <2>. QED
    BY <1>2, <2>1, <2>2, <2>3 DEF LoadState, ReadError
<1>3. CASE MarkLoaded
  BY <1>3 DEF MarkLoaded, Writing, Shared!SyncNext, Shared!NoteLoaded
<1>4. CASE BuildClient
  <2>1. Writing = "poll"
    BY <1>4 DEF BuildClient, Writing
  <2>2. CASE pc' = "ask" /\ UNCHANGED <<snapshot, status>>
    BY <2>1, <2>2 DEF Writing
  <2>3. CASE pc' = "gone" /\ snapshot' = snapshot /\ status' = [status EXCEPT !.error = TRUE]
    BY <2>1, <2>3 DEF Writing, Shared!SyncNext, Shared!SyncEnds
  <2>. QED
    BY <1>4, <2>2, <2>3 DEF BuildClient
<1>5. CASE \/ Ask \/ LoseAnswer \/ NotModified \/ Refused \/ SameBody \/ InvalidBody
           \/ NewBody \/ SaveFailed \/ Saved \/ Wake
  <2>1. /\ pc \in {"ask", "wait", "persist", "sleep"}
        /\ pc' \in {"wait", "reportError", "reportOk", "persist", "publish", "ask"}
        /\ UNCHANGED <<snapshot, status>>
    BY <1>5 DEF Ask, LoseAnswer, NotModified, Refused, SameBody, InvalidBody, NewBody,
       SaveFailed, Saved, Wake
  <2>. QED
    BY <2>1 DEF Writing
<1>6. CASE Publish
  <2>1. net.body \in Good
    BY <1>6 DEF Publish, SyncInv, InHand, Handling
  <2>. QED
    BY <1>6, <2>1 DEF Publish, Writing, Shared!SyncNext, Shared!Activate
<1>7. CASE Record
  BY <1>7 DEF Record, Writing, Shared!SyncNext, Shared!NoteRemote
<1>8. CASE ReportOk
  <2>1. status.source = "remote"
    BY <1>8 DEF ReportOk, SyncInv, Served
  <2>. QED
    BY <1>8, <2>1 DEF ReportOk, Writing, Shared!SyncNext, Shared!Succeed
<1>9. CASE ReportError
  BY <1>9 DEF ReportError, Writing, Shared!SyncNext, Shared!Fail
<1>10. CASE ReloadSignal \/ StopService
  <2>1. /\ pc \in Awaiting /\ pc' = "gone"
        /\ UNCHANGED <<snapshot, status>>
    BY <1>10 DEF ReloadSignal, StopService, RunSyncDropped
  <2>2. Writing \in {"load", "poll"} /\ Writing' = "gone"
    BY <2>1 DEF Awaiting, Writing
  <2>. QED
    BY <2>1, <2>2 DEF Shared!SyncNext, Shared!SyncEnds
<1>11. CASE Exec \/ Start \/ Exit \/ Kill \/ PowerFails
  <2>1. /\ pc' \in {"load", "gone"}
        /\ snapshot' = None /\ status' = NoStatus
    BY <1>11 DEF Exec, Start, Exit, Kill, PowerFails, FreshImage, ProcessGone
  <2>. QED
    BY <2>1 DEF Writing, NoStatus, Shared!ImageEnds, Shared!FreshStatus
<1>12. CASE RemoteChange \/ Answer \/ SaveStep \/ ExecFails \/ UNCHANGED vars
  BY <1>1, <1>12 DEF RemoteChange, Answer, SaveStep, ExecFails, vars, syncVars
<1>. QED
  BY <1>2, <1>3, <1>4, <1>5, <1>6, <1>7, <1>8, <1>9, <1>10, <1>11, <1>12
     DEF Next, SyncStep, Lifecycle

\* The service implements SharedState, on which Service is built: snapshot and status
\* are at most one write apart, and a success comes only with remote data.
THEOREM SyncImplementsShared == Spec => ImplementsShared
  BY SharedInitHolds, SharedStepHolds, SyncInvariant, PTL
     DEF Spec, ImplementsShared, Shared!SharedSpec

-----------------------------------------------------------------------------
(***************************************************************************)
(* The history properties.  They rest on the invariant of ClientSync,      *)
(* which the history leaves untouched.                                     *)
(***************************************************************************)
\* A message belongs to a poll under way.
NetInPoll == net.kind # "none" => pc \in {"wait"} \cup Handling

\* What is saved now, or was since the last activation, was attempted.
Attempted ==
  /\ job.at # "idle" => job.body \in attempted
  /\ pc = "record" => survivors = {snapshot}
  /\ pc \in Loading => status.source # "remote"
  /\ NoRollback

\* The source had the body it sent, and the one it confirmed.
Offered ==
  /\ pc \in Polling => remote \in offered
  /\ net.kind = "ok" => net.body \in offered
  /\ net.kind = "request" => net.tag = cache.tag
  /\ net.kind = "notModified" /\ cache.body # None => cache.body \in offered
  /\ ReportedIsFresh

HistoryBase == FileInv /\ SyncInv /\ NetInPoll

-----------------------------------------------------------------------------
\* The history variables only remember: without them the steps are the same.
THEOREM HistoryImplementsSync == HistorySpec => Spec
<1>1. HistoryInit => Init
  BY DEF HistoryInit
<1>2. [Next /\ Remember]_historyVars => [Next]_vars
  BY DEF historyVars
<1>. QED
  BY <1>1, <1>2, PTL DEF HistorySpec, Spec

LEMMA NetInPollStep == SyncInv /\ NetInPoll /\ [Next]_vars => NetInPoll'
<1> SUFFICES ASSUME SyncInv, NetInPoll, [Next]_vars PROVE NetInPoll'
  OBVIOUS
<1> USE DEF NetInPoll, Handling
<1>1. CASE UNCHANGED <<net, pc>>
  BY <1>1
<1>2. CASE Answer
  BY <1>2 DEF Answer
<1>3. CASE LoadState \/ MarkLoaded \/ BuildClient
  BY <1>3 DEF LoadState, ReadError, MarkLoaded, BuildClient
<1>4. CASE Ask
  BY <1>4 DEF Ask
<1>5. CASE LoseAnswer \/ NotModified \/ Refused \/ SameBody \/ InvalidBody \/ SaveFailed
           \/ Record
  BY <1>5 DEF LoseAnswer, NotModified, Refused, SameBody, InvalidBody, SaveFailed, Record,
     NoMessage
<1>6. CASE NewBody \/ Saved \/ Publish
  BY <1>6 DEF NewBody, Saved, Publish
<1>7. CASE ReportOk \/ ReportError \/ Wake
  BY <1>7 DEF ReportOk, ReportError, Wake
<1>8. CASE ReloadSignal \/ StopService \/ Exec \/ Exit \/ Kill \/ PowerFails \/ Start
  BY <1>8 DEF ReloadSignal, StopService, RunSyncDropped, Exec, Exit, Kill, PowerFails, Start,
     FreshImage, ProcessGone, NoMessage
<1>9. CASE RemoteChange \/ SaveStep \/ ExecFails \/ UNCHANGED vars
  BY <1>1, <1>9 DEF RemoteChange, SaveStep, ExecFails, vars, syncVars
<1>. QED
  BY <1>2, <1>3, <1>4, <1>5, <1>6, <1>7, <1>8, <1>9 DEF Next, SyncStep, Lifecycle

THEOREM HistoryBaseInvariant == HistorySpec => []HistoryBase
<1>1. Init => NetInPoll
  BY DEF Init, NetInPoll, NoMessage
<1>2. SyncInv /\ NetInPoll /\ [Next]_vars => NetInPoll'
  BY NetInPollStep
<1>3. Spec => []NetInPoll
  BY <1>1, <1>2, SyncInvariant, PTL DEF Spec
<1>. QED
  BY <1>3, HistoryImplementsSync, SyncInvariant, PTL DEF HistoryBase

-----------------------------------------------------------------------------
LEMMA AttemptedStep ==
  HistoryBase /\ Attempted /\ [Next /\ Remember]_historyVars => Attempted'
<1> SUFFICES ASSUME HistoryBase, Attempted, [Next /\ Remember]_historyVars PROVE Attempted'
  OBVIOUS
<1> USE StateFileAssumption, ClientSyncAssumption
<1> USE DEF Attempted, NoRollback, HistoryBase, SyncInv, JobAwaited, Loading, fileVars
<1>1. ASSUME Remember, snapshot' = snapshot, ~(pc = "publish" /\ pc' = "record")
      PROVE  attempted \subseteq attempted'
  BY <1>1 DEF Remember, Publish
\* Most steps move pc only, as far as this invariant goes.
<1>2. ASSUME Remember, UNCHANGED <<fileVars, snapshot>>, status'.source = status.source,
             pc' \notin {"record"} \cup Loading
      PROVE  Attempted'
  BY <1>1, <1>2
<1>3. CASE Remember /\ RemoteChange
  BY <1>1, <1>3 DEF RemoteChange
<1>4. CASE Remember /\ Answer
  BY <1>1, <1>4 DEF Answer
<1>5. CASE Remember /\ SyncStep
  <2>1. CASE LoadState
    <3>1. job.at = "idle" /\ pc' \in Loading /\ status'.source = status.source
      BY <2>1 DEF LoadState, ReadError, SyncTypeOK, Gone
    <3>. QED
      BY <2>1, <3>1 DEF LoadState
  <2>2. CASE MarkLoaded
    <3>1. status'.source = "state" /\ job.at = "idle" /\ pc' = "client"
      BY <2>2 DEF MarkLoaded, SyncTypeOK, Gone
    <3>. QED
      BY <2>2, <3>1 DEF MarkLoaded
  <2>3. CASE BuildClient
    <3>1. status'.source = status.source /\ pc' \in {"ask", "gone"}
      BY <2>3 DEF BuildClient, SyncTypeOK
    <3>. QED
      BY <1>2, <1>5, <2>3, <3>1 DEF BuildClient
  <2>4. CASE Ask \/ LoseAnswer \/ NotModified \/ Refused \/ SameBody \/ InvalidBody \/ Wake
    BY <1>2, <1>5, <2>4 DEF Ask, LoseAnswer, NotModified, Refused, SameBody, InvalidBody, Wake
  <2>5. CASE NewBody
    <3>1. job'.body = net.body /\ net.body \in attempted' /\ attempted \subseteq attempted'
      BY <1>5, <2>5 DEF NewBody, Submit, NoJob, Remember, Publish
    <3>. QED
      BY <2>5, <3>1 DEF NewBody, Submit
  <2>6. CASE SaveFailed \/ Saved
    BY <1>1, <1>5, <2>6 DEF SaveFailed, Saved, Collect, NoJob
  <2>7. CASE Publish
    <3>1. survivors = {net.body} /\ job.at = "idle"
      BY <2>7 DEF Publish, InHand, Gone
    <3>. QED
      BY <2>7, <3>1 DEF Publish
  <2>8. CASE Record
    <3>1. survivors = {snapshot} /\ job.at = "idle"
      BY <2>8 DEF Record, Gone
    <3>. QED
      BY <2>8, <3>1 DEF Record
  <2>9. CASE ReportOk \/ ReportError
    <3>1. status'.source = status.source
      BY <2>9 DEF ReportOk, ReportError, SyncTypeOK
    <3>. QED
      BY <1>2, <1>5, <2>9, <3>1 DEF ReportOk, ReportError
  <2>. QED
    BY <1>5, <2>1, <2>2, <2>3, <2>4, <2>5, <2>6, <2>7, <2>8, <2>9 DEF SyncStep
<1>6. CASE Remember /\ SaveStep
  <2>1. attempted \subseteq attempted' /\ UNCHANGED <<snapshot, status, pc>>
    BY <1>1, <1>6 DEF SaveStep, syncVars
  <2>2. job.at # "idle" /\ job'.body = job.body /\ job.body \in attempted'
    BY <1>6, <2>1, JobKeepsBody DEF SaveStep, FileInv
  <2>3. pc # "record"
    BY <2>2 DEF Gone
  <2>4. survivors' \subseteq survivors \cup {job.body}
    <3>1. CASE RenameTemp
      BY <3>1 DEF RenameTemp, Visible, Durable, FileInv, RenameIsLate, Abandon
    <3>2. CASE SyncDir
      BY <3>2 DEF SyncDir, FileInv, CrashSafe, Abandon
    <3>. QED
      BY <1>6, <3>1, <3>2 DEF SaveStep, JobStepTaken, BeginJob, CreateTemp, WriteTemp,
         SyncTemp, Abandon
  <2>. QED
    BY <2>1, <2>2, <2>3, <2>4
<1>7. CASE Remember /\ Lifecycle
  <2>1. CASE ReloadSignal \/ StopService
    BY <1>2, <1>7, <2>1 DEF ReloadSignal, StopService, RunSyncDropped
  <2>2. CASE ExecFails
    <3>1. pc = "gone"
      BY <2>2 DEF ExecFails, Gone
    <3>. QED
      BY <1>2, <1>7, <2>2, <3>1 DEF ExecFails
  <2>3. CASE Exec \/ Exit \/ Kill \/ PowerFails \/ Start
    <3>1. /\ job'.at = "idle"
          /\ pc' \in {"load", "gone"}
          /\ status'.source = None
      BY <2>3 DEF Exec, Exit, Kill, PowerFails, Start, FreshImage, ProcessGone, NoStatus,
         BeginProcess, EndProcess, PowerCut, NoJob
    <3>. QED
      BY <3>1
  <2>. QED
    BY <1>7, <2>1, <2>2, <2>3 DEF Lifecycle
<1>8. CASE UNCHANGED historyVars
  BY <1>8 DEF historyVars, vars, syncVars
<1>. QED
  BY <1>3, <1>4, <1>5, <1>6, <1>7, <1>8 DEF Next

\* Whatever calls failed and whatever the source did since, a power cut brings
\* back the active version or a later one that persist was given.
THEOREM NoRollbackHolds == HistorySpec => []NoRollback
<1>1. HistoryInit => Attempted
  BY ClientSyncAssumption
     DEF HistoryInit, Init, FileInit, NoJob, NoStatus, Attempted, NoRollback, Loading
<1>2. HistoryBase /\ Attempted /\ [Next /\ Remember]_historyVars => Attempted'
  BY AttemptedStep
<1>3. Attempted => NoRollback
  BY DEF Attempted
<1>. QED
  BY <1>1, <1>2, <1>3, HistoryBaseInvariant, PTL DEF HistorySpec

-----------------------------------------------------------------------------
LEMMA OfferedStep ==
  ~Misleading /\ HistoryBase /\ Offered /\ [Next /\ Remember]_historyVars => Offered'
<1> SUFFICES ASSUME ~Misleading, HistoryBase, Offered, [Next /\ Remember]_historyVars
             PROVE  Offered'
  OBVIOUS
<1> USE StateFileAssumption, ClientSyncAssumption
<1> USE DEF Offered, ReportedIsFresh, HistoryBase, NetInPoll, Handling, Polling
<1>1. ASSUME Remember, pc' \in Polling PROVE offered \subseteq offered' /\ remote' \in offered'
  BY <1>1 DEF Remember
\* With no message in flight and no success to report, nothing more is claimed.
<1>2. ASSUME Remember, net'.kind = "none", pc' # "reportOk" PROVE Offered'
  BY <1>1, <1>2
<1>3. CASE Remember /\ RemoteChange
  BY <1>1, <1>3 DEF RemoteChange
<1>4. CASE Remember /\ Answer
  <2>1. pc = "wait" /\ pc' = pc /\ remote \in offered /\ UNCHANGED <<remote, cache>>
    BY <1>4 DEF Answer, SyncInv, InHand
  <2>2. cache.tag \in {None, cache.body} /\ remote # None
    BY DEF SyncInv, SyncTypeOK, CacheIsActive
  <2>3. CASE net' = [NoMessage EXCEPT !.kind = "notModified"] /\ net.tag = remote
    <3>1. cache.body = remote /\ net'.kind = "notModified"
      BY <1>4, <2>2, <2>3 DEF Answer, NoMessage
    <3>. QED
      BY <1>1, <1>4, <2>1, <3>1
  <2>4. CASE \E tag \in {None, remote} : net' = [kind |-> "ok", body |-> remote, tag |-> tag]
    BY <1>1, <1>4, <2>1, <2>4
  <2>5. CASE net' = [NoMessage EXCEPT !.kind = "refused"]
    BY <1>1, <1>4, <2>1, <2>5 DEF NoMessage
  <2>. QED
    BY <1>4, <2>3, <2>4, <2>5 DEF Answer
<1>5. CASE Remember /\ SyncStep
  <2>1. CASE LoadState \/ MarkLoaded \/ BuildClient \/ ReportOk \/ ReportError \/ Wake
    BY <1>2, <1>5, <2>1 DEF LoadState, ReadError, MarkLoaded, BuildClient, ReportOk,
       ReportError, Wake
  <2>2. CASE Ask
    BY <1>1, <1>5, <2>2 DEF Ask
  <2>3. CASE LoseAnswer \/ Refused \/ InvalidBody \/ SaveFailed
    BY <1>2, <1>5, <2>3 DEF LoseAnswer, Refused, InvalidBody, SaveFailed, NoMessage
  <2>4. CASE NotModified
    <3>1. cache.body # None => cache.body = snapshot
      BY <2>4 DEF NotModified, SyncInv, CacheIsActive
    <3>. QED
      BY <1>1, <1>2, <1>5, <2>4, <3>1 DEF NotModified, NoMessage
  <2>5. CASE SameBody
    <3>1. net.body = snapshot /\ snapshot \in offered
      BY <2>5 DEF SameBody, SyncInv, InHand, CacheIsActive
    <3>. QED
      BY <1>1, <1>5, <2>5, <3>1 DEF SameBody, NoMessage
  <2>6. CASE NewBody \/ Saved \/ Publish
    BY <1>1, <1>5, <2>6 DEF NewBody, Saved, Publish
  <2>7. CASE Record
    <3>1. net.kind = "ok" /\ snapshot = net.body
      BY <2>7 DEF Record, SyncInv, InHand
    <3>. QED
      BY <1>1, <1>5, <2>7, <3>1 DEF Record, NoMessage
  <2>. QED
    BY <1>5, <2>1, <2>2, <2>3, <2>4, <2>5, <2>6, <2>7 DEF SyncStep
<1>6. CASE Remember /\ (SaveStep \/ ExecFails)
  BY <1>1, <1>6 DEF SaveStep, syncVars, ExecFails
<1>7. CASE Remember /\ (ReloadSignal \/ StopService \/ Exec \/ Exit \/ Kill \/ PowerFails \/ Start)
  BY <1>2, <1>7 DEF ReloadSignal, StopService, RunSyncDropped, Exec, Exit, Kill, PowerFails,
     Start, FreshImage, ProcessGone, NoMessage
<1>8. CASE UNCHANGED historyVars
  BY <1>8 DEF historyVars, vars, syncVars
<1>. QED
  BY <1>3, <1>4, <1>5, <1>6, <1>7, <1>8 DEF Next, Lifecycle

\* If the source answers 304 only to what it has, a poll that run_sync reports
\* as successful leaves data in service that the source had during that poll.
THEOREM ReportedFresh ==
  ASSUME ~Misleading
  PROVE  HistorySpec => []ReportedIsFresh
<1>1. HistoryInit => Offered
  BY DEF HistoryInit, Init, NoMessage, Offered, ReportedIsFresh, Polling
<1>2. HistoryBase /\ Offered /\ [Next /\ Remember]_historyVars => Offered'
  BY OfferedStep
<1>3. Offered => ReportedIsFresh
  BY DEF Offered
<1>. QED
  BY <1>1, <1>2, <1>3, HistoryBaseInvariant, PTL DEF HistorySpec
=============================================================================
