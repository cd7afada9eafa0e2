------------------------------ MODULE StateFile ------------------------------
(***************************************************************************)
(* The saved client CSV and the job that replaces it.                      *)
(*                                                                         *)
(* runtime::persist hands the whole replacement to one blocking job, which *)
(* runs persist_blocking on a thread of its own: create a temporary file,  *)
(* write it, fsync it, rename it over the state file, fsync the directory. *)
(* The job is one action per system call, so that a fault, the death of    *)
(* the process or a power cut can come between any two of them.            *)
(*                                                                         *)
(* Abstractions.  A file holds one of a set of bodies, no bytes.  Temporary*)
(* files are known by the sequence number in their name: "temps" are those *)
(* that carry the PID of the current process.  What a power cut can leave  *)
(* under the state path is the set "survivors": a rename adds to it, and   *)
(* only a directory fsync removes what was there before.                   *)
(***************************************************************************)
EXTENDS Naturals

CONSTANTS
  Body,       \* the bodies persist can be asked to save
  None,       \* no file, no body
  Torn,       \* a prefix of a body: bytes that never reached the disk are gone
  Corrupt,    \* a file run_sync cannot use (unreadable, too large, not a CSV)
  SeqSpace    \* SEQUENCE is an AtomicU64 that wraps; here it wraps at SeqSpace

ASSUME StateFileAssumption ==
  /\ SeqSpace \in Nat \ {0}
  /\ None \notin Body /\ Torn \notin Body /\ Corrupt \notin Body
  /\ None # Torn /\ None # Corrupt /\ Torn # Corrupt

VARIABLES
  file,       \* what the state path names now
  survivors,  \* what the state path may name after a power cut
  temps,      \* sequence numbers of the temporary files of this PID that exist
  seq,        \* the static SEQUENCE of the running process image
  job         \* the blocking job: its next system call, its body, its file

fileVars == <<file, survivors, temps, seq, job>>

Content == Body \cup {None, Torn, Corrupt}
SeqNo == 0 .. SeqSpace - 1

\* Between "create" and "dirsync" the job has a file of its own to work on.
Started == {"create", "write", "sync", "rename", "dirsync"}
JobStep == Started \cup {"idle", "queued", "saved", "failed"}
TempData == {"none", "partial", "written", "synced"}

NoJob == [at |-> "idle", body |-> None, temp |-> 0, data |-> "none"]

FileTypeOK ==
  /\ file \in Content
  /\ survivors \subseteq Content
  /\ temps \subseteq SeqNo
  /\ seq \in SeqNo
  /\ job \in [at : JobStep, body : Body \cup {None}, temp : SeqNo, data : TempData]

\* The service starts on a machine at rest: what the path names is on disk.
FileInit ==
  /\ file \in Body \cup {None, Corrupt}
  /\ survivors = {file}
  /\ temps = {}
  /\ seq = 0
  /\ job = NoJob

-----------------------------------------------------------------------------
\* persist: queue the job on the blocking pool.  No two jobs overlap, because
\* the only caller awaits the one it started.
Submit(b) ==
  /\ job.at = "idle"
  /\ job' = [NoJob EXCEPT !.at = "queued", !.body = b]
  /\ UNCHANGED <<file, survivors, temps, seq>>

\* create_dir_all, then the sequence number; its failure returns at once,
\* before there is a temporary file to remove.
BeginJob ==
  /\ job.at = "queued"
  /\ \/ /\ job' = [job EXCEPT !.at = "create", !.temp = seq]
        /\ seq' = (seq + 1) % SeqSpace
     \/ /\ job' = [job EXCEPT !.at = "failed"]
        /\ UNCHANGED seq
  /\ UNCHANGED <<file, survivors, temps>>

\* The error path of the closure: remove_file, whose own error is discarded.
Abandon ==
  /\ job' = [job EXCEPT !.at = "failed"]
  /\ temps' \in {temps, temps \ {job.temp}}
  /\ UNCHANGED <<file, survivors, seq>>

\* create_new: an existing file of that name is an error.
CreateTemp ==
  /\ job.at = "create"
  /\ \/ /\ job.temp \notin temps
        /\ temps' = temps \cup {job.temp}
        /\ job' = [job EXCEPT !.at = "write", !.data = "partial"]
        /\ UNCHANGED <<file, survivors, seq>>
     \/ Abandon

WriteTemp ==
  /\ job.at = "write"
  /\ \/ /\ job' = [job EXCEPT !.at = "sync", !.data = "written"]
        /\ UNCHANGED <<file, survivors, temps, seq>>
     \/ Abandon

SkipSync ==
  /\ job.at = "sync"
  /\ job' = [job EXCEPT !.at = "rename"]
  /\ UNCHANGED <<file, survivors, temps, seq>>

SyncTemp ==
  /\ job.at = "sync"
  /\ \/ /\ job' = [job EXCEPT !.at = "rename", !.data = "synced"]
        /\ UNCHANGED <<file, survivors, temps, seq>>
     \/ Abandon

\* What the renamed file shows now, and what of it a power cut may leave.
Visible == IF job.data \in {"written", "synced"} THEN job.body ELSE Torn
Durable == IF job.data = "synced" THEN {job.body} ELSE {Visible, Torn}

RenameTemp ==
  /\ job.at = "rename"
  /\ \/ /\ file' = Visible
        /\ survivors' = survivors \cup Durable
        /\ temps' = temps \ {job.temp}
        /\ job' = [job EXCEPT !.at = "dirsync"]
        /\ UNCHANGED seq
     \/ Abandon

SkipDirSync ==
  /\ job.at = "dirsync"
  /\ job' = [job EXCEPT !.at = "saved"]
  /\ UNCHANGED <<file, survivors, temps, seq>>

\* A failure here is reported as a failed save although the rename stands.
SyncDir ==
  /\ job.at = "dirsync"
  /\ \/ /\ survivors' = {file}
        /\ job' = [job EXCEPT !.at = "saved"]
        /\ UNCHANGED <<file, temps, seq>>
     \/ Abandon

JobStepTaken ==
  BeginJob \/ CreateTemp \/ WriteTemp \/ SyncTemp \/ RenameTemp \/ SyncDir

\* The awaiting caller takes the result.
Collect ==
  /\ job.at \in {"saved", "failed"}
  /\ job' = NoJob
  /\ UNCHANGED <<file, survivors, temps, seq>>

-----------------------------------------------------------------------------
\* The threads of the process are gone; files are as the last call left them.
\* A job still in the queue is dropped the same way when the runtime stops.
EndProcess ==
  /\ job' = NoJob
  /\ UNCHANGED <<file, survivors, temps, seq>>

\* A new process image: SEQUENCE starts at zero.  It has the PID of the one
\* before it after exec and in a container (PID 1), and another one otherwise,
\* when no file of an earlier process carries its name.
BeginProcess ==
  /\ job' = NoJob
  /\ seq' = 0
  /\ temps' \in {temps, {}}
  /\ UNCHANGED <<file, survivors>>

\* A power cut: any survivor may be the state file, any temporary file may go.
PowerCut ==
  /\ file' \in survivors
  /\ survivors' = {file'}
  /\ temps' \in SUBSET temps
  /\ job' = NoJob
  /\ UNCHANGED seq

FileNext ==
  \/ \E b \in Body : Submit(b)
  \/ JobStepTaken
  \/ Collect
  \/ EndProcess
  \/ BeginProcess
  \/ PowerCut

FileSpec == FileInit /\ [][FileNext]_fileVars

-----------------------------------------------------------------------------
\* Whatever call a crash comes after, the state path names either nothing, the
\* file the machine started with, or the whole of one saved body: never a torn
\* one (temporary file, fsync, atomic rename in persist_blocking).
CrashSafe ==
  /\ file \in survivors
  /\ Torn \notin survivors

\* A job that reports success has made its body the only thing a power cut can
\* leave: no older body can come back (the directory fsync after the rename).
SavedIsDurable == job.at = "saved" => survivors = {job.body}

=============================================================================
