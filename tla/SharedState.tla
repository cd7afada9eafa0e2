---------------------------- MODULE SharedState ----------------------------
(***************************************************************************)
(* What the rest of the process can rely on of the two parts of Shared     *)
(* that run_sync alone writes: the snapshot and the status.  They have     *)
(* locks of their own and are written one after the other, so between the  *)
(* two a reader finds them apart.  ClientSync implements this module, and  *)
(* Service is built on it.                                                 *)
(***************************************************************************)
CONSTANTS
  Version,  \* the snapshots that can be served
  Nothing   \* no snapshot, or no source

VARIABLES
  snapshot,
  status,
  writing   \* what run_sync is about: the load, a write that is still due, ...

sharedVars == <<snapshot, status, writing>>

FreshStatus == [source |-> Nothing, success |-> FALSE, error |-> FALSE]

SharedTypeOK ==
  /\ snapshot \in Version \cup {Nothing}
  /\ status \in [source : {Nothing, "state", "remote"}, success : BOOLEAN, error : BOOLEAN]
  /\ writing \in {"load", "loaded", "poll", "activated", "gone"}

SharedInit ==
  /\ snapshot = Nothing
  /\ status = FreshStatus
  /\ writing = "load"

\* The saved CSV becomes the snapshot, and then the status says so ...
LoadSaved ==
  /\ writing = "load"
  /\ snapshot' \in Version
  /\ writing' = "loaded"
  /\ UNCHANGED status

NoteNothing ==
  /\ writing = "loaded"
  /\ writing' = "poll"
  /\ UNCHANGED <<snapshot, status>>

NoteLoaded ==
  /\ writing = "loaded"
  /\ writing' = "poll"
  /\ status' = [status EXCEPT !.source = "state"]
  /\ UNCHANGED snapshot

\* ... or there is none, or none that can be used.
LoadNothing ==
  /\ writing = "load"
  /\ writing' = "poll"
  /\ status' \in {status, [status EXCEPT !.error = TRUE]}
  /\ UNCHANGED snapshot

\* The same for what a poll got.
Activate ==
  /\ writing = "poll"
  /\ snapshot' \in Version
  /\ writing' = "activated"
  /\ UNCHANGED status

NoteRemote ==
  /\ writing = "activated"
  /\ writing' = "poll"
  /\ status' = [status EXCEPT !.source = "remote"]
  /\ UNCHANGED snapshot

\* A poll succeeds only when there is remote data to succeed with.
Succeed ==
  /\ writing = "poll"
  /\ status.source = "remote"
  /\ status' = [status EXCEPT !.success = TRUE, !.error = FALSE]
  /\ UNCHANGED <<snapshot, writing>>

Fail ==
  /\ writing = "poll"
  /\ status' = [status EXCEPT !.error = TRUE]
  /\ UNCHANGED <<snapshot, writing>>

\* run_sync is dropped at an await, or has no HTTP client and returns.
SyncEnds ==
  /\ writing \in {"load", "poll"}
  /\ writing' = "gone"
  /\ status' \in {status, [status EXCEPT !.error = TRUE]}
  /\ UNCHANGED snapshot

SyncNext ==
  \/ LoadSaved \/ NoteLoaded \/ LoadNothing \/ Activate \/ NoteRemote
  \/ Succeed \/ Fail \/ SyncEnds

\* The image is gone, and Shared with it; another may start from nothing.
ImageEnds ==
  /\ snapshot' = Nothing
  /\ status' = FreshStatus
  /\ writing' \in {"load", "gone"}

SharedSpec == SharedInit /\ [][SyncNext \/ ImageEnds]_sharedVars
=============================================================================
