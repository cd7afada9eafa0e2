---------------------------- MODULE SyncHistory ----------------------------
(***************************************************************************)
(* ClientSync with two history variables, which only remember, and the     *)
(* properties that relate what the service serves to what happened before. *)
(***************************************************************************)
EXTENDS ClientSync

VARIABLES
  offered,    \* the bodies the source has had since the current poll began
  attempted   \* the bodies given to persist since the last activation

historyVars == <<vars, offered, attempted>>

HistoryInit ==
  /\ Init
  /\ offered = {}
  /\ attempted = {}

Polling == {"wait", "persist", "publish", "record", "reportOk"}

Remember ==
  /\ offered' = IF pc' \in Polling THEN offered \cup {remote'} ELSE {}
  /\ attempted' = IF Publish \/ snapshot' # snapshot THEN {}
                  ELSE attempted \cup (IF NewBody THEN {net.body} ELSE {})

HistorySpec == HistoryInit /\ [][Next /\ Remember]_historyVars

HistoryFairSpec == HistorySpec /\ Fairness

-----------------------------------------------------------------------------
\* A poll is reported as successful only if what is served then is something
\* the source had during that very poll, also when the answer was a 304, when
\* an earlier save failed, and when the source changed while it answered.
ReportedIsFresh == pc = "reportOk" => snapshot \in offered

\* Data that came from the source is not lost to an older version: whatever a
\* power cut leaves is the active version or one that a later poll tried to
\* save, also when saves failed at any call since.
NoRollback ==
  status.source = "remote" /\ pc # "record" => survivors \subseteq {snapshot} \cup attempted
=============================================================================
