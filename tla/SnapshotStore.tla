--------------------------- MODULE SnapshotStore ---------------------------
(***************************************************************************)
(* What the service promises about its client data, without saying how it  *)
(* is fetched or saved: there is one active version and one saved version, *)
(* a version becomes active only when nothing but that version can come    *)
(* back after a crash, and a crash loses the active version only.          *)
(***************************************************************************)
CONSTANTS
  Version,   \* the versions of the data that can be served
  Unusable,  \* what else the saved state may be
  Nothing    \* no version is active

VARIABLES
  active,      \* what clients are served from
  saved,       \* what is saved
  recoverable  \* what may be saved after a power cut

storeVars == <<active, saved, recoverable>>

StoreInit ==
  /\ active = Nothing
  /\ saved \in Version \cup Unusable
  /\ recoverable = {saved}

\* A new version is put in place of the saved one ...
Save(v) ==
  /\ saved' = v
  /\ recoverable' = recoverable \cup {v}
  /\ UNCHANGED active

\* ... and becomes the only one that can come back.
Commit ==
  /\ recoverable' = {saved}
  /\ UNCHANGED <<active, saved>>

\* Only then is it served.
Switch ==
  /\ saved \in Version
  /\ recoverable = {saved}
  /\ active' = saved
  /\ UNCHANGED <<saved, recoverable>>

Load ==
  /\ active = Nothing
  /\ saved \in Version
  /\ active' = saved
  /\ UNCHANGED <<saved, recoverable>>

Crash ==
  /\ active' = Nothing
  /\ UNCHANGED <<saved, recoverable>>

PowerLoss ==
  /\ active' = Nothing
  /\ saved' \in recoverable
  /\ recoverable' = {saved'}

StoreNext ==
  \/ \E v \in Version : Save(v)
  \/ Commit \/ Switch \/ Load \/ Crash \/ PowerLoss

StoreSpec == StoreInit /\ [][StoreNext]_storeVars
=============================================================================
