-------------------------- MODULE LifecycleProofs --------------------------
(***************************************************************************)
(* Proofs about Lifecycle, for any contents of the configuration file.     *)
(***************************************************************************)
EXTENDS Lifecycle, TLAPS

\* What the old image has checked is still there unless somebody edited it.
CheckedFileStays ==
  /\ phase = "reload" /\ ~edited => file \in Valid
  /\ phase = "load" /\ born = "exec" /\ ~edited => file \in Valid

LifecycleInv == LifecycleTypeOK /\ CheckedFileStays /\ ReloadNeedsValidFile

LEMMA LifecycleInvInit == Init => LifecycleInv
  BY DEF Init, LifecycleInv, LifecycleTypeOK, CheckedFileStays, ReloadNeedsValidFile, Phase

-----------------------------------------------------------------------------
LEMMA LifecycleTypeStep == LifecycleTypeOK /\ [Next]_vars => LifecycleTypeOK'
  <1> SUFFICES ASSUME LifecycleTypeOK, [Next]_vars PROVE LifecycleTypeOK'
    OBVIOUS
  <1> USE DEF LifecycleTypeOK, Phase
  <1>1. CASE Main
    BY <1>1 DEF Main, LoadConfig, InstallHandlers, TakeTerm, TakeHup, Check, Exec, Return,
         Ends, NewImage
  <1>2. CASE Fails \/ Supervise \/ Operate
    BY <1>2 DEF Fails, Supervise, Operate, Ends, NewImage
  <1>3. CASE Edit
    BY <1>3 DEF Edit
  <1>4. ASSUME NEW signal \in Signal, Send(signal) PROVE LifecycleTypeOK'
    BY <1>4 DEF Send, Ends
  <1>5. CASE UNCHANGED vars
    BY <1>5 DEF vars
  <1> QED  BY <1>1, <1>2, <1>3, <1>4, <1>5 DEF Next

LEMMA CheckedFileStep ==
  CheckedFileStays /\ ReloadNeedsValidFile /\ [Next]_vars
    => CheckedFileStays' /\ ReloadNeedsValidFile'
  <1> SUFFICES ASSUME CheckedFileStays, ReloadNeedsValidFile, [Next]_vars
               PROVE  CheckedFileStays' /\ ReloadNeedsValidFile'
    OBVIOUS
  <1> USE DEF CheckedFileStays, ReloadNeedsValidFile
  <1>1. CASE LoadConfig
    BY <1>1 DEF LoadConfig, Ends
  <1>2. CASE InstallHandlers \/ TakeTerm \/ TakeHup \/ Return \/ Fails
    BY <1>2 DEF InstallHandlers, TakeTerm, TakeHup, Return, Fails, Ends
  <1>3. CASE Check
    BY <1>3 DEF Check
  <1>4. CASE Exec
    BY <1>4 DEF Exec, NewImage
  <1>5. CASE Supervise \/ Operate
    BY <1>5 DEF Supervise, Operate, NewImage
  <1>6. CASE Edit
    BY <1>6 DEF Edit
  <1>7. ASSUME NEW signal \in Signal, Send(signal)
        PROVE  CheckedFileStays' /\ ReloadNeedsValidFile'
    BY <1>7 DEF Send, Ends, Hears
  <1>8. CASE UNCHANGED vars
    BY <1>8 DEF vars
  <1> QED  BY <1>1, <1>2, <1>3, <1>4, <1>5, <1>6, <1>7, <1>8 DEF Next, Main

THEOREM LifecycleInvariant == Spec => []LifecycleInv
  <1>1. LifecycleInv /\ [Next]_vars => LifecycleInv'
    BY LifecycleTypeStep, CheckedFileStep DEF LifecycleInv
  <1> QED  BY <1>1, LifecycleInvInit, PTL DEF Spec

\* An image that is past Config::load runs with a configuration that it accepts: no edit,
\* signal, failure or reload gives it another, or leaves it with none.
THEOREM LifecycleTypeCorrect == Spec => []LifecycleTypeOK
  <1>1. LifecycleInv => LifecycleTypeOK
    BY DEF LifecycleInv
  <1> QED  BY <1>1, LifecycleInvariant, PTL

\* A reload ends the service for its configuration only after an edit between the
\* check of shutdown_or_reload and the load of the new main.
THEOREM OnlyEditsBreakReload == Spec => []ReloadNeedsValidFile
  <1>1. LifecycleInv => ReloadNeedsValidFile
    BY DEF LifecycleInv
  <1> QED  BY <1>1, LifecycleInvariant, PTL
=============================================================================
