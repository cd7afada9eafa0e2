----------------------------- MODULE Lifecycle -----------------------------
(***************************************************************************)
(* The process from its start to its end: main, shutdown_or_reload and     *)
(* reload_process of main.rs with Config::load, the signals sent to it,    *)
(* the configuration file that somebody edits, and the supervisor that     *)
(* starts it again after a failure (Restart=on-failure of the units).      *)
(*                                                                         *)
(* Abstractions.  A configuration is one of a small set, of which Valid    *)
(* are those Config::load accepts.  What the other branches of select! do  *)
(* is left to ClientSync and Service: here they run or fail.               *)
(***************************************************************************)
CONSTANTS
  Text,      \* contents of the configuration file
  Valid,     \* those Config::load accepts
  NoConfig   \* no image has loaded one

ASSUME LifecycleAssumption ==
  /\ Valid \subseteq Text
  /\ NoConfig \notin Text

VARIABLES
  file,     \* what the configuration file holds
  phase,    \* how far the process is
  config,   \* the configuration of the running image
  pending,  \* signals its handlers have taken and main has not
  born,     \* whether the image was started, or is a reload by exec
  death,    \* why the last process ended
  edited,   \* history: the file changed since a reload last validated it
  asked     \* history: a SIGHUP was heard since the file changed

vars == <<file, phase, config, pending, born, death, edited, asked>>

\* Loading the file; up to the handlers; select!; a SIGHUP checks the file; between
\* select! and exec; main has returned; no process.
Phase == {"load", "setup", "up", "check", "reload", "return", "down"}

\* Handlers stay in place when shutdown_or_reload has returned.
Hears == {"up", "check", "reload", "return"}
Signal == {"hup", "term", "int"}

\* Among the types: an image that is past Config::load runs with a configuration it
\* accepts, through every edit of the file and every reload, and no other has one.
LifecycleTypeOK ==
  /\ file \in Text
  /\ phase \in Phase
  /\ config \in IF phase \in {"load", "down"} THEN {NoConfig} ELSE Valid
  /\ pending \subseteq Signal
  /\ born \in {"start", "exec"}
  /\ death \in {"none", "config", "failure", "signal", "asked"}
  /\ edited \in BOOLEAN
  /\ asked \in BOOLEAN

NewImage(how) ==
  /\ phase' = "load"
  /\ config' = NoConfig
  /\ pending' = {}
  /\ born' = how

Init ==
  /\ file \in Text
  /\ phase = "load"
  /\ config = NoConfig
  /\ pending = {}
  /\ born = "start"
  /\ death = "none"
  /\ edited = FALSE
  /\ asked = FALSE

Ends(why) ==
  /\ phase' = "down"
  /\ config' = NoConfig
  /\ pending' = {}
  /\ death' = why
  /\ UNCHANGED <<file, born, edited, asked>>

-----------------------------------------------------------------------------
\* Around the process.
Edit ==
  /\ file' \in Text \ {file}
  /\ edited' = TRUE
  /\ asked' = FALSE
  /\ UNCHANGED <<phase, config, pending, born, death>>

\* A signal is kept for main once its handler is there, but a SIGINT only while
\* the ctrl_c of this round of the loop listens.  Before that the default disposition
\* ends the process; PID 1 of a container ignores it, which is no step.
Send(signal) ==
  \/ /\ phase \in Hears
     /\ \/ pending' = pending \cup {signal}
        \/ signal = "int" /\ phase # "up" /\ UNCHANGED pending
     /\ asked' = (asked \/ signal = "hup")
     /\ UNCHANGED <<file, phase, config, born, death, edited>>
  \/ /\ phase \in {"load", "setup"}
     /\ Ends("signal")

\* systemd and Podman start what failed again, but not what a signal or main's
\* own return ended.
Supervise ==
  /\ phase = "down" /\ death \in {"config", "failure"}
  /\ NewImage("start")
  /\ UNCHANGED <<file, death, edited, asked>>

Operate ==
  /\ phase = "down"
  /\ NewImage("start")
  /\ UNCHANGED <<file, death, edited, asked>>

-----------------------------------------------------------------------------
LoadUnchecked ==
  /\ phase = "load"
  /\ phase' = "setup"
  /\ config' = file
  /\ UNCHANGED <<file, pending, born, death, edited, asked>>

\* main: the arguments give the path, Config::load reads and checks the file.
LoadConfig ==
  /\ phase = "load"
  /\ \/ /\ file \in Valid
        /\ phase' = "setup"
        /\ config' = file
        /\ UNCHANGED <<file, pending, born, death, edited, asked>>
     \/ file \notin Valid /\ Ends("config")

\* Logging, Shared, and the first poll of select!, which installs the handlers.
InstallHandlers ==
  /\ phase = "setup"
  /\ phase' = "up"
  /\ UNCHANGED <<file, config, pending, born, death, edited, asked>>

\* DHCP or HTTP cannot bind, or stops; run_sync returns; exec fails.
Fails ==
  /\ phase \in {"setup", "up", "reload"}
  /\ Ends("failure")

\* shutdown_or_reload takes the signals in any order.
TakeTerm ==
  /\ phase = "up"
  /\ pending \cap {"term", "int"} # {}
  /\ phase' = "return"
  /\ pending' = pending \ {"term", "int"}
  /\ UNCHANGED <<file, config, born, death, edited, asked>>

TakeHupListensAnew ==
  /\ phase = "up"
  /\ "hup" \in pending
  /\ phase' = "check"
  /\ pending' = {}
  /\ UNCHANGED <<file, config, born, death, edited, asked>>

\* The ctrl_c of the round is dropped with what it heard; the streams of the other
\* two signals stay.
TakeHup ==
  /\ phase = "up"
  /\ "hup" \in pending
  /\ phase' = "check"
  /\ pending' = pending \ {"hup", "int"}
  /\ UNCHANGED <<file, config, born, death, edited, asked>>

AcceptAny ==
  /\ phase = "check"
  /\ phase' = "reload"
  /\ edited' = FALSE
  /\ UNCHANGED <<file, config, pending, born, death, asked>>

ReloadOnce ==
  /\ phase = "check"
  /\ phase' = IF file \in Valid /\ born = "start" THEN "reload" ELSE "up"
  /\ edited' = (edited /\ phase' = "up")
  /\ UNCHANGED <<file, config, pending, born, death, asked>>

\* The file is valid: reload.  It is not: the SIGHUP is rejected.
Check ==
  /\ phase = "check"
  /\ phase' = IF file \in Valid THEN "reload" ELSE "up"
  /\ edited' = (edited /\ file \notin Valid)
  /\ UNCHANGED <<file, config, pending, born, death, asked>>

\* reload_process: the image is replaced, the PID stays.  The dispositions are the
\* default ones again, and what the old image had pending is lost.
Exec ==
  /\ phase = "reload"
  /\ NewImage("exec")
  /\ UNCHANGED <<file, death, edited, asked>>

Return ==
  /\ phase = "return"
  /\ Ends("asked")

Main ==
  \/ LoadConfig \/ InstallHandlers \/ TakeTerm \/ TakeHup \/ Check \/ Exec \/ Return

Next ==
  \/ Main \/ Fails \/ Supervise \/ Operate \/ Edit
  \/ \E signal \in Signal : Send(signal)

Spec == Init /\ [][Next]_vars

\* The process runs, the supervisor does its work, and select!, which begins with a
\* random branch, does not pass a SIGTERM over for ever.  Nobody has to edit the file
\* or send a signal, and nothing has to fail.
Fairness == WF_vars(Main) /\ WF_vars(Supervise) /\ SF_vars(TakeTerm)

FairSpec == Spec /\ Fairness

-----------------------------------------------------------------------------
\* A reload ends in a process without a configuration only if somebody edited the
\* file between the check in the old image and the load in the new one
\* (shutdown_or_reload validates, main loads again).
ReloadNeedsValidFile == phase = "down" /\ death = "config" /\ born = "exec" => edited

\* A SIGHUP that was heard applies the file: once edits, signals and failures stop,
\* an image that runs, runs what the file holds, also when the SIGHUP came while
\* an earlier one was being carried out, or several were taken as one.
Quiet ==
  /\ file' = file
  /\ ~Fails
  /\ ~\E signal \in Signal : Send(signal)
ReloadApplies ==
  <>[][Quiet]_vars =>
    <>[](phase = "up" /\ asked /\ file \in Valid => config = file)

\* The loop of shutdown_or_reload does not lose a SIGTERM that is pending: it is taken,
\* unless a reload or a failure ends the image first, however many reloads are rejected
\* in between (the streams of SIGTERM and SIGHUP outlive the rounds of the loop).
SignalsAreTaken == phase = "up" /\ "term" \in pending ~> phase \notin {"up", "check"}

\* What README.md:35-38 says of SIGHUP: it replaces the process in place, or the
\* running process is retained, so that an invalid file does not end the service.
InvalidFileIsRejected == ~(phase = "down" /\ death = "config" /\ born = "exec")
=============================================================================
