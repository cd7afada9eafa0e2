------------------------------ MODULE Metrics ------------------------------
(***************************************************************************)
(* The request metrics: RequestMetrics with prune, record_request of       *)
(* Shared, which serve calls, and the handler of /metrics, which reads     *)
(* them on another thread.  The total is an atomic, the series have a      *)
(* lock; what happens under the lock is one step.                          *)
(*                                                                         *)
(* Abstractions.  A label tuple is a model value.  Time is a clock that    *)
(* ticks; TTL is METRIC_IDLE_TTL and Interval the 60 seconds of prune.     *)
(* serve reads the clock before it waits for the lock, by at most Delay.   *)
(* The other counters of a scrape are read one by one and never pruned.    *)
(***************************************************************************)
EXTENDS Naturals, FiniteSetsExt

CONSTANTS
  Label,
  Never,        \* no time
  TTL, Interval, Delay,
  MaxTime,      \* a bound on the clock, for TLC
  MaxRequests   \* a bound on the requests, for TLC

ASSUME MetricsAssumption ==
  /\ TTL \in Nat /\ Interval \in Nat /\ Delay \in Nat
  /\ MaxTime \in Nat /\ MaxRequests \in Nat
  /\ Delay < TTL
  /\ Never \notin Nat

VARIABLES
  clock,
  requests,    \* Shared.requests
  series,      \* RequestMetrics.series: the count of a label and when it was seen
  lastPruned,  \* RequestMetrics.last_pruned
  recorder,    \* where record_request stands, its label and the time it read
  dropped,     \* history: the counts of the series that were pruned
  used         \* history: when a request of each label was last entered

vars == <<clock, requests, series, lastPruned, recorder, dropped, used>>

Init ==
  /\ clock = 0 /\ requests = 0 /\ dropped = 0
  /\ series = [l \in {} |-> 0]
  /\ lastPruned = Never
  /\ recorder \in [at : {"idle"}, label : Label, now : {0}]
  /\ used = [l \in Label |-> Never]

Tick ==
  /\ clock < MaxTime
  /\ recorder.at = "timed" => clock < recorder.now + Delay
  /\ clock' = clock + 1
  /\ UNCHANGED <<requests, series, lastPruned, recorder, dropped, used>>

-----------------------------------------------------------------------------
\* duration_since: no time has passed since a later one.
Since(now, t) == IF now < t THEN 0 ELSE now - t

\* prune is due a minute after the last one, and then drops what was idle too long.
DueOnce(now) == lastPruned = Never
Due(now) == lastPruned = Never \/ Since(now, lastPruned) >= Interval

Expired(now) ==
  IF Due(now) THEN {l \in DOMAIN series : Since(now, series[l].seen) >= TTL} ELSE {}
Kept(now) == [l \in DOMAIN series \ Expired(now) |-> series[l]]

\* What the labels of S count together.
Sum(f, S) == MapThenSumSet(LAMBDA l : f[l].count, S)

prune(now) ==
  /\ lastPruned' = IF Due(now) THEN now ELSE lastPruned
  /\ dropped' = dropped + Sum(series, Expired(now))

\* record_request: the counter, the time, and then the entry under the lock.
CountRequest(l) ==
  /\ recorder.at = "idle" /\ requests < MaxRequests
  /\ requests' = requests + 1
  /\ recorder' = [recorder EXCEPT !.at = "counted", !.label = l]
  /\ UNCHANGED <<clock, series, lastPruned, dropped, used>>

ReadClock ==
  /\ recorder.at = "counted"
  /\ recorder' = [recorder EXCEPT !.at = "timed", !.now = clock]
  /\ UNCHANGED <<clock, requests, series, lastPruned, dropped, used>>

\* The entry of the label, counted up; a new one counts from one.
EntryAnew(l, now) == [count |-> 1, seen |-> now]
EntrySeenFirst(l, now) ==
  IF l \in DOMAIN Kept(now) THEN [series[l] EXCEPT !.count = @ + 1]
  ELSE [count |-> 1, seen |-> now]
Entry(l, now) ==
  [count |-> IF l \in DOMAIN Kept(now) THEN series[l].count + 1 ELSE 1, seen |-> now]

EnterSeries ==
  LET l == recorder.label
      now == recorder.now
  IN /\ recorder.at = "timed"
     /\ prune(now)
     /\ series' = [k \in DOMAIN Kept(now) \cup {l} |-> IF k = l THEN Entry(l, now) ELSE series[k]]
     /\ recorder' = [recorder EXCEPT !.at = "idle"]
     /\ used' = [used EXCEPT ![l] = clock]
     /\ UNCHANGED <<clock, requests>>

\* metrics: prunes by its own time and shows a copy of what is left.
Scrape ==
  /\ prune(clock)
  /\ series' = Kept(clock)
  /\ UNCHANGED <<clock, requests, recorder, used>>

Next == Tick \/ (\E l \in Label : CountRequest(l)) \/ ReadClock \/ EnterSeries \/ Scrape

Spec == Init /\ [][Next]_vars

-----------------------------------------------------------------------------
\* Pruning loses no request of the total: it is what the series and the pruned ones
\* count, and the one record_request is about to enter.
Conserved ==
  requests = Sum(series, DOMAIN series) + dropped + (IF recorder.at = "idle" THEN 0 ELSE 1)

\* A client that was active within the TTL has its series, although scrapes prune by
\* a later clock than the one its request was seen with (prune's two callers).
ActiveIsKept ==
  \A l \in Label :
    used[l] # Never /\ clock < used[l] + TTL - Delay => l \in DOMAIN series

\* A scrape shows no client that has been idle for the TTL and the minute between
\* two prunings, whoever pruned last and by which clock.
OnlyRecentShown ==
  \A l \in DOMAIN Kept(clock) : clock < series[l].seen + TTL + Interval
=============================================================================
