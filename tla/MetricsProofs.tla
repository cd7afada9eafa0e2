--------------------------- MODULE MetricsProofs ---------------------------
(***************************************************************************)
(* Proofs about Metrics, for any labels, any numbers of requests and any   *)
(* lengths of the times, as long as serve is delayed by less than the TTL. *)
(***************************************************************************)
EXTENDS Metrics, FiniteSetTheorems, WellFoundedInduction, TLAPS

\* Every time that is kept has been.
Time == 0 .. clock

Times ==
  /\ clock \in Nat
  /\ lastPruned \in Time \cup {Never}
  /\ recorder \in [at : {"idle", "counted", "timed"}, label : Label, now : Time]
  /\ used \in [Label -> Time \cup {Never}]
  /\ DOMAIN series \subseteq Label
  /\ \A l \in DOMAIN series : series[l].seen \in Time

\* The time a request is seen with is at most Delay behind.
LittleDelay ==
  /\ recorder.at = "timed" => clock <= recorder.now + Delay
  /\ \A l \in DOMAIN series : used[l] # Never => used[l] <= series[l].seen + Delay

\* No pruning was later than what it left, or than what came after it, by the TTL.
NoneOverdue ==
  \A l \in DOMAIN series : lastPruned # Never => lastPruned < series[l].seen + TTL

MetricsInv == Times /\ LittleDelay /\ NoneOverdue /\ ActiveIsKept

-----------------------------------------------------------------------------
LEMMA SinceIs ==
  ASSUME NEW now \in Nat, NEW t \in Nat
  PROVE  /\ Since(now, t) \in Nat
         /\ \A n \in Nat : Since(now, t) >= n /\ n > 0 => t + n <= now
         /\ \A n \in Nat : ~(Since(now, t) >= n) => now < t + n
  BY DEF Since

\* What prune leaves and drops at a time that is not later than the clock.
LEMMA PruneKeeps ==
  ASSUME Times, NEW now \in Time
  PROVE  /\ DOMAIN Kept(now) = DOMAIN series \ Expired(now)
         /\ \A l \in DOMAIN Kept(now) : Kept(now)[l] = series[l]
         /\ \A l \in Expired(now) : l \in DOMAIN series /\ series[l].seen + TTL <= clock
         /\ Due(now) => \A l \in DOMAIN Kept(now) : now < series[l].seen + TTL
  <1>1. now \in Nat /\ now <= clock /\ clock \in Nat /\ TTL \in Nat /\ TTL > 0
    BY MetricsAssumption DEF Times, Time
  <1>2. \A l \in DOMAIN series : series[l].seen \in Nat
    BY DEF Times, Time
  <1>3. DOMAIN Kept(now) = DOMAIN series \ Expired(now)
    BY DEF Kept
  <1>4. \A l \in DOMAIN Kept(now) : Kept(now)[l] = series[l]
    BY DEF Kept
  <1>5. ASSUME NEW l \in Expired(now)
        PROVE  l \in DOMAIN series /\ series[l].seen + TTL <= clock
    <2>1. l \in DOMAIN series /\ Since(now, series[l].seen) >= TTL
      BY <1>5 DEF Expired
    <2>2. series[l].seen + TTL <= now
      BY <1>1, <1>2, <2>1, SinceIs
    <2> QED  BY <1>1, <1>2, <2>1, <2>2
  <1>6. ASSUME Due(now), NEW l \in DOMAIN Kept(now)
        PROVE  now < series[l].seen + TTL
    <2>1. l \in DOMAIN series /\ ~(Since(now, series[l].seen) >= TTL)
      BY <1>3, <1>6 DEF Expired
    <2> QED  BY <1>1, <1>2, <2>1, SinceIs
  <1> QED  BY <1>3, <1>4, <1>5, <1>6

LEMMA MetricsInvInit == Init => MetricsInv
  <1> SUFFICES ASSUME Init PROVE MetricsInv
    OBVIOUS
  <1> USE MetricsAssumption DEF Init
  <1>1. Times
    BY DEF Times, Time
  <1>2. LittleDelay /\ NoneOverdue /\ ActiveIsKept
    BY DEF LittleDelay, NoneOverdue, ActiveIsKept
  <1> QED  BY <1>1, <1>2 DEF MetricsInv

LEMMA TickInv == ASSUME MetricsInv, Tick PROVE MetricsInv'
  <1>1. /\ clock \in Nat /\ clock' = clock + 1
        /\ UNCHANGED <<series, lastPruned, recorder, used>>
    BY DEF Tick, MetricsInv, Times
  <1>2. recorder.at = "timed" => clock < recorder.now + Delay
    BY DEF Tick
  <1>3. Time \subseteq Time'
    BY <1>1 DEF Time
  <1>4. Times'
    BY <1>1, <1>3 DEF MetricsInv, Times
  <1>5. LittleDelay'
    <2>1. recorder.now \in Nat /\ Delay \in Nat
      BY MetricsAssumption DEF MetricsInv, Times, Time
    <2> QED  BY <1>1, <1>2, <2>1 DEF MetricsInv, LittleDelay
  <1>6. NoneOverdue'
    BY <1>1 DEF MetricsInv, NoneOverdue
  <1>7. ActiveIsKept'
    <2>1. \A l \in Label : used[l] # Never => used[l] \in Nat
      BY DEF MetricsInv, Times, Time
    <2> QED  BY <1>1, <2>1, MetricsAssumption DEF MetricsInv, ActiveIsKept
  <1> QED  BY <1>4, <1>5, <1>6, <1>7 DEF MetricsInv

\* After prune, without the entry that may follow it.
LEMMA PruneInv ==
  ASSUME MetricsInv, NEW now \in Time, prune(now)
  PROVE  /\ lastPruned' \in Time \cup {Never}
         /\ \A l \in DOMAIN Kept(now) :
              lastPruned' # Never => lastPruned' < series[l].seen + TTL
         /\ \A l \in Label :
              used[l] # Never /\ clock < used[l] + TTL - Delay => l \in DOMAIN Kept(now)
  <1>1. /\ DOMAIN Kept(now) = DOMAIN series \ Expired(now)
        /\ \A l \in Expired(now) : l \in DOMAIN series /\ series[l].seen + TTL <= clock
        /\ Due(now) => \A l \in DOMAIN Kept(now) : now < series[l].seen + TTL
    BY PruneKeeps DEF MetricsInv
  <1>2. lastPruned' = IF Due(now) THEN now ELSE lastPruned
    BY DEF prune
  <1>3. lastPruned' \in Time \cup {Never}
    BY <1>2 DEF MetricsInv, Times
  <1>4. \A l \in DOMAIN Kept(now) :
          lastPruned' # Never => lastPruned' < series[l].seen + TTL
    BY <1>1, <1>2 DEF MetricsInv, NoneOverdue
  <1>5. ASSUME NEW l \in Label, used[l] # Never, clock < used[l] + TTL - Delay
        PROVE  l \in DOMAIN Kept(now)
    <2>1. l \in DOMAIN series
      BY <1>5 DEF MetricsInv, ActiveIsKept
    <2>2. used[l] <= series[l].seen + Delay
      BY <1>5, <2>1 DEF MetricsInv, LittleDelay
    <2>3. used[l] \in Nat /\ series[l].seen \in Nat /\ clock \in Nat /\ TTL \in Nat /\ Delay \in Nat
      BY <1>5, <2>1, MetricsAssumption DEF MetricsInv, Times, Time
    <2>4. ~(series[l].seen + TTL <= clock)
      BY <1>5, <2>2, <2>3
    <2> QED  BY <1>1, <2>1, <2>4
  <1> QED  BY <1>3, <1>4, <1>5

LEMMA ScrapeInv == ASSUME MetricsInv, Scrape PROVE MetricsInv'
  <1>1. clock \in Time
    BY DEF MetricsInv, Times, Time
  <1>2. /\ series' = Kept(clock) /\ prune(clock)
        /\ UNCHANGED <<clock, recorder, used>>
    BY DEF Scrape
  <1>3. /\ DOMAIN series' \subseteq DOMAIN series
        /\ \A l \in DOMAIN series' : series'[l] = series[l]
    BY <1>1, <1>2, PruneKeeps DEF MetricsInv
  <1>4. /\ lastPruned' \in Time \cup {Never}
        /\ \A l \in DOMAIN series' : lastPruned' # Never => lastPruned' < series[l].seen + TTL
        /\ \A l \in Label :
             used[l] # Never /\ clock < used[l] + TTL - Delay => l \in DOMAIN series'
    BY <1>1, <1>2, PruneInv
  <1>5. Times'
    BY <1>2, <1>3, <1>4 DEF MetricsInv, Times, Time
  <1>6. LittleDelay' /\ NoneOverdue' /\ ActiveIsKept'
    BY <1>2, <1>3, <1>4 DEF MetricsInv, LittleDelay, NoneOverdue, ActiveIsKept
  <1> QED  BY <1>5, <1>6 DEF MetricsInv

LEMMA EnterInv == ASSUME MetricsInv, EnterSeries PROVE MetricsInv'
  <1> DEFINE l == recorder.label
             now == recorder.now
  <1>1. now \in Time /\ l \in Label /\ clock \in Nat
    BY DEF MetricsInv, Times
  <1>2. /\ prune(now)
        /\ series' = [k \in DOMAIN Kept(now) \cup {l} |->
                        IF k = l THEN Entry(l, now) ELSE series[k]]
        /\ recorder' = [recorder EXCEPT !.at = "idle"]
        /\ used' = [used EXCEPT ![l] = clock]
        /\ clock' = clock
        /\ recorder.at = "timed"
    BY DEF EnterSeries
  <1>3. clock <= now + Delay /\ now <= clock /\ now \in Nat /\ Delay \in Nat /\ TTL \in Nat
        /\ Delay < TTL
    BY <1>1, <1>2, MetricsAssumption DEF MetricsInv, LittleDelay, Time
  <1>4. DOMAIN Kept(now) \subseteq DOMAIN series /\ DOMAIN series \subseteq Label
    BY <1>1, PruneKeeps DEF MetricsInv, Times
  <1>5. Entry(l, now).seen = now
    BY DEF Entry
  <1>6. /\ DOMAIN series' = DOMAIN Kept(now) \cup {l}
        /\ series'[l].seen = now
        /\ \A k \in DOMAIN Kept(now) \ {l} : series'[k] = series[k]
    BY <1>2, <1>5
  <1>7. /\ lastPruned' \in Time \cup {Never}
        /\ \A k \in DOMAIN Kept(now) :
              lastPruned' # Never => lastPruned' < series[k].seen + TTL
        /\ \A k \in Label :
              used[k] # Never /\ clock < used[k] + TTL - Delay => k \in DOMAIN Kept(now)
    BY <1>1, <1>2, PruneInv
  <1>8. used'[l] = clock /\ \A k \in Label \ {l} : used'[k] = used[k]
    BY <1>1, <1>2 DEF MetricsInv, Times
  <1>9. recorder'.at = "idle" /\ recorder'.now = now /\ recorder'.label = l
    <2>1. recorder' = [recorder EXCEPT !.at = "idle"]
      BY <1>2
    <2>2. recorder \in [at : {"idle", "counted", "timed"}, label : Label, now : Time]
      BY DEF MetricsInv, Times
    <2> QED  BY <2>1, <2>2
  <1> HIDE DEF l, now
  <1>10. Times'
    <2>1. used' \in [Label -> Time \cup {Never}]
      BY <1>1, <1>2 DEF MetricsInv, Times, Time
    <2>2. \A k \in DOMAIN series' : series'[k].seen \in Time
      BY <1>1, <1>4, <1>6 DEF MetricsInv, Times
    <2> QED  BY <1>1, <1>2, <1>4, <1>6, <1>7, <1>9, <2>1, <2>2 DEF MetricsInv, Times, Time
  <1>11. LittleDelay'
    <2>1. ASSUME NEW k \in DOMAIN series', used'[k] # Never
          PROVE  used'[k] <= series'[k].seen + Delay
      <3>1. CASE k = l
        BY <1>3, <1>6, <1>8, <3>1
      <3>2. CASE k # l
        BY <1>4, <1>6, <1>8, <2>1, <3>2 DEF MetricsInv, LittleDelay
      <3> QED  BY <3>1, <3>2
    <2> QED  BY <1>9, <2>1, <1>2 DEF LittleDelay
  <1>12. NoneOverdue'
    <2>1. ASSUME NEW k \in DOMAIN series', lastPruned' # Never
          PROVE  lastPruned' < series'[k].seen + TTL
      <3>1. CASE k = l
        <4>1. lastPruned' \in Nat /\ lastPruned' <= clock
          BY <1>1, <1>7, <2>1 DEF Time
        <4> QED  BY <1>1, <1>3, <1>6, <3>1, <4>1
      <3>2. CASE k # l
        BY <1>6, <1>7, <2>1, <3>2
      <3> QED  BY <3>1, <3>2
    <2> QED  BY <2>1 DEF NoneOverdue
  <1>13. ActiveIsKept'
    BY <1>2, <1>6, <1>7, <1>8 DEF ActiveIsKept
  <1> QED  BY <1>10, <1>11, <1>12, <1>13 DEF MetricsInv

LEMMA MetricsInvStep == MetricsInv /\ [Next]_vars => MetricsInv'
  <1> SUFFICES ASSUME MetricsInv, [Next]_vars PROVE MetricsInv'
    OBVIOUS
  <1>1. ASSUME NEW l \in Label, CountRequest(l) PROVE MetricsInv'
    <2>1. recorder' = [recorder EXCEPT !.at = "counted", !.label = l]
          /\ UNCHANGED <<clock, series, lastPruned, used>>
      BY <1>1 DEF CountRequest
    <2> QED  BY <2>1 DEF MetricsInv, Times, Time, LittleDelay, NoneOverdue, ActiveIsKept
  <1>2. CASE ReadClock
    <2>1. recorder' = [recorder EXCEPT !.at = "timed", !.now = clock]
          /\ UNCHANGED <<clock, series, lastPruned, used>>
      BY <1>2 DEF ReadClock
    <2>2. Times'
      <3>1. recorder \in [at : {"idle", "counted", "timed"}, label : Label, now : Time]
            /\ clock \in Time
        BY DEF MetricsInv, Times, Time
      <3>2. recorder' \in [at : {"idle", "counted", "timed"}, label : Label, now : Time]
        <4> HIDE DEF Time
        <4> QED  BY <2>1, <3>1
      <3> QED  BY <2>1, <3>2 DEF MetricsInv, Times, Time
    <2>3. clock <= recorder'.now + Delay
      <3>1. recorder'.now = clock
        BY <2>1 DEF MetricsInv, Times
      <3> QED  BY <3>1, MetricsAssumption DEF MetricsInv, Times
    <2>4. LittleDelay' /\ NoneOverdue' /\ ActiveIsKept'
      BY <2>1, <2>3 DEF MetricsInv, LittleDelay, NoneOverdue, ActiveIsKept
    <2> QED  BY <2>2, <2>4 DEF MetricsInv
  <1>3. CASE UNCHANGED vars
    BY <1>3 DEF vars, MetricsInv, Times, Time, LittleDelay, NoneOverdue, ActiveIsKept
  <1> QED  BY <1>1, <1>2, <1>3, TickInv, EnterInv, ScrapeInv DEF Next

THEOREM MetricsInvariant == Spec => []MetricsInv
  BY MetricsInvInit, MetricsInvStep, PTL DEF Spec

\* No scrape loses a client that was active within the TTL, less the delay with which
\* serve enters it (record_request and metrics both prune, each by its own time).
THEOREM ActiveClientsShown == Spec => []ActiveIsKept
  <1>1. MetricsInv => ActiveIsKept
    BY DEF MetricsInv
  <1> QED  BY <1>1, MetricsInvariant, PTL

\* No scrape shows a client that has been idle for the TTL and the minute (prune, also
\* when it was not yet due).
THEOREM IdleClientsGo == Spec => []OnlyRecentShown
  <1>1. MetricsInv => OnlyRecentShown
    <2> SUFFICES ASSUME MetricsInv, NEW l \in DOMAIN Kept(clock)
                 PROVE  clock < series[l].seen + TTL + Interval
      BY DEF OnlyRecentShown
    <2>1. clock \in Time /\ clock \in Nat /\ TTL \in Nat /\ Interval \in Nat
      BY MetricsAssumption DEF MetricsInv, Times, Time
    <2>2. l \in DOMAIN series /\ series[l].seen \in Nat
      <3>1. DOMAIN Kept(clock) \subseteq DOMAIN series
        BY <2>1, PruneKeeps DEF MetricsInv
      <3>2. \A k \in DOMAIN series : series[k].seen \in Nat
        BY DEF MetricsInv, Times, Time
      <3> QED  BY <3>1, <3>2
    <2>3. CASE Due(clock)
      <3>1. clock < series[l].seen + TTL
        BY <2>1, <2>3, PruneKeeps DEF MetricsInv
      <3> QED  BY <2>1, <2>2, <3>1
    <2>4. CASE ~Due(clock)
      <3>1. lastPruned \in Nat /\ ~(Since(clock, lastPruned) >= Interval)
        BY <2>4 DEF Due, MetricsInv, Times, Time
      <3>2. clock < lastPruned + Interval
        BY <2>1, <3>1, SinceIs
      <3>3. lastPruned < series[l].seen + TTL
        BY <2>2, <2>4 DEF Due, MetricsInv, NoneOverdue
      <3> QED  BY <2>1, <2>2, <3>1, <3>2, <3>3
    <2> QED  BY <2>3, <2>4
  <1> QED  BY <1>1, MetricsInvariant, PTL
-----------------------------------------------------------------------------
(***************************************************************************)
(* The sum of counts over a finite set, MapThenSumSet, which adds them up  *)
(* in some order.  What holds of it is shown for a least set for which it  *)
(* would not hold.                                                         *)
(***************************************************************************)
\* The element a fold takes first, and what it makes of the rest.
Some(s) == CHOOSE x \in s : TRUE
SumStep(f, F, s) == IF s = {} THEN 0 ELSE f[Some(s)].count + F[s \ {Some(s)}]
IsSum(f, F, S) == F = [s \in SUBSET S |-> SumStep(f, F, s)]

\* The definition of the fold, without operators as arguments.
LEMMA SumIs ==
  ASSUME NEW f, NEW S
  PROVE  Sum(f, S) = (CHOOSE F : IsSum(f, F, S))[S]
  BY DEF Sum, MapThenSumSet, MapThenFoldSet, IsSum, SumStep, Some

\* Sets of subsets of a finite set have least members.
LEMMA LeastSet ==
  ASSUME NEW S, IsFiniteSet(S), NEW B \in SUBSET (SUBSET S), B # {}
  PROVE  \E T \in B : \A U \in B : U \subseteq T => U = T
  <1>1. IsWellFoundedOn(StrictSubsetOrdering(S), SUBSET S)
    BY FS_StrictSubsetOrderingWellFounded, FS_FiniteSubsetsOfFinite
  <1>2. PICK T \in B : \A U \in B : ~ (<<U, T>> \in StrictSubsetOrdering(S))
    BY <1>1, WFMin
  <1>3. ASSUME NEW U \in B, U \subseteq T, U # T PROVE FALSE
    BY <1>2, <1>3 DEF StrictSubsetOrdering
  <1> QED  BY <1>2, <1>3

LEMMA SomeIn == ASSUME NEW s, s # {} PROVE Some(s) \in s
  BY DEF Some

\* Two functions that sum up agree where both do.
LEMMA SumUnique ==
  ASSUME NEW f, NEW S, NEW T, IsFiniteSet(S), S \subseteq T,
         NEW F, NEW G, IsSum(f, F, S), IsSum(f, G, T)
  PROVE  F[S] = G[S]
  <1> DEFINE B == {s \in SUBSET S : F[s] # G[s]}
  <1>1. SUFFICES ASSUME B # {} PROVE FALSE
    BY DEF B
  <1>0. B \in SUBSET (SUBSET S)
    OBVIOUS
  <1> HIDE DEF B
  <1>2. PICK s \in B : \A u \in B : u \subseteq s => u = s
    BY <1>0, <1>1, LeastSet
  <1>3. s \in SUBSET S /\ s \in SUBSET T /\ F[s] # G[s]
    BY <1>2 DEF B
  <1>4. F[s] = SumStep(f, F, s) /\ G[s] = SumStep(f, G, s)
    BY <1>3 DEF IsSum
  <1>5. s # {} /\ F[s \ {Some(s)}] # G[s \ {Some(s)}]
    BY <1>3, <1>4 DEF SumStep
  <1>6. s \ {Some(s)} \in B
    BY <1>3, <1>5 DEF B
  <1>7. s \ {Some(s)} # s
    BY <1>5, SomeIn
  <1> QED  BY <1>2, <1>6, <1>7

\* There is such a function for every finite set, put together from those of its
\* subsets.
LEMMA SumExists ==
  ASSUME NEW f, NEW S, IsFiniteSet(S)
  PROVE  \E F : IsSum(f, F, S)
  <1> DEFINE B == {T \in SUBSET S : ~ \E F : IsSum(f, F, T)}
  <1>1. SUFFICES ASSUME B # {} PROVE FALSE
    BY DEF B
  <1>0. B \in SUBSET (SUBSET S)
    OBVIOUS
  <1> HIDE DEF B
  <1>2. PICK T \in B : \A U \in B : U \subseteq T => U = T
    BY <1>0, <1>1, LeastSet
  <1> DEFINE At(s) == CHOOSE F : IsSum(f, F, s)
             Value(s) == IF s = {} THEN 0 ELSE f[Some(s)].count + At(s \ {Some(s)})[s \ {Some(s)}]
             Whole == [s \in SUBSET T |-> Value(s)]
  <1>3. T \in SUBSET S /\ ~ \E F : IsSum(f, F, T)
    BY <1>2 DEF B
  <1>4. ASSUME NEW U \in SUBSET T, U # T PROVE IsSum(f, At(U), U)
    <2>1. U \notin B
      BY <1>2, <1>4
    <2> QED  BY <1>3, <2>1 DEF B
  <1> HIDE DEF At
  <1>5. ASSUME NEW s \in SUBSET T, s # {}
        PROVE  Whole[s \ {Some(s)}] = At(s \ {Some(s)})[s \ {Some(s)}]
    <2> DEFINE u == s \ {Some(s)}
    <2>1. u \in SUBSET T /\ u # T /\ IsSum(f, At(u), u)
      BY <1>4, <1>5, SomeIn
    <2>2. At(u)[u] = SumStep(f, At(u), u)
      BY <2>1 DEF IsSum
    <2>3. CASE u = {}
      BY <2>1, <2>2, <2>3 DEF SumStep
    <2>4. CASE u # {}
      <3> DEFINE w == u \ {Some(u)}
      <3>1. w \in SUBSET T /\ w # T /\ w \subseteq u /\ IsSum(f, At(w), w)
        BY <1>4, <2>1, <2>4, SomeIn
      <3>2. IsFiniteSet(w)
        BY <1>3, <3>1, FS_Subset
      <3> HIDE DEF w, u
      <3>3. At(w)[w] = At(u)[w]
        BY <2>1, <3>1, <3>2, SumUnique
      <3> QED  BY <2>1, <2>2, <2>4, <3>3 DEF SumStep, w, u
    <2> QED  BY <2>3, <2>4
  <1>6. ASSUME NEW s \in SUBSET T PROVE Whole[s] = SumStep(f, Whole, s)
    BY <1>5 DEF SumStep
  <1>7. IsSum(f, Whole, T)
    <2> HIDE DEF Value
    <2>1. Whole = [s \in SUBSET T |-> Whole[s]]
      OBVIOUS
    <2> HIDE DEF Whole
    <2> QED  BY <1>6, <2>1 DEF IsSum
  <1> QED  BY <1>3, <1>7

\* The sum is the value of any such function.
LEMMA SumAt ==
  ASSUME NEW f, NEW S, IsFiniteSet(S), NEW F, IsSum(f, F, S)
  PROVE  F[S] = Sum(f, S)
  <1>1. IsSum(f, CHOOSE G : IsSum(f, G, S), S)
    OBVIOUS
  <1> QED  BY <1>1, SumIs, SumUnique

\* What is in S but for one element adds up to the rest, whichever it is.
Adds(f, S) ==
  \A l \in S : Sum(f, S) = f[l].count + Sum(f, S \ {l})

LEMMA SumNext ==
  ASSUME NEW f, NEW S, IsFiniteSet(S), S # {}
  PROVE  Sum(f, S) = f[Some(S)].count + Sum(f, S \ {Some(S)})
  <1>1. PICK F : IsSum(f, F, S)
    BY SumExists
  <1> DEFINE T == S \ {Some(S)}
  <1>2. IsFiniteSet(T) /\ T \in SUBSET S
    BY FS_Subset
  <1>3. PICK G : IsSum(f, G, T)
    BY <1>2, SumExists
  <1>4. F[S] = f[Some(S)].count + F[T]
    BY <1>1 DEF IsSum, SumStep
  <1> HIDE DEF T
  <1>5. G[T] = F[T]
    BY <1>1, <1>2, <1>3, SumUnique
  <1>6. F[S] = Sum(f, S) /\ G[T] = Sum(f, T)
    BY <1>1, <1>2, <1>3, SumAt
  <1> QED  BY <1>4, <1>5, <1>6 DEF T

LEMMA SumEmpty == ASSUME NEW f PROVE Sum(f, {}) = 0
  <1>1. IsFiniteSet({})
    BY FS_EmptySet
  <1>2. PICK F : IsSum(f, F, {})
    BY <1>1, SumExists
  <1>3. F[{}] = 0
    BY <1>2 DEF IsSum, SumStep
  <1> QED  BY <1>1, <1>2, <1>3, SumAt

Counts(f, S) == \A l \in S : f[l].count \in Nat

LEMMA SumAdds ==
  ASSUME NEW f, NEW S, IsFiniteSet(S), Counts(f, S)
  PROVE  Sum(f, S) \in Nat /\ Adds(f, S)
  <1> DEFINE Good(T) == Sum(f, T) \in Nat /\ Adds(f, T)
             B == {T \in SUBSET S : ~Good(T)}
  <1>0. B \in SUBSET (SUBSET S)
    OBVIOUS
  <1>1. SUFFICES ASSUME B # {} PROVE FALSE
    BY DEF B
  <1> HIDE DEF B
  <1>2. PICK T \in B : \A U \in B : U \subseteq T => U = T
    BY <1>0, <1>1, LeastSet
  <1>3. T \in SUBSET S /\ ~Good(T)
    BY <1>2 DEF B
  <1>4. ASSUME NEW l \in T PROVE Good(T \ {l})
    BY <1>2, <1>3 DEF B
  <1>5. IsFiniteSet(T)
    BY <1>3, FS_Subset
  <1>6. T # {}
    BY <1>3, SumEmpty DEF Adds
  <1> DEFINE x == Some(T)
  <1>7. x \in T /\ Sum(f, T) = f[x].count + Sum(f, T \ {x})
    BY <1>5, <1>6, SomeIn, SumNext
  <1>8. Sum(f, T) \in Nat
    BY <1>3, <1>4, <1>7 DEF Counts
  <1>9. ASSUME NEW l \in T PROVE Sum(f, T) = f[l].count + Sum(f, T \ {l})
    <2> HIDE DEF x
    <2>1. CASE l = x
      BY <1>7, <2>1
    <2>2. CASE l # x
      <3>1. Sum(f, T \ {x}) = f[l].count + Sum(f, (T \ {x}) \ {l})
        BY <1>4, <1>7, <2>2 DEF Adds
      <3>2. Sum(f, T \ {l}) = f[x].count + Sum(f, (T \ {l}) \ {x})
        BY <1>4, <1>7, <2>2 DEF Adds
      <3>3. (T \ {x}) \ {l} = (T \ {l}) \ {x}
        OBVIOUS
      <3>4. Good(T \ {x}) /\ Good(T \ {l})
        BY <1>4, <1>7
      <3> DEFINE r == (T \ {x}) \ {l}
                 p == Sum(f, T \ {x})
                 q == Sum(f, T \ {l})
                 z == Sum(f, r)
                 a == f[x].count
                 b == f[l].count
      <3>5. p = b + z /\ q = a + z /\ Sum(f, T) = a + p
        BY <1>7, <3>1, <3>2, <3>3
      <3>6. a \in Nat /\ b \in Nat /\ p \in Nat /\ q \in Nat
        BY <1>3, <1>7, <3>4 DEF Counts
      <3>7. z \in Nat
        <4>1. r \in SUBSET S /\ r \notin B
          BY <1>2, <1>3, <1>7
        <4> QED  BY <4>1 DEF B
      <3> HIDE DEF r, p, q, z, a, b
      <3>8. a + p = b + q
        BY <3>5, <3>6, <3>7
      <3> QED  BY <3>5, <3>8 DEF q, b
    <2> QED  BY <2>1, <2>2
  <1> QED  BY <1>3, <1>8, <1>9 DEF Adds

\* One more.
LEMMA SumMore ==
  ASSUME NEW f, NEW S, IsFiniteSet(S), NEW l, l \notin S, Counts(f, S \cup {l})
  PROVE  Sum(f, S \cup {l}) = f[l].count + Sum(f, S)
  <1>1. IsFiniteSet(S \cup {l}) /\ (S \cup {l}) \ {l} = S
    BY FS_AddElement
  <1> QED  BY <1>1, SumAdds DEF Adds

\* Only the counts of its members matter to a sum.
LEMMA SumSame ==
  ASSUME NEW f, NEW g, NEW S, IsFiniteSet(S), \A l \in S : f[l].count = g[l].count
  PROVE  Sum(f, S) = Sum(g, S)
  <1>1. PICK F : IsSum(f, F, S)
    BY SumExists
  <1>2. ASSUME NEW s \in SUBSET S PROVE SumStep(f, F, s) = SumStep(g, F, s)
    BY SomeIn DEF SumStep
  <1>3. IsSum(g, F, S)
    BY <1>1, <1>2 DEF IsSum
  <1> QED  BY <1>1, <1>3, SumAt

\* A part and the rest.
LEMMA SumSplit ==
  ASSUME NEW f, NEW S, IsFiniteSet(S), Counts(f, S), NEW E \in SUBSET S
  PROVE  Sum(f, S) = Sum(f, E) + Sum(f, S \ E)
  <1> DEFINE Good(T) == Sum(f, S) = Sum(f, T) + Sum(f, S \ T)
             B == {T \in SUBSET S : ~Good(T)}
  <1>0. B \in SUBSET (SUBSET S)
    OBVIOUS
  <1>1. SUFFICES ASSUME B # {} PROVE FALSE
    BY DEF B
  <1> HIDE DEF B
  <1>2. PICK T \in B : \A U \in B : U \subseteq T => U = T
    BY <1>0, <1>1, LeastSet
  <1>3. T \in SUBSET S /\ ~Good(T)
    BY <1>2 DEF B
  <1>4. T # {}
    <2>1. S \ {} = S /\ Sum(f, S) \in Nat
      BY SumAdds
    <2> QED  BY <1>3, <2>1, SumEmpty
  <1>5. PICK l \in T : TRUE
    BY <1>4
  <1> DEFINE U == T \ {l}
  <1>6. Good(U)
    BY <1>2, <1>3, <1>5 DEF B
  <1>7. /\ IsFiniteSet(T) /\ IsFiniteSet(U) /\ IsFiniteSet(S \ T) /\ IsFiniteSet(S \ U)
        /\ S \ U = (S \ T) \cup {l} /\ l \notin S \ T
    BY <1>3, <1>5, FS_Subset
  <1>8. Counts(f, T) /\ Counts(f, U) /\ Counts(f, S \ T) /\ Counts(f, S \ U) /\ f[l].count \in Nat
    BY <1>3, <1>5 DEF Counts
  <1>9. Sum(f, T) = f[l].count + Sum(f, U) /\ Sum(f, S \ U) = f[l].count + Sum(f, S \ T)
    <2>1. Sum(f, T) = f[l].count + Sum(f, U)
      BY <1>5, <1>7, <1>8, SumAdds DEF Adds
    <2>2. Sum(f, S \ U) = f[l].count + Sum(f, S \ T)
      BY <1>7, <1>8, SumMore
    <2> QED  BY <2>1, <2>2
  <1>10. Sum(f, U) \in Nat /\ Sum(f, S \ T) \in Nat
    BY <1>7, <1>8, SumAdds
  <1> HIDE DEF U
  <1> QED  BY <1>3, <1>6, <1>8, <1>9, <1>10

-----------------------------------------------------------------------------
(***************************************************************************)
(* What the series count, all together.                                    *)
(***************************************************************************)
CountsAre ==
  /\ IsFiniteSet(DOMAIN series) /\ Counts(series, DOMAIN series)
  /\ requests \in Nat /\ dropped \in Nat

CountInv == CountsAre /\ Conserved

LEMMA PruneCounts ==
  ASSUME CountsAre, NEW now, prune(now)
  PROVE  /\ IsFiniteSet(DOMAIN Kept(now)) /\ DOMAIN Kept(now) \subseteq DOMAIN series
         /\ dropped' \in Nat
         /\ Sum(series, DOMAIN Kept(now)) \in Nat
         /\ Sum(series, DOMAIN series) + dropped = Sum(series, DOMAIN Kept(now)) + dropped'
  <1> DEFINE S == DOMAIN series
             E == Expired(now)
             K == DOMAIN Kept(now)
  <1>1. E \in SUBSET S /\ K = S \ E
    BY DEF Expired, Kept
  <1>2. IsFiniteSet(E) /\ IsFiniteSet(K) /\ Counts(series, E) /\ Counts(series, K)
    BY <1>1, FS_Subset DEF CountsAre, Counts
  <1>3. dropped' = dropped + Sum(series, E)
    BY DEF prune
  <1>4. Sum(series, E) \in Nat /\ Sum(series, K) \in Nat
    BY <1>2, SumAdds
  <1>5. Sum(series, S) = Sum(series, E) + Sum(series, K)
    BY <1>1, SumSplit DEF CountsAre
  <1> HIDE DEF S, E, K
  <1>6. Sum(series, S) + dropped = Sum(series, K) + dropped' /\ dropped' \in Nat
    BY <1>3, <1>4, <1>5 DEF CountsAre
  <1> QED  BY <1>1, <1>2, <1>4, <1>6 DEF S, K

LEMMA CountInvInit == Init => CountInv
  <1> SUFFICES ASSUME Init PROVE CountInv
    OBVIOUS
  <1>1. DOMAIN series = {} /\ requests = 0 /\ dropped = 0 /\ recorder.at = "idle"
    BY DEF Init
  <1>2. CountsAre
    BY <1>1, FS_EmptySet DEF CountsAre, Counts
  <1>3. Sum(series, DOMAIN series) = 0
    BY <1>1, SumEmpty
  <1> QED  BY <1>1, <1>2, <1>3 DEF CountInv, Conserved

LEMMA ScrapeCounts == ASSUME CountInv, Scrape PROVE CountInv'
  <1> DEFINE K == DOMAIN Kept(clock)
  <1>1. series' = Kept(clock) /\ prune(clock) /\ UNCHANGED <<requests, recorder>>
    BY DEF Scrape
  <1>2. /\ IsFiniteSet(K) /\ K \subseteq DOMAIN series /\ dropped' \in Nat
        /\ Sum(series, DOMAIN series) + dropped = Sum(series, K) + dropped'
    BY <1>1, PruneCounts DEF CountInv
  <1>3. DOMAIN series' = K /\ \A l \in K : series'[l] = series[l]
    BY <1>1 DEF Kept
  <1>4. CountsAre'
    BY <1>1, <1>2, <1>3 DEF CountInv, CountsAre, Counts
  <1>5. Sum(series', K) = Sum(series, K)
    <2> HIDE DEF K
    <2> QED  BY <1>2, <1>3, SumSame
  <1>6. requests' = Sum(series', DOMAIN series') + dropped'
                    + (IF recorder'.at = "idle" THEN 0 ELSE 1)
    BY <1>1, <1>2, <1>3, <1>5 DEF CountInv, Conserved
  <1>7. Conserved'
    BY <1>6 DEF Conserved
  <1> QED  BY <1>4, <1>7 DEF CountInv

\* One entry counted up, or a new one that counts one.
LEMMA SumEntered ==
  ASSUME NEW f, NEW g, NEW K, IsFiniteSet(K), Counts(f, K), NEW l,
         \A k \in K \ {l} : g[k] = f[k],
         g[l].count = IF l \in K THEN f[l].count + 1 ELSE 1
  PROVE  Sum(g, K \cup {l}) = Sum(f, K) + 1
  <1>1. IsFiniteSet(K \ {l}) /\ IsFiniteSet(K \cup {l})
    BY FS_RemoveElement, FS_AddElement
  <1>2. Counts(g, K \cup {l}) /\ Counts(f, K \ {l})
    BY DEF Counts
  <1>3. Sum(g, K \ {l}) = Sum(f, K \ {l})
    BY <1>1, SumSame
  <1>4. Sum(g, K \cup {l}) = g[l].count + Sum(g, K \ {l})
    <2>1. (K \cup {l}) \ {l} = K \ {l}
      OBVIOUS
    <2> QED  BY <1>1, <1>2, <2>1, SumAdds DEF Adds
  <1>5. Sum(f, K \ {l}) \in Nat
    BY <1>1, <1>2, SumAdds
  <1>6. CASE l \in K
    <2>1. Sum(f, K) = f[l].count + Sum(f, K \ {l}) /\ f[l].count \in Nat
      BY <1>6, SumAdds DEF Adds, Counts
    <2> QED  BY <1>3, <1>4, <1>5, <1>6, <2>1
  <1>7. CASE l \notin K
    <2>1. K \ {l} = K
      BY <1>7
    <2> QED  BY <1>3, <1>4, <1>5, <1>7, <2>1
  <1> QED  BY <1>6, <1>7

LEMMA EnterCounts == ASSUME MetricsInv, CountInv, EnterSeries PROVE CountInv'
  <1> DEFINE l == recorder.label
             now == recorder.now
             K == DOMAIN Kept(now)
  <1>1. /\ prune(now)
        /\ series' = [k \in K \cup {l} |-> IF k = l THEN Entry(l, now) ELSE series[k]]
        /\ recorder.at = "timed" /\ recorder' = [recorder EXCEPT !.at = "idle"]
        /\ requests' = requests
    BY DEF EnterSeries
  <1>2. Entry(l, now).count = IF l \in K THEN series[l].count + 1 ELSE 1
    BY DEF Entry
  <1> HIDE DEF l, now, K
  <1>3. /\ IsFiniteSet(K) /\ K \subseteq DOMAIN series /\ dropped' \in Nat
        /\ Sum(series, K) \in Nat
        /\ Sum(series, DOMAIN series) + dropped = Sum(series, K) + dropped'
    BY <1>1, PruneCounts DEF CountInv, K
  <1>4. /\ DOMAIN series' = K \cup {l}
        /\ \A k \in K \ {l} : series'[k] = series[k]
        /\ series'[l].count = IF l \in K THEN series[l].count + 1 ELSE 1
    BY <1>1, <1>2
  <1>5. Counts(series, K)
    BY <1>3 DEF CountInv, CountsAre, Counts
  <1>6. CountsAre'
    <2>1. IsFiniteSet(K \cup {l})
      BY <1>3, FS_AddElement
    <2>2. Counts(series', K \cup {l})
      BY <1>4, <1>5 DEF Counts
    <2> QED  BY <1>1, <1>3, <1>4, <2>1, <2>2 DEF CountInv, CountsAre, Counts
  <1>7. Sum(series', DOMAIN series') = Sum(series, K) + 1
    BY <1>3, <1>4, <1>5, SumEntered
  <1>8. requests = Sum(series, DOMAIN series) + dropped + 1
    BY <1>1 DEF CountInv, Conserved
  <1>9. requests' = Sum(series', DOMAIN series') + dropped'
    BY <1>1, <1>3, <1>7, <1>8
  <1>10. recorder'.at = "idle"
    BY <1>1 DEF MetricsInv, Times
  <1>11. Conserved'
    <2>1. dropped' \in Nat /\ Sum(series', DOMAIN series') \in Nat
      BY <1>3, <1>7
    <2> QED  BY <1>9, <1>10, <2>1 DEF Conserved
  <1> QED  BY <1>6, <1>11 DEF CountInv

LEMMA CountInvStep == MetricsInv /\ CountInv /\ [Next]_vars => CountInv'
  <1> SUFFICES ASSUME MetricsInv, CountInv, [Next]_vars PROVE CountInv'
    OBVIOUS
  <1>1. ASSUME NEW l \in Label, CountRequest(l) PROVE CountInv'
    <2>1. /\ recorder.at = "idle" /\ requests' = requests + 1
          /\ recorder'.at = "counted"
          /\ UNCHANGED <<series, dropped>>
      BY <1>1 DEF CountRequest, MetricsInv, Times
    <2>2. CountsAre'
      BY <2>1 DEF CountInv, CountsAre
    <2>3. Sum(series, DOMAIN series) \in Nat /\ dropped \in Nat
      BY SumAdds DEF CountInv, CountsAre
    <2>4. requests + 1 = Sum(series, DOMAIN series) + dropped + 1
      BY <2>1, <2>3 DEF CountInv, Conserved
    <2> QED  BY <2>1, <2>2, <2>4 DEF CountInv, Conserved
  <1>2. CASE ReadClock
    <2>1. recorder.at = "counted" /\ recorder'.at = "timed"
          /\ UNCHANGED <<requests, series, dropped>>
      BY <1>2 DEF ReadClock, MetricsInv, Times
    <2> QED  BY <2>1 DEF CountInv, CountsAre, Conserved
  <1>3. CASE Tick \/ UNCHANGED vars
    BY <1>3 DEF Tick, vars, CountInv, CountsAre, Conserved
  <1> QED  BY <1>1, <1>2, <1>3, EnterCounts, ScrapeCounts DEF Next

\* Every request is counted once, in a series or among those that were pruned: no
\* pruning takes more or less from the series than what it drops, and an entry that
\* comes back starts anew (record_request, prune).
THEOREM NoRequestLost == Spec => []Conserved
  <1>1. CountInv => Conserved
    BY DEF CountInv
  <1> QED  BY <1>1, CountInvInit, CountInvStep, MetricsInvariant, PTL DEF Spec
=============================================================================
