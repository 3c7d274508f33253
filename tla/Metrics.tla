------------------------------- MODULE Metrics -------------------------------
(***************************************************************************)
(* The collector of middleware/metrics.go: maps of series (counters,       *)
(* durations, histograms, body sizes) that requests read through an        *)
(* immutable published view and change under the collector's lock; a cap   *)
(* on each map, a series for what does not fit, and an idle sweep.         *)
(*                                                                         *)
(* A series that was dropped stays in the views that requests loaded       *)
(* before.  Every entry of a view therefore says whether its series is the *)
(* one of the live map.  Instants are ages, as in RateLimit.               *)
(***************************************************************************)
EXTENDS Totals

CONSTANTS
  Requests,
  Stores,           \* the maps a request updates, in the code's order, or some of them
  Labels,           \* <<path, status>>
  OverflowLabel,
  maxSeries,        \* 0: unbounded
  seriesTTL,        \* 0: no sweeping
  eagerViewEntries,
  MaxStall,         \* bound: ticks between a request's clock reading and its last update
  MaxRequests       \* bound

AllStores == <<"counters", "durations", "histograms", "reqBytes">>
Names == {Stores[i] : i \in 1..Len(Stores)}

ASSUME MetricsAssumption ==
  /\ {maxSeries, seriesTTL, eagerViewEntries, MaxStall, MaxRequests} \subseteq Nat
  /\ Stores \in Seq(STRING) \ {<<>>} /\ Stores = SelectSeq(AllStores, LAMBDA s : s \in Names)
  /\ OverflowLabel \notin Labels

VARIABLES
  live,               \* each store: key -> age of lastSeen, value
  views, entries,     \* the published view: each store: key -> is it the live series
  lastSweep,          \* its age
  active,
  req,                \* the requests: see Idle
  started,            \* how many there were
  recorded, forgotten, lost \* history, for each store: updates made, those of series
                            \* swept since, those made to a series already swept

metricVars == <<live, views, entries, lastSweep, active, req, started, recorded, forgotten, lost>>

Empty == [s \in Names |-> [k \in {} |-> TRUE]]
NoSeries == [key |-> OverflowLabel, alive |-> FALSE]

\* label, store (i) and clock reading (now, an age) of a request, the view it loaded,
\* the series it resolved; crossed: a sweep ran since it loaded the view.
Idle == [pc |-> "idle", label |-> OverflowLabel, i |-> 1, now |-> 0, view |-> Empty,
         series |-> NoSeries, crossed |-> FALSE]

MetricsInit ==
  /\ live = Empty /\ views = Empty /\ entries = 0 /\ lastSweep = 0 /\ active = 0
  /\ req = [r \in Requests |-> Idle] /\ started = 0
  /\ recorded = [s \in Names |-> 0] /\ forgotten = recorded /\ lost = recorded

history == <<recorded, forgotten, lost>>
maps == <<live, views, entries, lastSweep>>

Timed(r) == req[r].pc \notin {"idle", "handler"}
AgeLimit == seriesTTL + MaxStall + 1
older(age) == IF age < AgeLimit THEN age + 1 ELSE age

MetricsTick ==
  /\ \A r \in Requests : Timed(r) => req[r].now < MaxStall
  /\ live' = [s \in Names |-> [k \in DOMAIN live[s] |-> [live[s][k] EXCEPT !.age = older(@)]]]
  /\ lastSweep' = older(lastSweep)
  /\ req' = [r \in Requests |-> IF Timed(r) THEN [req[r] EXCEPT !.now = @ + 1] ELSE req[r]]
  /\ UNCHANGED <<views, entries, active, started, history>>

\* The middleware calls the next handler.
Begin(r, l) ==
  /\ req[r].pc = "idle" /\ started < MaxRequests
  /\ req' = [req EXCEPT ![r].pc = "handler", ![r].label = l]
  /\ active' = active + 1 /\ started' = started + 1
  /\ UNCHANGED <<maps, history>>

\* The handler panics: only the deferred decrement runs.
Panic(r) ==
  /\ req[r].pc = "handler" /\ req' = [req EXCEPT ![r] = Idle] /\ active' = active - 1
  /\ UNCHANGED <<maps, started, history>>

\* It returns: the one clock reading.
Returned(r) ==
  /\ req[r].pc = "handler" /\ req' = [req EXCEPT ![r].pc = "load"]
  /\ UNCHANGED <<maps, active, started, history>>

\* The one load of the view.
Load(r) ==
  /\ req[r].pc = "load" /\ req' = [req EXCEPT ![r].pc = "lookup", ![r].view = views]
  /\ UNCHANGED <<maps, active, started, history>>

store(r) == Stores[req[r].i]
key(r) == IF store(r) = "counters" THEN req[r].label ELSE <<req[r].label[1]>>

sweepDue(r) == seriesTTL > 0 /\ lastSweep - req[r].now >= seriesTTL
foldsView(size, r) == maxSeries > 0 /\ size >= maxSeries /\ ~ sweepDue(r)

\* Where a map of the given keys sends the request: its series, the overflow, or on.
found(keys, r) ==
  IF key(r) \in keys THEN {key(r)}
  ELSE IF foldsView(Cardinality(keys), r) THEN {OverflowLabel} \cap keys ELSE {}

Resolved(r, k, alive, next) ==
  req' = [req EXCEPT ![r].series = [key |-> k, alive |-> alive], ![r].pc = next]

\* lookupSeries and lookupHistogram, on the view loaded before.
lookupSeries(r) ==
  /\ req[r].pc = "lookup"
  /\ LET view == req[r].view[store(r)]
         hit == found(DOMAIN view, r)
     IN  \/ \E k \in hit : Resolved(r, k, view[k], "touch")
         \/ hit = {} /\ req' = [req EXCEPT ![r].pc = "rlock"]
  /\ UNCHANGED <<maps, active, started, history>>

\* series and histogramSeries under the read lock.
seriesRead(r) ==
  /\ req[r].pc = "rlock"
  /\ LET hit == found(DOMAIN live[store(r)], r)
     IN  \/ \E k \in hit : Resolved(r, k, TRUE, "touch")
         \/ hit = {} /\ req' = [req EXCEPT ![r].pc = "wlock"]
  /\ UNCHANGED <<maps, active, started, history>>

\* touch, after the lock is released.
touch(r) ==
  /\ req[r].pc = "touch" /\ req' = [req EXCEPT ![r].pc = "add"]
  /\ live' = IF seriesTTL > 0 /\ req[r].series.alive
             THEN [live EXCEPT ![store(r)][req[r].series.key].age = req[r].now] ELSE live
  /\ UNCHANGED <<views, entries, lastSweep, active, started, history>>

\* sweepLocked: what it drops, and what remains.
idleKeys(r) ==
  [s \in Names |-> {k \in DOMAIN live[s] : live[s][k].age - req[r].now > seriesTTL}]
without(f, gone) == [s \in Names |-> [k \in DOMAIN f[s] \ gone[s] |-> f[s][k]]]
detached(f, gone) == [s \in Names |-> [k \in DOMAIN f[s] |-> f[s][k] /\ k \notin gone[s]]]
values(f) == [k \in DOMAIN f |-> f[k].n]
Values(f, keys) == Total(values(f), keys)

entriesOf(l) == UNION {{s} \X DOMAIN l[s] : s \in Names}
size(l) == Cardinality(entriesOf(l))
view(l) == [s \in Names |-> [k \in DOMAIN l[s] |-> TRUE]]

\* Mutant: no second look, so the overflow is made afresh by every request that folds.
NewUnlooked(k, keys) == TRUE

\* The second look of series under the write lock, at the key or the overflow.
New(k, keys) == k \notin keys

\* publishViewsLocked at the end of maybeSweepLocked.
SweepPublishes(kept) == [v |-> view(kept), n |-> size(kept)]

\* maybePublishViewsLocked, after an insertion.
Publishes(l, n) == size(l) <= eagerViewEntries \/ size(l) >= 2 * n

Room(keys) == maxSeries = 0 \/ Cardinality(keys) < maxSeries

\* series and histogramSeries under the write lock.
seriesWrite(r) ==
  /\ req[r].pc = "wlock" /\ UNCHANGED <<active, started, recorded, lost>>
  /\ IF key(r) \in DOMAIN live[store(r)]
     THEN /\ live' = [live EXCEPT ![store(r)][key(r)].age = req[r].now]
          /\ Resolved(r, key(r), TRUE, "add")
          /\ UNCHANGED <<views, entries, lastSweep, forgotten>>
     ELSE LET s    == store(r)
              due  == sweepDue(r)
              gone == IF due THEN idleKeys(r) ELSE [n \in Names |-> {}]
              kept == without(live, gone)
              pub  == IF due THEN SweepPublishes(kept) ELSE [v |-> views, n |-> entries]
              k    == IF Room(DOMAIN kept[s]) THEN key(r) ELSE OverflowLabel
              new  == New(k, DOMAIN kept[s])
              then == [kept EXCEPT ![s] = [j \in DOMAIN @ \cup {k} |->
                         IF j # k THEN @[j]
                         ELSE [age |-> req[r].now, n |-> IF new THEN 0 ELSE @[j].n]]]
              again == new /\ Publishes(then, pub.n)
          IN  /\ live' = then
              /\ views' = IF again THEN view(then) ELSE pub.v
              /\ entries' = IF again THEN size(then) ELSE pub.n
              /\ lastSweep' = IF due THEN req[r].now ELSE lastSweep
              /\ forgotten' = [n \in Names |-> forgotten[n] + Values(live[n], gone[n])]
              /\ req' = [q \in Requests |->
                   LET x == [req[q] EXCEPT !.view = detached(@, gone),
                               !.series.alive = @ /\ req[q].series.key \notin gone[store(q)],
                               !.crossed = @ \/ (due /\ req[q].pc \notin {"idle", "handler", "load"})]
                   IN  IF q # r THEN x
                       ELSE [x EXCEPT !.series = [key |-> k, alive |-> TRUE], !.pc = "add"]]

\* The request is done with its store; after the last one the middleware returns.
NextStore(r) ==
  IF req[r].i < Len(Stores)
  THEN /\ req' = [req EXCEPT ![r].pc = "lookup", ![r].i = @ + 1, ![r].series = NoSeries]
       /\ UNCHANGED active
  ELSE req' = [req EXCEPT ![r] = Idle] /\ active' = active - 1

\* Add or observe, on a series that may have been swept since.
Add(r) ==
  /\ req[r].pc = "add"
  /\ LET s == store(r)  x == req[r].series
     IN  /\ recorded' = [recorded EXCEPT ![s] = @ + 1]
         /\ IF x.alive
            THEN live' = [live EXCEPT ![s][x.key].n = @ + 1] /\ UNCHANGED lost
            ELSE lost' = [lost EXCEPT ![s] = @ + 1] /\ UNCHANGED live
  /\ NextStore(r)
  /\ UNCHANGED <<views, entries, lastSweep, started, forgotten>>

\* An empty body is not recorded.
NoBody(r) ==
  /\ req[r].pc = "lookup" /\ store(r) = "reqBytes" /\ NextStore(r)
  /\ UNCHANGED <<maps, started, history>>

Serving(r) ==
  \/ Panic(r) \/ Returned(r) \/ Load(r) \/ lookupSeries(r) \/ seriesRead(r)
  \/ touch(r) \/ seriesWrite(r) \/ Add(r) \/ NoBody(r)

MetricsNext ==
  MetricsTick \/ \E r \in Requests : Serving(r) \/ \E l \in Labels : Begin(r, l)

MetricsSpec == MetricsInit /\ [][MetricsNext]_metricVars

-----------------------------------------------------------------------------
(* Properties *)

\* Every map keeps to its cap: MaxSeries series and the overflow; and the published view
\* never hands out a series that was swept, nor lags behind while the collector is small.
SeriesBounded ==
  /\ lastSweep \in 0..AgeLimit /\ entries <= size(live)
  /\ \A s \in Names :
       /\ maxSeries > 0 => Cardinality(DOMAIN live[s] \ {OverflowLabel}) <= maxSeries
       /\ DOMAIN views[s] \subseteq DOMAIN live[s]
       /\ \A k \in DOMAIN views[s] : views[s][k]
       /\ size(live) <= eagerViewEntries => DOMAIN views[s] = DOMAIN live[s]

\* No request is missing from the metrics: what the live series show, with what was
\* swept since, is what was recorded, and an update misses its series only if a sweep
\* ran between the request's load of the view and the update.  The gauge counts the
\* requests inside, panics included.
RequestsCounted ==
  /\ active = Cardinality({r \in Requests : req[r].pc # "idle"})
  /\ \A s \in Names :
       Values(live[s], DOMAIN live[s]) + forgotten[s] + lost[s] = recorded[s]
  /\ \A r \in Requests : req[r].pc \in {"touch", "add"} /\ ~ req[r].series.alive => req[r].crossed

-----------------------------------------------------------------------------
(* Claims of the source that do not hold *)

\* metrics.go:692, "A view that has gone stale between them only costs the locked path,
\* never a wrong answer", and :74, "traffic is never dropped from the metrics, only
\* aggregated".
NeverDropped == \A s \in Names : lost[s] = 0

\* metrics.go:591, "It can therefore never fold a label that the live store still had room
\* for".
FoldsOnlyWhenFull ==
  [][\A r \in Requests :
       req[r].pc = "lookup" /\ req'[r].pc = "touch" /\ req'[r].series.key = OverflowLabel
         => ~ Room(DOMAIN live[store(r)])]_metricVars
=============================================================================
