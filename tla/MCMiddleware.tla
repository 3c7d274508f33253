---------------------------- MODULE MCMiddleware ----------------------------
(***************************************************************************)
(* The rate limiter and the metrics collector, each in front of a handler. *)
(* They share no state, so a behaviour is one of the two.                  *)
(***************************************************************************)
EXTENDS RateLimit, Metrics, TLC

VARIABLE chain

chainVars == <<chain, limitVars, metricVars>>

ChainInit == chain \in {"RateLimit", "Metrics"} /\ LimitInit /\ MetricsInit

ChainNext ==
  /\ UNCHANGED chain
  /\ \/ chain = "RateLimit" /\ LimitNext /\ UNCHANGED metricVars
     \/ chain = "Metrics" /\ MetricsNext /\ UNCHANGED limitVars

ChainSpec == ChainInit /\ [][ChainNext]_chainVars

\* Neither grows past its cap, whatever keys and paths come: the limiter's map and list
\* agree, each bucket under its key, and hold at most MaxBuckets of them; every map of the collector at most
\* MaxSeries series and the overflow; and a published view never outlives a sweep.
MemoryBounded == LimitInv /\ Bounded /\ SeriesBounded

MCLabels == {<<"p", 200>>, <<"q", 200>>}
MCStores == <<"counters", "reqBytes">>
MCOverflow == <<"__other__">>
Interchangeable == Permutations(Requests) \cup Permutations(Callers)
=============================================================================
