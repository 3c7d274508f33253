-------------------------- MODULE MiddlewareProofs --------------------------
(***************************************************************************)
(* What the rate limiter and the metrics collector promise for any keys,   *)
(* callers, rate, burst, cap and idle time, and any requests, labels,      *)
(* stores and cap: proofs about RateLimit and Metrics, and about the two   *)
(* together.                                                               *)
(*                                                                         *)
(* The limiter's invariant relates every bucket to one that is never       *)
(* dropped (IdealInv), and its map to its list (ListInv).  The             *)
(* collector's, MetricsInv, follows what a request knows of the maps: an   *)
(* entry of the view it loaded, or the series it has resolved, is of a     *)
(* live series, or a sweep has run since (Follows); and it counts every    *)
(* update in a live series, in one swept since, or among those that missed *)
(* theirs (SumsInv).                                                       *)
(***************************************************************************)
EXTENDS MCMiddleware, TotalsProofs

\* The leaves are first-order, but for those that cite SMT.
USE ZenonT(60)

-----------------------------------------------------------------------------
(* The rate limiter *)

\* What the configuration is worth: a bucket is full before it can be swept, unless the
\* time it takes to refill is over the largest TTL.
LEMMA Config ==
  /\ Full \in Nat /\ Cost \in Nat \ {0} /\ resolveIdleTTL \in Nat /\ AgeCap \in Nat
  /\ AgeCap > resolveIdleTTL /\ AgeCap > Full
  /\ resolveIdleTTL > 0 => resolveIdleTTL >= Full \/ Full > maxTTL
<1>1. Full \in Nat
  BY LimiterAssumption, SMT DEF Full
<1>2. /\ Cost \in Nat \ {0} /\ IdleTTL \in Nat /\ maxTTL \in Nat
  BY LimiterAssumption
<1> QED BY <1>1, <1>2, SMTT(30) DEF resolveIdleTTL, AgeCap, larger, lesser

\* A bucket holds at most the burst, and holds it once it is old enough.
LEMMA RefilledRange ==
  ASSUME LimitTypeOK, NEW id \in Ids
  PROVE  /\ refilled(id) \in 0..Full /\ refilled(id) \in Int
         /\ age[id] >= Full => refilled(id) = Full
BY Config, SMTT(30) DEF LimitTypeOK, refilled, lesser

LEMMA InitInv == LimitInit => LimitInv
<1> SUFFICES ASSUME LimitInit PROVE LimitInv
  OBVIOUS
<1>1. insertCt \in 0..(sweepEvery - 1)
  BY LimiterAssumption, SMTT(30) DEF LimitInit
<1>2. LimitTypeOK
  BY <1>1, Config, LimiterAssumption, SMTT(30) DEF LimitInit, LimitTypeOK
<1>3. \A id \in Ids : ~ InUse(id)
  BY LimiterAssumption DEF LimitInit, InUse, Live, Held
<1>4. IdealInv
  BY <1>3 DEF IdealInv, LimitInit, InUse
<1> QED BY <1>2, <1>4 DEF LimitInv

\* Time adds the same to a bucket and to the ideal one.
LEMMA TickInv == LimitInv /\ LimitTick => LimitInv'
<1> SUFFICES ASSUME LimitInv, LimitTick PROVE LimitInv'
  OBVIOUS
<1> USE DEF LimitInv
<1>1. \A id \in Ids : InUse(id)' = InUse(id) /\ Held(id)' = Held(id)
  BY DEF LimitTick, InUse, Live, Held
<1>2. ASSUME NEW id \in Ids
      PROVE  /\ age'[id] \in 0..AgeCap
             /\ InUse(id) => refilled(id)' = lesser(Full, refilled(id) + 1)
  BY <1>2, Config, SMTT(30) DEF LimitTick, LimitTypeOK, refilled, lesser
<1>3. \A k \in Keys : ideal'[k] = lesser(Full, ideal[k] + 1) /\ ideal[k] \in 0..Full
  BY DEF LimitTick, LimitTypeOK
<1>4. LimitTypeOK'
  <2>1. age' \in [Ids -> 0..AgeCap]
    BY <1>2 DEF LimitTick
  <2>2. ideal' \in [Keys -> 0..Full]
    BY <1>3, Config, SMTT(30) DEF LimitTick, lesser
  <2> QED BY <2>1, <2>2 DEF LimitTick, LimitTypeOK
<1>5. \A id \in Ids : refilled(id) \in 0..Full
  BY RefilledRange
<1>6. \A k \in Keys : buckets[k] # NoId => buckets[k] \in Ids /\ InUse(buckets[k])
  BY DEF LimitTypeOK, InUse, Live
<1>7. buckets' = buckets /\ loose' = loose /\ keyOf' = keyOf
  BY DEF LimitTick
<1>8. IdealInv'
  <2>1. ASSUME NEW id \in Ids, InUse(id) PROVE refilled(id)' >= ideal'[keyOf[id]]
    BY <1>2, <1>3, <1>5, <2>1, Config, SMTT(30) DEF IdealInv, lesser
  <2>2. ASSUME NEW k \in Keys, ~ loose[k], buckets[k] # NoId
        PROVE  refilled(buckets[k])' = ideal'[k]
    <3>1. refilled(buckets[k]) = ideal[k]
      BY <2>2 DEF IdealInv
    <3>2. refilled(buckets[k])' = lesser(Full, refilled(buckets[k]) + 1)
      BY <1>2, <1>6, <1>7, <2>2 DEF refilled
    <3> QED BY <1>3, <3>1, <3>2
  <2>3. ASSUME NEW k \in Keys, ~ loose[k], buckets[k] = NoId PROVE ideal'[k] = Full
    BY <1>3, <2>3, Config, SMTT(30) DEF IdealInv, lesser
  <2> QED BY <1>1, <1>6, <1>7, <2>1, <2>2, <2>3 DEF IdealInv
<1> QED BY <1>4, <1>8

\* Taking the bucket of the key in hand, and the end of a request.
LEMMA LookupInv ==
  ASSUME LimitInv, NEW r \in Callers, NEW k \in Keys, Lookup(r, k)
  PROVE  LimitInv'
<1> USE DEF LimitInv
<1>1. LimitTypeOK'
  BY DEF Lookup, bucketVars, LimitTypeOK
<1>2. \A id \in Ids : /\ InUse(id)' => InUse(id)
                      /\ Held(id)' => Held(id) \/ id = buckets[k]
  BY DEF Lookup, InUse, Live, Held, LimitTypeOK
<1>3. \A id \in Ids : refilled(id)' = refilled(id)
  BY DEF Lookup, bucketVars, refilled
<1>4. \A j \in Keys : buckets[j] # NoId => buckets[j] \in Ids /\ refilled(buckets[j])' = refilled(buckets[j])
  BY <1>3 DEF LimitTypeOK, Lookup, refilled, bucketVars
<1>5. IdealInv'
  BY <1>2, <1>3, <1>4, SMTT(30) DEF IdealInv, Lookup, bucketVars
<1> QED BY <1>1, <1>5

LEMMA ReturnInv ==
  ASSUME LimitInv, NEW r \in Callers, LimitReturn(r)
  PROVE  LimitInv'
<1>1. LimitTypeOK'
  BY DEF LimitInv, LimitReturn, bucketVars, LimitTypeOK
<1>2. IdealInv'
  BY SMTT(30) DEF LimitInv, LimitReturn, bucketVars, IdealInv, InUse, Live, Held, refilled
<1> QED BY <1>1, <1>2 DEF LimitInv

\* What allow makes of the bucket in hand and of the ideal one.
LEMMA AllowInv ==
  ASSUME LimitInv, NEW r \in Callers, allow(r)
  PROVE  LimitInv'
<1> USE DEF LimitInv
<1> DEFINE id == held[r]
           t == refilled(id)
           ok == t >= Cost
           k == keyOf[id]
<1>1. id \in Ids /\ Held(id) /\ InUse(id) /\ k \in Keys
  BY DEF LimitTypeOK, allow, Held, InUse, IdealInv
<1>2. t \in 0..Full /\ ideal[k] \in 0..Full /\ t >= ideal[k]
  BY <1>1, RefilledRange DEF LimitTypeOK, IdealInv
<1>3. \A i \in Ids : (Held(i)' => Held(i)) /\ (InUse(i)' => InUse(i))
  BY LimiterAssumption DEF allow, Held, InUse, Live, LimitTypeOK
<1>4. \A i \in Ids : InUse(i)' =>
        /\ keyOf'[i] = keyOf[i]
        /\ tokens'[i] = IF i = id THEN (IF ok THEN t - Cost ELSE t) ELSE tokens[i]
        /\ age'[i] = IF i = id THEN 0 ELSE age[i]
  BY <1>1 DEF allow, collected, LimitTypeOK
<1>5. \A j \in Keys : ideal'[j] = IF j = k /\ ok THEN larger(0, ideal[j] - Cost) ELSE ideal[j]
  BY <1>1 DEF allow, LimitTypeOK
<1> HIDE DEF id, t, ok, k
<1>6. (IF ok THEN t - Cost ELSE t) \in 0..Full
  BY <1>2, Config, SMTT(30) DEF ok
<1>7. LimitTypeOK'
  <2>1. keyOf' \in [Ids -> Keys \cup {NoKey}] /\ age' \in [Ids -> 0..AgeCap]
    BY Config, SMTT(30) DEF allow, collected, LimitTypeOK
  <2>2. tokens' \in [Ids -> 0..Full]
    BY <1>6, Config, SMTT(30) DEF allow, collected, LimitTypeOK, id, ok, t
  <2>3. ideal' \in [Keys -> 0..Full]
    <3>1. \A j \in Keys : ideal'[j] \in 0..Full
      BY <1>5, Config, SMTT(30) DEF larger, LimitTypeOK
    <3> QED BY <3>1 DEF allow, LimitTypeOK
  <2> QED BY <2>1, <2>2, <2>3, LimiterAssumption DEF allow, LimitTypeOK
<1>8. \A i \in Ids : InUse(i)' =>
        refilled(i)' = IF i = id THEN (IF ok THEN t - Cost ELSE t) ELSE refilled(i)
  BY <1>4, <1>6, Config, SMTT(30) DEF refilled, lesser
<1>9. \A j \in Keys : buckets[j] # NoId => buckets[j] \in Ids /\ InUse(buckets[j])'
  BY DEF LimitTypeOK, InUse, Live, allow
<1>10. buckets' = buckets /\ loose' = loose
  BY DEF allow
<1>11. IdealInv'
  <2>1. ASSUME NEW i \in Ids, InUse(i)' PROVE refilled(i)' >= ideal'[keyOf'[i]] /\ keyOf'[i] \in Keys
    <3>1. keyOf'[i] = keyOf[i] /\ keyOf[i] \in Keys /\ refilled(i) >= ideal[keyOf[i]]
      BY <1>3, <1>4, <2>1 DEF IdealInv
    <3>2. refilled(i) \in 0..Full /\ ideal[keyOf[i]] \in 0..Full
      BY <3>1, RefilledRange DEF LimitTypeOK
    <3>3. CASE i = id
      BY <1>2, <1>5, <1>8, <2>1, <3>1, <3>3, Config, SMTT(30) DEF larger, ok, k, t
    <3>4. CASE i # id
      BY <1>5, <1>8, <2>1, <3>1, <3>2, <3>4, Config, SMTT(30) DEF larger
    <3> QED BY <3>1, <3>3, <3>4
  <2>2. ASSUME NEW j \in Keys, ~ loose[j], buckets[j] # NoId PROVE refilled(buckets[j])' = ideal'[j]
    <3>1. buckets[j] \in Ids /\ InUse(buckets[j])' /\ keyOf[buckets[j]] = j /\ refilled(buckets[j]) = ideal[j]
      BY <1>9, <2>2 DEF IdealInv
    <3>2. refilled(buckets[j])' = IF buckets[j] = id THEN (IF ok THEN t - Cost ELSE t) ELSE refilled(buckets[j])
      BY <1>8, <1>10, <3>1 DEF refilled
    <3>3. CASE j = k
      <4>1. buckets[j] = id
        BY <1>1, <2>2, <3>3 DEF IdealInv, k
      <4> QED BY <1>2, <1>5, <3>1, <3>2, <3>3, <4>1, Config, SMTT(30) DEF larger, ok, t
    <3>4. CASE j # k
      BY <1>5, <3>1, <3>2, <3>4 DEF k
    <3> QED BY <3>3, <3>4
  <2>3. ASSUME NEW j \in Keys, ~ loose[j], buckets[j] = NoId PROVE ideal'[j] = Full
    <3>1. j # k
      BY <1>1, <2>3, LimiterAssumption DEF IdealInv, k
    <3> QED BY <1>5, <2>3, <3>1 DEF IdealInv
  <2>4. ASSUME NEW j \in Keys, ~ loose[j], NEW i \in Ids, Held(i)', keyOf'[i] = j PROVE buckets[j] = i
    BY <1>3, <1>4, <2>4 DEF IdealInv, InUse
  <2>5. \A j \in Keys : buckets[j] # NoId => keyOf'[buckets[j]] = j
    BY <1>4, <1>9, <1>10 DEF IdealInv
  <2> QED BY <1>10, <2>1, <2>2, <2>3, <2>4, <2>5 DEF IdealInv
<1> QED BY <1>7, <1>11

\* Making room and creating a bucket: what is swept or evicted was full, or its key is
\* noted as loose.
LEMMA InsertInv ==
  ASSUME LimitInv, NEW r \in Callers, NEW k \in Keys, Insert(r, k)
  PROVE  LimitInv'
<1> USE DEF LimitInv
<1> DEFINE new == newBucket
           gone == swept \cup evicted
<1>1. new \in Ids /\ ~ InUse(new)
  BY DEF Insert, newBucket
<1>2. /\ \A j \in Keys : buckets'[j] = IF j = k THEN new
                                       ELSE IF buckets[j] \in gone THEN NoId ELSE buckets[j]
      /\ \A j \in Keys : loose'[j] = \/ loose[j]
                                     \/ /\ buckets[j] \in swept
                                        /\ \/ Held(buckets[j])
                                           \/ Full > maxTTL /\ refilled(buckets[j]) < Full
                                     \/ buckets[j] \in evicted /\ (Held(buckets[j]) \/ refilled(buckets[j]) < Full)
      /\ held' = [held EXCEPT ![r] = new] /\ ideal' = ideal /\ buckets[k] = NoId
  BY DEF Insert
<1>3. \A i \in Ids : InUse(i)' => i = new \/ InUse(i)
  BY <1>2, LimiterAssumption, SMTT(30) DEF InUse, Live, Held, LimitTypeOK
<1>4. \A i \in Ids : Held(i)' => i = new \/ Held(i)
  BY <1>2 DEF Held, LimitTypeOK
<1>5. \A i \in Ids : InUse(i)' =>
        /\ keyOf'[i] = IF i = new THEN k ELSE keyOf[i]
        /\ tokens'[i] = IF i = new THEN Full ELSE tokens[i]
        /\ age'[i] = IF i = new THEN 0 ELSE age[i]
  BY <1>1 DEF Insert, collected, LimitTypeOK
<1>6. LimitTypeOK'
  <2>1. /\ keyOf' \in [Ids -> Keys \cup {NoKey}]
        /\ tokens' \in [Ids -> 0..Full] /\ age' \in [Ids -> 0..AgeCap]
    BY <1>1, Config, SMTT(30) DEF Insert, collected, LimitTypeOK
  <2>2. buckets' \in [Keys -> Ids \cup {NoId}] /\ loose' \in [Keys -> BOOLEAN]
    BY <1>1, <1>2 DEF Insert, LimitTypeOK
  <2>3. insertCt' \in 0..(sweepEvery - 1)
    BY LimiterAssumption, SMTT(30) DEF Insert, LimitTypeOK
  <2>4. /\ lpc' \in [Callers -> {"idle", "allow", "admitted", "refused"}]
        /\ held' \in [Callers -> Ids \cup {NoId}]
        /\ \A c \in Callers : held'[c] = NoId <=> lpc'[c] # "allow"
    BY <1>1, <1>2, LimiterAssumption DEF Insert, LimitTypeOK
  <2> QED BY <1>2, <2>1, <2>2, <2>3, <2>4 DEF LimitTypeOK
<1>7. \A i \in Ids : InUse(i)' => refilled(i)' = IF i = new THEN Full ELSE refilled(i)
  BY <1>5, Config, SMTT(30) DEF refilled, lesser
<1>8. \A i \in swept : i \in Live /\ age[i] > resolveIdleTTL /\ resolveIdleTTL > 0
  BY DEF swept, sweepOnInsert
<1> HIDE DEF new, gone
<1>9. \A j \in Keys : (buckets[j] # NoId => buckets[j] \in Ids /\ InUse(buckets[j]))'
  BY <1>6 DEF LimitTypeOK, InUse, Live
<1>10. \A j \in Keys : j # k /\ buckets'[j] # NoId =>
         buckets'[j] = buckets[j] /\ buckets[j] # new /\ buckets[j] \in Ids
  BY <1>1, <1>2 DEF InUse, Live, LimitTypeOK
<1>11. IdealInv'
  <2>1. ASSUME NEW i \in Ids, InUse(i)' PROVE refilled(i)' >= ideal'[keyOf'[i]] /\ keyOf'[i] \in Keys
    BY <1>2, <1>3, <1>5, <1>7, <2>1, Config, SMTT(30) DEF IdealInv, LimitTypeOK
  <2>2. ASSUME NEW j \in Keys, buckets'[j] # NoId PROVE keyOf'[buckets'[j]] = j
    BY <1>2, <1>5, <1>9, <1>10, <2>2, SMTT(30) DEF IdealInv
  <2>3. ASSUME NEW j \in Keys, ~ loose'[j], buckets'[j] # NoId PROVE (refilled(buckets[j]))' = ideal'[j]
    <3>0. buckets'[j] \in Ids /\ InUse(buckets[j])' /\ ~ loose[j]
      BY <1>2, <1>9, <2>3
    <3>1. (refilled(buckets[j]))' = IF buckets'[j] = new THEN Full ELSE refilled(buckets'[j])
      BY <1>7, <3>0 DEF refilled
    <3>2. CASE j = k
      BY <1>2, <3>0, <3>1, <3>2 DEF IdealInv
    <3>3. CASE j # k
      BY <1>2, <1>10, <2>3, <3>0, <3>1, <3>3 DEF IdealInv
    <3> QED BY <3>2, <3>3
  <2>4. ASSUME NEW j \in Keys, ~ loose'[j], buckets'[j] = NoId PROVE ideal'[j] = Full
    <3>1. ~ loose[j] /\ j # k
      BY <1>1, <1>2, <2>4, LimiterAssumption
    <3>2. CASE buckets[j] = NoId
      BY <1>2, <3>1, <3>2 DEF IdealInv
    <3>3. CASE buckets[j] # NoId
      <4>1. buckets[j] \in Ids /\ refilled(buckets[j]) = ideal[j] /\ refilled(buckets[j]) \in 0..Full
        BY <3>1, <3>3, RefilledRange DEF IdealInv, LimitTypeOK
      <4>2. buckets[j] \in swept \/ buckets[j] \in evicted
        BY <1>2, <2>4, <3>1, <3>3 DEF gone
      <4>3. CASE buckets[j] \in swept
        <5>1. age[buckets[j]] >= Full \/ Full > maxTTL
          BY <1>8, <4>1, <4>3, Config, LimiterAssumption, SMTT(30) DEF LimitTypeOK
        <5>2. CASE age[buckets[j]] >= Full
          BY <1>2, <4>1, <5>2, RefilledRange
        <5>3. CASE Full > maxTTL
          <6>1. ~ (refilled(buckets[j]) < Full)
            BY Zenon, <1>2, <2>4, <4>3, <5>3
          <6> QED BY <1>2, <4>1, <6>1, Config, SMTT(30)
        <5> QED BY <5>1, <5>2, <5>3
      <4>4. CASE buckets[j] \in evicted
        <5>1. ~ (refilled(buckets[j]) < Full)
          BY Zenon, <1>2, <2>4, <4>4
        <5> QED BY <1>2, <4>1, <5>1, Config, SMTT(30)
      <4> QED BY <4>2, <4>3, <4>4
    <3> QED BY <3>2, <3>3
  <2>5. ASSUME NEW j \in Keys, ~ loose'[j], NEW i \in Ids, Held(i)', keyOf'[i] = j PROVE buckets'[j] = i
    <3>1. InUse(i)'
      BY <2>5 DEF InUse
    <3>2. CASE i = new
      BY <1>2, <1>5, <2>5, <3>1, <3>2
    <3>3. CASE i # new
      <4>1. Held(i) /\ keyOf[i] = j /\ ~ loose[j]
        BY <1>2, <1>4, <1>5, <2>5, <3>1, <3>3
      <4>2. buckets[j] = i
        BY <4>1 DEF IdealInv
      <4> QED BY <1>2, <2>5, <4>1, <4>2, LimiterAssumption DEF gone
    <3> QED BY <3>2, <3>3
  <2> QED BY <2>1, <2>2, <2>3, <2>4, <2>5 DEF IdealInv
<1> QED BY <1>6, <1>11

Elements(list) == {list[i] : i \in 1..Len(list)}
Distinct(list) == \A i, j \in 1..Len(list) : i # j => list[i] # list[j]

\* The first places of a list without repetitions hold as many elements.
LEMMA DistinctLength ==
  ASSUME NEW S, NEW list \in Seq(S), Distinct(list), NEW m \in Nat, m <= Len(list)
  PROVE  LET front == {list[i] : i \in 1..m}
         IN  IsFiniteSet(front) /\ front \in SUBSET Elements(list) /\ Cardinality(front) = m
<1> DEFINE front == {list[i] : i \in 1..m}
           f == [i \in 1..m |-> list[i]]
<1>1. \A i \in 1..m : i \in 1..Len(list)
  BY SMTT(30)
<1>2. f \in Bijection(1..m, front)
  <2>1. f \in Injection(1..m, front)
    BY <1>1 DEF Injection, IsInjective, Distinct
  <2>2. f \in Surjection(1..m, front)
    BY DEF Surjection
  <2> QED BY <2>1, <2>2 DEF Bijection
<1>3. ExistsBijection(1..m, front)
  BY <1>2 DEF ExistsBijection
<1>4. IsFiniteSet(1..m) /\ Cardinality(1..m) = m
  BY FS_Interval, SMTT(30)
<1>5. front \in SUBSET Elements(list)
  BY <1>1 DEF Elements
<1> QED BY <1>3, <1>4, <1>5, FS_Bijection

\* A new element at the end of a list without repetitions.
LEMMA Pushed ==
  ASSUME NEW S, NEW list \in Seq(S), Distinct(list), NEW x \in S, x \notin Elements(list)
  PROVE  /\ Append(list, x) \in Seq(S) /\ Distinct(Append(list, x))
         /\ Elements(Append(list, x)) = Elements(list) \cup {x}
         /\ Len(list) \in Nat /\ Len(Append(list, x)) = Len(list) + 1
<1> DEFINE longer == Append(list, x)
           m == Len(list) + 1
<1>1. /\ longer \in Seq(S) /\ Len(list) \in Nat /\ Len(longer) = m
      /\ \A i \in 1..Len(list) : longer[i] = list[i]
      /\ longer[m] = x
  BY SMTT(30)
<1>2. m \in 1..m /\ \A i \in 1..m : i \in 1..Len(list) \/ i = m
  BY <1>1, SMTT(30)
<1>3. \A i \in 1..Len(list) : i \in 1..m
  BY <1>1, SMTT(30)
<1> HIDE DEF m, longer
<1>4. Distinct(longer)
  <2>1. ASSUME NEW i \in 1..m, NEW j \in 1..m, longer[i] = longer[j] PROVE i = j
    <3>1. CASE i \in 1..Len(list) /\ j \in 1..Len(list)
      BY <1>1, <2>1, <3>1 DEF Distinct
    <3>2. CASE i \in 1..Len(list) /\ j = m
      BY <1>1, <2>1, <3>2 DEF Elements
    <3>3. CASE i = m /\ j \in 1..Len(list)
      BY <1>1, <2>1, <3>3 DEF Elements
    <3> QED BY <1>2, <3>1, <3>2, <3>3
  <2> QED BY <1>1, <2>1 DEF Distinct
<1>5. Elements(longer) = Elements(list) \cup {x}
  <2>1. ASSUME NEW y \in Elements(longer) PROVE y \in Elements(list) \/ y = x
    BY <1>1, <1>2 DEF Elements
  <2>2. ASSUME NEW y \in Elements(list) PROVE y \in Elements(longer)
    BY <1>1, <1>3 DEF Elements
  <2>3. x \in Elements(longer)
    BY <1>1, <1>2 DEF Elements
  <2> QED BY <2>1, <2>2, <2>3
<1> QED BY <1>1, <1>4, <1>5 DEF longer, m

\* What unlink leaves of a list without repetitions: the elements that stay, once each.
LEMMA Unlinked ==
  ASSUME NEW S, NEW list \in Seq(S), Distinct(list), NEW off
  PROVE  /\ unlink(list, off) \in Seq(S) /\ Distinct(unlink(list, off))
         /\ Elements(unlink(list, off)) = Elements(list) \ off
<1> DEFINE stay == {i \in 1..Len(list) : list[i] \notin off}
           upto(i) == {h \in stay : h <= i}
           n == Cardinality(stay)
           rank == [i \in stay |-> Cardinality(upto(i))]
           pos(j) == CHOOSE i \in stay : Cardinality(upto(i)) = j
           kept == [j \in 1..n |-> list[pos(j)]]
<1>1. unlink(list, off) = kept
  BY DEF unlink
<1>2. Len(list) \in Nat /\ \A i \in 1..Len(list) : list[i] \in S
  BY SMTT(30)
<1>3. stay \in SUBSET Int /\ IsFiniteSet(stay) /\ n \in Nat
  <2>1. IsFiniteSet(1..Len(list))
    BY <1>2, FS_Interval, SMTT(30)
  <2>2. stay \in SUBSET (1..Len(list)) /\ stay \in SUBSET Int
    BY <1>2, SMTT(30)
  <2>3. IsFiniteSet(stay)
    BY <2>1, <2>2, FS_Subset
  <2> QED BY <2>2, <2>3, FS_CardinalityType
<1> HIDE DEF stay
<1>4. ASSUME NEW i \in stay
      PROVE  /\ IsFiniteSet(upto(i)) /\ upto(i) \in SUBSET stay /\ i \in upto(i)
             /\ rank[i] \in 1..n
  <2>1. upto(i) \in SUBSET stay
    OBVIOUS
  <2>2. i \in upto(i)
    BY <1>3, SMTT(30)
  <2>3. IsFiniteSet(upto(i)) /\ Cardinality(upto(i)) <= n
    BY <1>3, <2>1, FS_Subset
  <2>4. Cardinality(upto(i)) \in Nat /\ Cardinality(upto(i)) # 0
    BY <2>2, <2>3, FS_CardinalityType, FS_EmptySet
  <2>5. Cardinality(upto(i)) \in 1..n
    BY <1>3, <2>3, <2>4, SMTT(30)
  <2> QED BY <2>1, <2>2, <2>3, <2>5
<1>5. ASSUME NEW i \in stay, NEW j \in stay, rank[i] = rank[j]
      PROVE  i = j
  <2>1. ASSUME NEW a \in stay, NEW b \in stay, a < b, rank[a] = rank[b]
        PROVE  FALSE
    <3>0. a \in Int /\ b \in Int /\ ~(b <= a) /\ \A h \in Int : h <= a => h <= b
      <4>1. a \in Int /\ b \in Int
        BY <1>3
      <4> QED BY <2>1, <4>1, SMTT(30)
    <3>1. upto(a) \in SUBSET upto(b) /\ b \notin upto(a)
      BY <1>3, <3>0
    <3>2. Cardinality(upto(a)) = Cardinality(upto(b)) /\ IsFiniteSet(upto(b)) /\ b \in upto(b)
      BY <1>4, <2>1
    <3>3. upto(b) = upto(a)
      BY <3>1, <3>2, FS_Subset
    <3> QED BY <3>1, <3>2, <3>3
  <2>2. i < j \/ j < i \/ i = j
    BY <1>3, SMTT(30)
  <2> QED BY <1>5, <2>1, <2>2
<1>6. ASSUME NEW j \in 1..n
      PROVE  pos(j) \in stay /\ rank[pos(j)] = j
  <2>1. rank \in Injection(stay, 1..n)
    BY <1>4, <1>5 DEF Injection, IsInjective
  <2>2. IsFiniteSet(1..n) /\ Cardinality(1..n) = n
    BY <1>3, FS_Interval, SMTT(30)
  <2>3. rank \in Surjection(stay, 1..n)
    BY <2>1, <2>2, FS_Injection
  <2>4. \E i \in stay : rank[i] = j
    BY <2>3 DEF Surjection
  <2>5. \E i \in stay : Cardinality(upto(i)) = j
    BY <2>4
  <2> QED BY <2>5
<1> HIDE DEF rank, pos, upto
<1>7. \A j \in 1..n : pos(j) \in 1..Len(list) /\ kept[j] = list[pos(j)] /\ kept[j] \notin off
  BY <1>6 DEF stay
<1>8. kept \in Seq(S) /\ Len(kept) = n
  <2>1. kept \in [1..n -> S]
    BY <1>2, <1>7
  <2> QED BY <1>3, <2>1, SMTT(30)
<1>9. Distinct(kept)
  <2>1. ASSUME NEW i \in 1..n, NEW j \in 1..n, kept[i] = kept[j] PROVE i = j
    <3>1. pos(i) = pos(j)
      BY <1>7, <2>1 DEF Distinct
    <3> QED BY <1>6, <3>1
  <2> QED BY <1>8, <2>1 DEF Distinct
<1>10. Elements(kept) = Elements(list) \ off
  <2>1. ASSUME NEW i \in 1..Len(list), list[i] \notin off
        PROVE  \E j \in 1..n : kept[j] = list[i]
    <3>1. i \in stay
      BY <2>1 DEF stay
    <3>2. rank[i] \in 1..n
      BY <1>4, <3>1
    <3>3. pos(rank[i]) = i
      BY <1>5, <1>6, <3>1, <3>2
    <3> QED BY <3>2, <3>3
  <2>2. Elements(kept) = {kept[j] : j \in 1..n}
    BY <1>8 DEF Elements
  <2>3. ASSUME NEW x \in Elements(kept) PROVE x \in Elements(list) /\ x \notin off
    BY <1>7, <2>2 DEF Elements
  <2>4. ASSUME NEW x \in Elements(list), x \notin off PROVE x \in Elements(kept)
    BY <2>1, <2>2, <2>4 DEF Elements
  <2> QED BY <2>3, <2>4
<1> QED BY <1>1, <1>8, <1>9, <1>10

\* The limiter's list is one of buckets, and Bounded holds of it.
ListInv == order \in Seq(Ids) /\ Bounded

LEMMA ListInit == LimitInit => ListInv
<1> SUFFICES ASSUME LimitInit PROVE ListInv
  OBVIOUS
<1>1. order = <<>> /\ order \in Seq(Ids) /\ Len(order) = 0 /\ 1..Len(order) = {}
  BY SMTT(30) DEF LimitInit
<1>2. Live = {}
  BY DEF LimitInit, Live
<1>3. maxBuckets > 0 => 0 <= maxBuckets
  BY LimiterAssumption, SMTT(30)
<1> QED BY <1>1, <1>2, <1>3 DEF ListInv, Bounded

\* Making room and inserting: the list keeps to its buckets and to the cap.
LEMMA ListInsert ==
  ASSUME LimitTypeOK, ListInv, NEW r \in Callers, NEW k \in Keys, Insert(r, k)
  PROVE  ListInv'
<1> DEFINE off == swept \cup evicted
           kept == unlink(order, swept)
           left == unlink(order, off)
           new == newBucket
<1>1. order \in Seq(Ids) /\ Distinct(order) /\ Elements(order) = Live
  BY DEF ListInv, Bounded, Distinct, Elements
<1>2. new \in Ids /\ new \notin Live
  BY DEF Insert, newBucket, InUse
<1>3. /\ kept \in Seq(Ids) /\ Distinct(kept) /\ Elements(kept) = Live \ swept
      /\ left \in Seq(Ids) /\ Distinct(left) /\ Elements(left) = Live \ off
  BY <1>1, Unlinked
<1>4. /\ order' = Append(left, new) /\ buckets[k] = NoId
      /\ buckets' = [j \in Keys |-> IF j = k THEN new
                                     ELSE IF buckets[j] \in off THEN NoId ELSE buckets[j]]
  BY DEF Insert, pushFront
<1>5. Live' = (Live \ off) \cup {new}
  <2>1. ASSUME NEW id \in Live' PROVE id = new \/ (id \in Live /\ id \notin off)
    BY <1>4 DEF Live
  <2>2. ASSUME NEW id \in Live, id \notin off PROVE id \in Live'
    <3>1. PICK j \in Keys : buckets[j] = id /\ id # NoId
      BY DEF Live
    <3>2. j # k /\ buckets'[j] = id
      BY <1>4, <2>2, <3>1
    <3> QED BY <3>1, <3>2 DEF Live
  <2>3. new \in Live'
    <3>1. buckets'[k] = new /\ new # NoId
      BY <1>2, <1>4, LimiterAssumption
    <3> QED BY <3>1 DEF Live
  <2> QED BY <2>1, <2>2, <2>3
<1> HIDE DEF off, kept, left, new
<1>6. /\ order' \in Seq(Ids) /\ Distinct(order') /\ Elements(order') = Live'
      /\ Len(left) \in Nat /\ Len(order') = Len(left) + 1
  <2>1. new \notin Elements(left)
    BY <1>2, <1>3
  <2> DEFINE longer == Append(left, new)
  <2>2. /\ longer \in Seq(Ids) /\ Distinct(longer) /\ Elements(longer) = Elements(left) \cup {new}
        /\ Len(left) \in Nat /\ Len(longer) = Len(left) + 1
    BY <1>2, <1>3, <2>1, Pushed
  <2>3. order' = longer /\ Live' = Elements(left) \cup {new}
    BY <1>3, <1>4, <1>5
  <2> HIDE DEF longer
  <2> QED BY <2>2, <2>3
<1>7. ASSUME maxBuckets > 0 PROVE Len(order') <= maxBuckets
  <2>1. Len(kept) \in Nat /\ maxBuckets \in Nat
    BY <1>3, LimiterAssumption, SMTT(30)
  <2>2. CASE ~ full(kept)
    <3>1. evicted = {}
      BY <2>2 DEF evicted, kept
    <3>2. off = swept
      BY <3>1 DEF off
    <3>3. left = kept
      BY <3>2 DEF left, kept
    <3>4. ~(Len(kept) >= maxBuckets)
      BY <1>7, <2>2 DEF full
    <3> QED BY <1>6, <2>1, <3>3, <3>4, SMTT(30)
  <2>3. CASE full(kept)
    <3> DEFINE m == Len(kept) - maxBuckets + 1
               front == {kept[i] : i \in 1..m}
    <3>1. Len(kept) >= maxBuckets
      BY <2>3 DEF full
    <3>2. m \in Nat /\ m <= Len(kept) /\ Len(kept) - m = maxBuckets - 1
      BY <1>7, <2>1, <3>1, SMTT(30)
    <3>3. evicted = front
      BY <2>3 DEF evicted, kept
    <3> HIDE DEF m, front
    <3>4. front \in SUBSET Elements(kept) /\ Cardinality(front) = m /\ IsFiniteSet(front)
      BY <1>3, <3>2, DistinctLength DEF front
    <3>5. Elements(left) = Elements(kept) \ front
      BY <1>3, <3>3 DEF off
    <3>6. /\ IsFiniteSet(Elements(kept)) /\ Cardinality(Elements(kept)) = Len(kept)
          /\ Cardinality(Elements(left)) = Len(left)
      <4>1. Len(kept) <= Len(kept) /\ Len(left) <= Len(left)
        BY <1>6, <2>1, SMTT(30)
      <4> QED BY <1>3, <1>6, <2>1, <4>1, DistinctLength DEF Elements
    <3>7. Elements(kept) \cap front = front
      BY <3>4
    <3>8. Cardinality(Elements(kept) \ front)
            = Cardinality(Elements(kept)) - Cardinality(Elements(kept) \cap front)
      BY <3>6, FS_Difference
    <3>9. Len(left) = Len(kept) - m
      BY <3>4, <3>5, <3>6, <3>7, <3>8
    <3> QED BY <1>6, <2>1, <3>2, <3>9, SMTT(30)
  <2> QED BY <2>2, <2>3
<1> QED BY <1>6, <1>7 DEF ListInv, Bounded, Elements, Distinct

LEMMA ListNext ==
  ASSUME LimitTypeOK, ListInv, [LimitNext]_limitVars
  PROVE  ListInv'
<1>1. ASSUME NEW r \in Callers, NEW k \in Keys, Insert(r, k) PROVE ListInv'
  BY <1>1, ListInsert
<1>2. CASE buckets' = buckets /\ order' = order
  BY <1>2 DEF ListInv, Bounded, Live
<1>3. \/ buckets' = buckets /\ order' = order
      \/ \E r \in Callers, k \in Keys : Insert(r, k)
  BY DEF LimitNext, LimitTick, Arrive, Lookup, allow, LimitReturn, limitVars
<1> QED BY <1>1, <1>2, <1>3

LEMMA LimitNextInv ==
  ASSUME LimitInv, [LimitNext]_limitVars
  PROVE  LimitInv'
<1>1. CASE LimitTick
  BY <1>1, TickInv
<1>2. ASSUME NEW r \in Callers, Arrive(r) PROVE LimitInv'
  BY <1>2, LookupInv, InsertInv DEF Arrive
<1>3. ASSUME NEW r \in Callers, allow(r) \/ LimitReturn(r) PROVE LimitInv'
  BY <1>3, AllowInv, ReturnInv
<1>4. CASE UNCHANGED limitVars
  <2>1. LimitTypeOK'
    BY <1>4 DEF limitVars, bucketVars, LimitInv, LimitTypeOK
  <2>2. IdealInv'
    BY <1>4, SMTT(30) DEF limitVars, bucketVars, LimitInv, IdealInv, InUse, Live, Held, refilled
  <2> QED BY <2>1, <2>2 DEF LimitInv
<1> QED BY <1>1, <1>2, <1>3, <1>4 DEF LimitNext

\* Every bucket in use has at least what a bucket that is never dropped has, and the same
\* while no bucket of its key was dropped in use; the map and the list of the limiter
\* agree, and neither grows past MaxBuckets: the inductive invariant.
THEOREM LimitInvariant == LimitSpec => [](LimitInv /\ ListInv)
<1>1. LimitInit => LimitInv /\ ListInv
  BY InitInv, ListInit
<1>2. LimitInv /\ ListInv /\ [LimitNext]_limitVars => (LimitInv /\ ListInv)'
  BY LimitNextInv, ListNext DEF LimitInv
<1> QED BY <1>1, <1>2, PTL DEF LimitSpec

\* A request is refused only when the ideal bucket of its key is short of a token, and
\* admitted, while no bucket of the key was dropped in use or before it was full, only
\* when it has one; a sweep drops a bucket before it is full only where the refill time
\* is over maxTTL (ratelimit.go, resolveIdleTTL and allow).
THEOREM LimiterIsExact == LimitSpec => LimiterExact
<1> DEFINE Exact == \A r \in Callers : lpc[r] = "allow" /\ lpc'[r] # "allow" =>
             LET k == keyOf[held[r]] IN
             /\ lpc'[r] = "refused" => ideal[k] < Cost
             /\ lpc'[r] = "admitted" => loose[k] \/ ideal[k] >= Cost
<1>1. ASSUME LimitInv, LimitNext PROVE Exact
  <2> SUFFICES ASSUME NEW r \in Callers, lpc[r] = "allow", lpc'[r] # "allow"
               PROVE  /\ lpc'[r] = "refused" => ideal[keyOf[held[r]]] < Cost
                      /\ lpc'[r] = "admitted" =>
                           loose[keyOf[held[r]]] \/ ideal[keyOf[held[r]]] >= Cost
    OBVIOUS
  <2>1. allow(r)
    <3>1. ~ LimitTick
      BY DEF LimitTick
    <3>2. ASSUME NEW q \in Callers, Arrive(q) \/ LimitReturn(q) \/ (allow(q) /\ q # r)
          PROVE  lpc'[r] = "allow"
      BY <1>1, <3>2 DEF Arrive, Lookup, Insert, LimitReturn, allow, LimitInv, LimitTypeOK
    <3> QED BY <1>1, <3>1, <3>2 DEF LimitNext
  <2>2. held[r] \in Ids /\ Held(held[r]) /\ keyOf[held[r]] \in Keys
    BY <1>1 DEF LimitInv, LimitTypeOK, IdealInv, Held, InUse
  <2>3. /\ refilled(held[r]) \in 0..Full /\ ideal[keyOf[held[r]]] \in 0..Full
        /\ refilled(held[r]) >= ideal[keyOf[held[r]]]
    BY <1>1, <2>2, RefilledRange DEF LimitInv, LimitTypeOK, IdealInv, InUse
  <2>4. ~ loose[keyOf[held[r]]] => refilled(held[r]) = ideal[keyOf[held[r]]]
    BY <1>1, <2>2, LimiterAssumption, SMTT(30) DEF LimitInv, IdealInv
  <2>5. lpc'[r] = IF refilled(held[r]) >= Cost THEN "admitted" ELSE "refused"
    BY <1>1, <2>1 DEF allow, LimitInv, LimitTypeOK
  <2> QED BY <2>3, <2>4, <2>5, Config, SMTT(30)
<1>2. LimitInv /\ [LimitNext]_limitVars => [Exact]_limitVars
  BY <1>1
<1> QED BY <1>2, LimitInvariant, PTL DEF LimitSpec, LimiterExact

-----------------------------------------------------------------------------
(* The metrics collector: what its invariant says *)

MetricKeys == Labels \cup {OverflowLabel} \cup {<<l[1]>> : l \in Labels \cup {OverflowLabel}}
Series == [age : Int, n : Nat]
MapsTo(V) == UNION {[K -> V] : K \in SUBSET MetricKeys}
Phases == {"idle", "handler", "load", "lookup", "rlock", "wlock", "touch", "add"}
Views == [Names -> MapsTo(BOOLEAN)]
Resolutions == [key : MetricKeys, alive : BOOLEAN]
Request == [pc : Phases, label : Labels \cup {OverflowLabel}, i : 1..Len(Stores), now : 0..MaxStall,
            view : Views, series : Resolutions, crossed : BOOLEAN]

MetricsTypeOK ==
  /\ live \in [Names -> MapsTo(Series)] /\ \A s \in Names : IsFiniteSet(DOMAIN live[s])
  /\ views \in Views /\ entries \in Nat /\ lastSweep \in 0..AgeLimit
  /\ active \in Int /\ req \in [Requests -> Request]
  /\ recorded \in [Names -> Nat] /\ forgotten \in [Names -> Nat] /\ lost \in [Names -> Nat]

\* What request q knows of the maps l.
Follows(q, l) ==
  /\ q.pc \in {"idle", "handler", "load"} => \A s \in Names : DOMAIN q.view[s] = {}
  /\ \A s \in Names : \A k \in DOMAIN q.view[s] :
       (q.view[s][k] => k \in DOMAIN l[s]) /\ (~ q.view[s][k] => q.crossed)
  /\ q.pc \in {"touch", "add"} =>
       /\ q.series.alive => q.series.key \in DOMAIN l[Stores[q.i]]
       /\ ~ q.series.alive => q.crossed
RequestInv == \A r \in Requests : Follows(req[r], live)

Inside == {r \in Requests : req[r].pc # "idle"}
GaugeInv == IsFiniteSet(Inside) /\ active = Cardinality(Inside)
SumsInv ==
  \A s \in Names : Values(live[s], DOMAIN live[s]) + forgotten[s] + lost[s] = recorded[s]

MetricsInv == MetricsTypeOK /\ SeriesBounded /\ RequestInv /\ GaugeInv /\ SumsInv

-----------------------------------------------------------------------------
(* Maps of series and what they add up to *)

LEMMA MetricsConfig ==
  /\ maxSeries \in Nat /\ seriesTTL \in Nat /\ eagerViewEntries \in Nat /\ MaxStall \in Nat
  /\ AgeLimit \in Nat /\ \A n \in 0..MaxStall : n \in 0..AgeLimit
  /\ Len(Stores) \in Nat /\ 1 \in 1..Len(Stores) /\ IsFiniteSet(Names)
  /\ \A i \in 1..Len(Stores) : Stores[i] \in Names
<1>1. /\ maxSeries \in Nat /\ seriesTTL \in Nat /\ eagerViewEntries \in Nat /\ MaxStall \in Nat
  BY MetricsAssumption
<1>2. Stores \in Seq(STRING) /\ Stores # <<>>
  BY MetricsAssumption
<1>3. Len(Stores) \in Nat /\ 1 \in 1..Len(Stores)
  BY <1>2, SMTT(30)
<1>4. AgeLimit \in Nat /\ \A n \in 0..MaxStall : n \in 0..AgeLimit
  BY <1>1, SMTT(30) DEF AgeLimit
<1>5. IsFiniteSet(Names)
  <2>1. IsFiniteSet(1..Len(Stores))
    BY <1>3, FS_Interval, SMTT(30)
  <2>2. [i \in 1..Len(Stores) |-> Stores[i]] \in Surjection(1..Len(Stores), Names)
    BY DEF Surjection, Names
  <2> QED BY <2>1, <2>2, FS_Surjection
<1> QED BY <1>1, <1>3, <1>4, <1>5 DEF Names

LEMMA MapMember ==
  ASSUME NEW V, NEW f
  PROVE  f \in MapsTo(V) <=> DOMAIN f \in SUBSET MetricKeys /\ f \in [DOMAIN f -> V]
BY DEF MapsTo

\* A map adds up to the sum of a part and of the rest.
LEMMA ValuesSplit ==
  ASSUME NEW f, IsFiniteSet(DOMAIN f), f \in [DOMAIN f -> Series], NEW K \in SUBSET DOMAIN f
  PROVE  /\ Values(f, DOMAIN f) \in Nat /\ Values(f, K) \in Nat /\ Values(f, DOMAIN f \ K) \in Nat
         /\ Values(f, DOMAIN f) = Values(f, K) + Values(f, DOMAIN f \ K)
<1> DEFINE D == DOMAIN f
           v == values(f)
<1>1. v \in [D -> Nat]
  BY DEF values, Series
<1>2. PICK max \in Nat : v \in [D -> 0..max]
  BY <1>1, Capped
<1>3. D \in SUBSET D /\ K \in SUBSET D /\ D \ K \in SUBSET D
  OBVIOUS
<1> HIDE DEF D, v
<1>4. Total(v, D) \in Nat /\ Total(v, K) \in Nat /\ Total(v, D \ K) \in Nat
  BY <1>2, <1>3, UnitsFinite DEF D
<1>5. Total(v, D) = Total(v, K) + Total(v, D \ K)
  BY <1>2, <1>3, TotalSplit, SMTT(30) DEF D
<1> QED BY <1>4, <1>5 DEF Values, D, v

\* Maps that show the same numbers under a set of keys.
LEMMA ValuesSame ==
  ASSUME NEW f, NEW h, NEW K, K \in SUBSET DOMAIN f, K \in SUBSET DOMAIN h,
         \A k \in K : h[k].n = f[k].n
  PROVE  Values(h, K) = Values(f, K)
<1>1. \A k \in K : values(h)[k] = values(f)[k]
  BY DEF values
<1> QED BY <1>1, TotalSame DEF Values

\* The sum of one series.
LEMMA ValuesOne ==
  ASSUME NEW f, NEW k \in DOMAIN f, f[k].n \in Nat
  PROVE  Values(f, {k}) = f[k].n
<1>1. values(f)[k] = f[k].n
  BY DEF values
<1> QED BY <1>1, TotalOne DEF Values

\* The entries of the maps, counted.
LEMMA SizeType ==
  ASSUME NEW l, \A s \in Names : IsFiniteSet(DOMAIN l[s])
  PROVE  IsFiniteSet(entriesOf(l)) /\ size(l) \in Nat
<1> DEFINE cell == [s \in Names |-> {s} \X DOMAIN l[s]]
           Cells == {{s} \X DOMAIN l[s] : s \in Names}
<1>1. \A s \in Names : IsFiniteSet({s} \X DOMAIN l[s])
  BY FS_Singleton, FS_Product
<1>2. cell \in Surjection(Names, Cells)
  BY DEF Surjection
<1>3. IsFiniteSet(Cells)
  BY <1>2, MetricsConfig, FS_Surjection
<1>4. IsFiniteSet(entriesOf(l))
  BY <1>1, <1>3, FS_UNION DEF entriesOf
<1> QED BY <1>4, FS_CardinalityType DEF size

LEMMA SizeGrows ==
  ASSUME NEW l, NEW m, \A s \in Names : IsFiniteSet(DOMAIN m[s]),
         \A s \in Names : DOMAIN l[s] \in SUBSET DOMAIN m[s]
  PROVE  size(l) <= size(m)
<1>1. entriesOf(l) \in SUBSET entriesOf(m)
  <2>1. ASSUME NEW e \in entriesOf(l) PROVE e \in entriesOf(m)
    <3>1. PICK s \in Names : e \in {s} \X DOMAIN l[s]
      BY DEF entriesOf
    <3>2. DOMAIN l[s] \in SUBSET DOMAIN m[s]
      BY <3>1
    <3>3. e \in {s} \X DOMAIN m[s]
      BY <3>1, <3>2
    <3> QED BY <3>1, <3>3 DEF entriesOf
  <2> QED BY <2>1
<1> QED BY <1>1, SizeType, FS_Subset DEF size

LEMMA SizeSame ==
  ASSUME NEW l, NEW m, \A s \in Names : DOMAIN l[s] = DOMAIN m[s]
  PROVE  size(l) = size(m)
<1>1. entriesOf(l) = entriesOf(m)
  BY DEF entriesOf
<1> QED BY <1>1 DEF size

-----------------------------------------------------------------------------
(* What a step leaves alone *)

SameKeys(l, m) == \A s \in Names : DOMAIN m[s] = DOMAIN l[s]

LEMMA FollowsSame ==
  ASSUME NEW q, NEW p, NEW l, NEW m, Follows(q, l), q.i \in 1..Len(Stores),
         p.pc = q.pc, p.view = q.view, p.series = q.series, p.crossed = q.crossed, p.i = q.i,
         SameKeys(l, m)
  PROVE  Follows(p, m)
BY MetricsConfig DEF Follows, SameKeys

LEMMA BoundedKept ==
  ASSUME SeriesBounded, SameKeys(live, live'), views' = views, entries' = entries,
         lastSweep' \in 0..AgeLimit
  PROVE  SeriesBounded'
<1>1. size(live') = size(live)
  BY SizeSame DEF SameKeys
<1> QED BY <1>1 DEF SeriesBounded, SameKeys

LEMMA SumsKept ==
  ASSUME SumsInv, SameKeys(live, live'), UNCHANGED history,
         \A s \in Names : \A k \in DOMAIN live[s] : live'[s][k].n = live[s][k].n
  PROVE  SumsInv'
<1>1. ASSUME NEW s \in Names
      PROVE  Values(live'[s], DOMAIN live'[s]) = Values(live[s], DOMAIN live[s])
  BY ValuesSame, SMTT(30) DEF SameKeys
<1> QED BY <1>1 DEF SumsInv, history

LEMMA OneMoves ==
  ASSUME RequestInv, NEW r \in Requests, req' \in [Requests -> Request],
         \A q \in Requests : q # r => req'[q] = req[q],
         SameKeys(live, live'), Follows(req'[r], live)
  PROVE  RequestInv'
<1>1. ASSUME NEW q \in Requests, Follows(req'[q], live) PROVE Follows(req'[q], live')
  <2>1. req'[q].i \in 1..Len(Stores)
    BY DEF Request
  <2> QED BY <1>1, <2>1, FollowsSame
<1>2. ASSUME NEW q \in Requests, q # r PROVE Follows(req'[q], live')
  BY <1>1, <1>2 DEF RequestInv
<1>3. Follows(req'[r], live')
  BY <1>1
<1> QED BY <1>2, <1>3 DEF RequestInv

LEMMA GaugeKept ==
  ASSUME GaugeInv, active' = active,
         \A q \in Requests : req'[q].pc = "idle" <=> req[q].pc = "idle"
  PROVE  GaugeInv'
<1>1. Inside' = Inside
  BY DEF Inside
<1> QED BY <1>1 DEF GaugeInv

LEMMA GaugeMore ==
  ASSUME GaugeInv, NEW r \in Requests, req[r].pc = "idle", req'[r].pc # "idle",
         active' = active + 1, \A q \in Requests : q # r => req'[q] = req[q]
  PROVE  GaugeInv'
<1>1. Inside' = Inside \cup {r} /\ r \notin Inside
  BY DEF Inside
<1>2. IsFiniteSet(Inside \cup {r}) /\ Cardinality(Inside \cup {r}) = Cardinality(Inside) + 1
  BY <1>1, FS_AddElement DEF GaugeInv
<1> QED BY <1>1, <1>2 DEF GaugeInv

LEMMA GaugeLess ==
  ASSUME GaugeInv, NEW r \in Requests, req[r].pc # "idle", req'[r].pc = "idle",
         active' = active - 1, \A q \in Requests : q # r => req'[q] = req[q]
  PROVE  GaugeInv'
<1>1. Inside' = Inside \ {r} /\ r \in Inside
  BY DEF Inside
<1>2. IsFiniteSet(Inside \ {r}) /\ Cardinality(Inside \ {r}) = Cardinality(Inside) - 1
  BY <1>1, FS_RemoveElement DEF GaugeInv
<1> QED BY <1>1, <1>2 DEF GaugeInv

LEMMA MapsUntouched ==
  ASSUME MetricsInv, UNCHANGED <<maps, history>>
  PROVE  /\ SeriesBounded' /\ SumsInv' /\ SameKeys(live, live')
         /\ active' \in Int /\ req' \in [Requests -> Request] => MetricsTypeOK'
<1>1. /\ live' = live /\ views' = views /\ entries' = entries /\ lastSweep' = lastSweep
      /\ recorded' = recorded /\ forgotten' = forgotten /\ lost' = lost
  BY DEF maps, history
<1>2. SeriesBounded'
  BY <1>1 DEF MetricsInv, SeriesBounded
<1>3. SumsInv' /\ SameKeys(live, live')
  BY <1>1 DEF MetricsInv, SumsInv, SameKeys
<1>4. active' \in Int /\ req' \in [Requests -> Request] => MetricsTypeOK'
  BY <1>1 DEF MetricsInv, MetricsTypeOK
<1> QED BY <1>2, <1>3, <1>4

-----------------------------------------------------------------------------
(* The steps of a request that leave the maps alone *)

\* The fields of a request that moves on to p.
LEMMA RequestMoved ==
  ASSUME NEW q \in Request, NEW p \in Phases
  PROVE  LET x == [q EXCEPT !.pc = p] IN
         /\ x \in Request /\ x.pc = p /\ x.label = q.label /\ x.i = q.i /\ x.now = q.now
         /\ x.view = q.view /\ x.series = q.series /\ x.crossed = q.crossed
BY DEF Request

LEMMA IdleType ==
  /\ Idle \in Request /\ Idle.pc = "idle" /\ \A s \in Names : DOMAIN Idle.view[s] = {}
  /\ \A l : Follows(Idle, l)
<1>1. Empty \in Views /\ \A s \in Names : DOMAIN Empty[s] = {}
  BY MapMember DEF Empty, Views
<1>2. NoSeries \in Resolutions
  BY DEF NoSeries, Resolutions, MetricKeys
<1>3. 0 \in 0..MaxStall /\ 1 \in 1..Len(Stores)
  BY MetricsConfig, SMTT(30)
<1>4. Idle \in Request /\ Idle.pc = "idle" /\ Idle.view = Empty
  BY <1>1, <1>2, <1>3, SMTT(30) DEF Idle, Request, Phases
<1> QED BY <1>1, <1>4 DEF Follows

\* A request that only moves on, from lookup to add at the most.
LEMMA MovesOn ==
  ASSUME MetricsInv, NEW r \in Requests, NEW p \in Phases \ {"touch", "add"},
         p # "idle", req[r].pc # "idle", UNCHANGED <<maps, active, history>>,
         p \in {"handler", "load"} => req[r].pc \in {"handler", "load"},
         req' = [req EXCEPT ![r].pc = p]
  PROVE  MetricsInv'
<1>1. req \in [Requests -> Request] /\ Follows(req[r], live) /\ active \in Int
  BY DEF MetricsInv, MetricsTypeOK, RequestInv
<1> DEFINE x == [req[r] EXCEPT !.pc = p]
<1>2. /\ req' \in [Requests -> Request] /\ \A q \in Requests : q # r => req'[q] = req[q]
      /\ req'[r] = x /\ x.pc = p /\ x.view = req[r].view /\ x.crossed = req[r].crossed
  BY <1>1, RequestMoved
<1> HIDE DEF x
<1>3. Follows(req'[r], live)
  BY <1>1, <1>2 DEF Follows
<1>4. UNCHANGED <<maps, history>> /\ active' = active
  OBVIOUS
<1>5. RequestInv'
  BY <1>2, <1>3, <1>4, MapsUntouched, OneMoves DEF MetricsInv
<1>6. GaugeInv'
  BY <1>2, <1>4, GaugeKept DEF MetricsInv
<1> QED BY <1>1, <1>2, <1>4, <1>5, <1>6, MapsUntouched DEF MetricsInv

LEMMA BeginStep ==
  ASSUME MetricsInv, NEW r \in Requests, NEW l \in Labels, Begin(r, l)
  PROVE  MetricsInv'
<1>1. req \in [Requests -> Request] /\ Follows(req[r], live) /\ active \in Int
  BY DEF MetricsInv, MetricsTypeOK, RequestInv
<1> DEFINE x == [req[r] EXCEPT !.pc = "handler", !.label = l]
<1>2. x \in Request /\ x.pc = "handler" /\ x.view = req[r].view
  <2>1. req[r] \in Request /\ "handler" \in Phases /\ l \in Labels \cup {OverflowLabel}
    BY <1>1 DEF Phases
  <2> QED BY <2>1 DEF Request
<1>3. req' \in [Requests -> Request] /\ req'[r] = x /\ \A q \in Requests : q # r => req'[q] = req[q]
  BY <1>1, <1>2 DEF Begin
<1>4. req[r].pc = "idle" /\ active' = active + 1 /\ UNCHANGED <<maps, history>>
  BY DEF Begin
<1> HIDE DEF x
<1>5. Follows(req'[r], live)
  BY <1>1, <1>2, <1>3, <1>4 DEF Follows
<1>6. RequestInv'
  BY <1>3, <1>4, <1>5, MapsUntouched, OneMoves DEF MetricsInv
<1>7. GaugeInv'
  BY <1>2, <1>3, <1>4, GaugeMore DEF MetricsInv
<1>8. active' \in Int
  BY <1>1, <1>4, SMTT(30)
<1> QED BY <1>3, <1>4, <1>6, <1>7, <1>8, MapsUntouched DEF MetricsInv

\* A request that is over.
LEMMA Leaves ==
  ASSUME MetricsInv, NEW r \in Requests, req[r].pc # "idle", req' = [req EXCEPT ![r] = Idle],
         active' = active - 1, SameKeys(live, live')
  PROVE  RequestInv' /\ GaugeInv' /\ active' \in Int /\ req' \in [Requests -> Request]
<1>1. req \in [Requests -> Request] /\ active \in Int
  BY DEF MetricsInv, MetricsTypeOK
<1>2. /\ req' \in [Requests -> Request] /\ req'[r] = Idle
      /\ \A q \in Requests : q # r => req'[q] = req[q]
  BY <1>1, IdleType
<1>3. Follows(req'[r], live) /\ req'[r].pc = "idle"
  BY <1>2, IdleType
<1>4. RequestInv'
  BY <1>2, <1>3, OneMoves DEF MetricsInv
<1>5. GaugeInv'
  BY <1>2, <1>3, GaugeLess DEF MetricsInv
<1>6. active' \in Int
  BY <1>1, SMTT(30)
<1> QED BY <1>2, <1>4, <1>5, <1>6

\* A request that goes on to its next store.
LEMMA GoesOn ==
  ASSUME MetricsInv, NEW r \in Requests, req[r].pc \in {"lookup", "add"}, req[r].i < Len(Stores),
         req' = [req EXCEPT ![r].pc = "lookup", ![r].i = @ + 1, ![r].series = NoSeries],
         active' = active, SameKeys(live, live')
  PROVE  RequestInv' /\ GaugeInv' /\ active' \in Int /\ req' \in [Requests -> Request]
<1>1. /\ req \in [Requests -> Request] /\ active \in Int /\ Follows(req[r], live)
      /\ req[r].i \in 1..Len(Stores)
  BY DEF MetricsInv, MetricsTypeOK, RequestInv, Request
<1> DEFINE x == [req[r] EXCEPT !.pc = "lookup", !.i = @ + 1, !.series = NoSeries]
<1>2. req[r].i + 1 \in 1..Len(Stores) /\ NoSeries \in Resolutions
  <2>1. req[r].i + 1 \in 1..Len(Stores)
    BY <1>1, MetricsConfig, SMTT(30)
  <2> QED BY <2>1 DEF NoSeries, Resolutions, MetricKeys
<1>3. /\ x \in Request /\ x.pc = "lookup" /\ x.view = req[r].view /\ x.crossed = req[r].crossed
  <2>1. req[r] \in Request /\ "lookup" \in Phases
    BY <1>1 DEF Phases
  <2> QED BY <1>2, <2>1 DEF Request
<1>4. req' \in [Requests -> Request] /\ req'[r] = x /\ \A q \in Requests : q # r => req'[q] = req[q]
  BY <1>1, <1>3
<1> HIDE DEF x
<1>5. Follows(req'[r], live)
  BY <1>1, <1>3, <1>4 DEF Follows
<1>6. RequestInv'
  BY <1>4, <1>5, OneMoves DEF MetricsInv
<1>7. GaugeInv'
  BY <1>3, <1>4, GaugeKept DEF MetricsInv
<1> QED BY <1>1, <1>4, <1>6, <1>7

LEMMA NextStoreStep ==
  ASSUME MetricsInv, NEW r \in Requests, req[r].pc \in {"lookup", "add"}, NextStore(r),
         SameKeys(live, live')
  PROVE  RequestInv' /\ GaugeInv' /\ active' \in Int /\ req' \in [Requests -> Request]
<1>1. CASE req[r].i < Len(Stores)
  BY <1>1, GoesOn DEF NextStore
<1>2. CASE ~(req[r].i < Len(Stores))
  BY <1>2, Leaves DEF NextStore
<1> QED BY <1>1, <1>2

LEMMA QuietSteps ==
  ASSUME MetricsInv, NEW r \in Requests, Panic(r) \/ Returned(r) \/ NoBody(r)
  PROVE  MetricsInv'
<1>1. CASE Panic(r)
  <2>1. /\ req[r].pc # "idle" /\ req' = [req EXCEPT ![r] = Idle] /\ active' = active - 1
        /\ UNCHANGED <<maps, history>>
    BY <1>1 DEF Panic
  <2> QED BY <2>1, MapsUntouched, Leaves DEF MetricsInv
<1>2. CASE Returned(r)
  BY <1>2, MovesOn DEF Returned, Phases
<1>3. CASE NoBody(r)
  <2>1. req[r].pc \in {"lookup", "add"} /\ NextStore(r) /\ UNCHANGED <<maps, history>>
    BY <1>3 DEF NoBody
  <2> QED BY <2>1, MapsUntouched, NextStoreStep DEF MetricsInv
<1> QED BY <1>1, <1>2, <1>3

\* Every entry of the published view is of a live series.
LEMMA LoadStep ==
  ASSUME MetricsInv, NEW r \in Requests, Load(r)
  PROVE  MetricsInv'
<1>1. req \in [Requests -> Request] /\ Follows(req[r], live) /\ active \in Int /\ views \in Views
  BY DEF MetricsInv, MetricsTypeOK, RequestInv
<1> DEFINE x == [req[r] EXCEPT !.pc = "lookup", !.view = views]
<1>2. x \in Request /\ x.pc = "lookup" /\ x.view = views
  <2>1. req[r] \in Request /\ "lookup" \in Phases
    BY <1>1 DEF Phases
  <2> QED BY <1>1, <2>1 DEF Request
<1>3. req' \in [Requests -> Request] /\ req'[r] = x /\ \A q \in Requests : q # r => req'[q] = req[q]
  BY <1>1, <1>2 DEF Load
<1>4. req[r].pc = "load" /\ active' = active /\ UNCHANGED <<maps, history>>
  BY DEF Load
<1> HIDE DEF x
<1>5. Follows(req'[r], live)
  BY <1>2, <1>3 DEF Follows, MetricsInv, SeriesBounded
<1>6. RequestInv'
  BY <1>3, <1>4, <1>5, MapsUntouched, OneMoves DEF MetricsInv
<1>7. GaugeInv'
  BY <1>2, <1>3, <1>4, GaugeKept DEF MetricsInv
<1> QED BY <1>1, <1>3, <1>4, <1>6, <1>7, MapsUntouched DEF MetricsInv

\* A request that has resolved its series under key k.
LEMMA ResolvedStep ==
  ASSUME MetricsInv, NEW r \in Requests, NEW k \in MetricKeys, NEW alive \in BOOLEAN,
         req[r].pc \in {"lookup", "rlock"}, Resolved(r, k, alive, "touch"),
         UNCHANGED <<maps, active, history>>,
         alive => k \in DOMAIN live[store(r)], ~ alive => req[r].crossed
  PROVE  MetricsInv'
<1>1. req \in [Requests -> Request] /\ Follows(req[r], live) /\ active \in Int
  BY DEF MetricsInv, MetricsTypeOK, RequestInv
<1> DEFINE z == [key |-> k, alive |-> alive]
           x == [req[r] EXCEPT !.series = z, !.pc = "touch"]
<1>2. z \in Resolutions /\ z.key = k /\ z.alive = alive
  BY DEF Resolutions
<1> HIDE DEF z
<1>3. /\ x \in Request /\ x.pc = "touch" /\ x.view = req[r].view /\ x.crossed = req[r].crossed
      /\ x.series = z /\ x.i = req[r].i
  <2>1. req[r] \in Request /\ "touch" \in Phases
    BY <1>1 DEF Phases
  <2> QED BY <1>2, <2>1 DEF Request
<1>4. req' \in [Requests -> Request] /\ req'[r] = x /\ \A q \in Requests : q # r => req'[q] = req[q]
  BY <1>1, <1>3 DEF Resolved, z
<1> HIDE DEF x
<1>5. Follows(req'[r], live)
  BY <1>1, <1>2, <1>3, <1>4 DEF Follows, store
<1>6. UNCHANGED <<maps, history>> /\ active' = active
  OBVIOUS
<1>7. RequestInv'
  BY <1>4, <1>5, <1>6, MapsUntouched, OneMoves DEF MetricsInv
<1>8. GaugeInv'
  BY <1>3, <1>4, <1>6, GaugeKept DEF MetricsInv
<1> QED BY <1>1, <1>4, <1>6, <1>7, <1>8, MapsUntouched DEF MetricsInv

\* lookupSeries in the view, and series under the read lock.
LEMMA LookupStep ==
  ASSUME MetricsInv, NEW r \in Requests, lookupSeries(r) \/ seriesRead(r)
  PROVE  MetricsInv'
<1>1. /\ req[r] \in Request /\ store(r) \in Names /\ Follows(req[r], live)
      /\ live[store(r)] \in MapsTo(Series) /\ req[r].view[store(r)] \in MapsTo(BOOLEAN)
  <2>1. req[r] \in Request /\ Follows(req[r], live)
    BY DEF MetricsInv, MetricsTypeOK, RequestInv
  <2>2. req[r].view \in Views /\ store(r) \in Names
    BY <2>1, MetricsConfig DEF Request, store
  <2> QED BY <2>1, <2>2 DEF Views, MetricsInv, MetricsTypeOK
<1>2. \A K : \A k \in found(K, r) : k \in K
  BY DEF found
<1>3. CASE lookupSeries(r)
  <2> DEFINE v == req[r].view[store(r)]
             hit == found(DOMAIN v, r)
  <2>1. req[r].pc = "lookup" /\ UNCHANGED <<maps, active, history>>
    BY <1>3 DEF lookupSeries
  <2>2. (\E k \in hit : Resolved(r, k, v[k], "touch")) \/ req' = [req EXCEPT ![r].pc = "rlock"]
    BY <1>3 DEF lookupSeries
  <2>3. ASSUME NEW k \in hit, Resolved(r, k, v[k], "touch") PROVE MetricsInv'
    <3>1. k \in DOMAIN v
      BY <1>2
    <3>2. k \in MetricKeys /\ v[k] \in BOOLEAN
      BY <1>1, <3>1, MapMember
    <3>3. (v[k] => k \in DOMAIN live[store(r)]) /\ (~ v[k] => req[r].crossed)
      BY <1>1, <3>1 DEF Follows
    <3> QED BY <2>1, <2>3, <3>2, <3>3, ResolvedStep
  <2>4. CASE req' = [req EXCEPT ![r].pc = "rlock"]
    BY <2>1, <2>4, MovesOn DEF Phases
  <2> QED BY <2>2, <2>3, <2>4
<1>4. CASE seriesRead(r)
  <2> DEFINE hit == found(DOMAIN live[store(r)], r)
  <2>1. req[r].pc = "rlock" /\ UNCHANGED <<maps, active, history>>
    BY <1>4 DEF seriesRead
  <2>2. (\E k \in hit : Resolved(r, k, TRUE, "touch")) \/ req' = [req EXCEPT ![r].pc = "wlock"]
    BY <1>4 DEF seriesRead
  <2>3. ASSUME NEW k \in hit, Resolved(r, k, TRUE, "touch") PROVE MetricsInv'
    <3>1. k \in DOMAIN live[store(r)]
      BY <1>2
    <3>2. k \in MetricKeys
      BY <1>1, <3>1, MapMember
    <3> QED BY <2>1, <2>3, <3>1, <3>2, ResolvedStep
  <2>4. CASE req' = [req EXCEPT ![r].pc = "wlock"]
    BY <2>1, <2>4, MovesOn DEF Phases
  <2> QED BY <2>2, <2>3, <2>4
<1> QED BY <1>3, <1>4

-----------------------------------------------------------------------------
(* Ages and numbers of series *)

\* An entry of the maps gets another age or number.
LEMMA EntryChanged ==
  ASSUME MetricsTypeOK, NEW s \in Names, NEW k \in DOMAIN live[s], NEW x \in Series,
         live' = [live EXCEPT ![s] = [@ EXCEPT ![k] = x]]
  PROVE  /\ live' \in [Names -> MapsTo(Series)] /\ SameKeys(live, live')
         /\ \A t \in Names : IsFiniteSet(DOMAIN live'[t])
         /\ live'[s][k] = x /\ \A j \in DOMAIN live[s] : j # k => live'[s][j] = live[s][j]
         /\ \A t \in Names : t # s => live'[t] = live[t]
<1> DEFINE f == live[s]
           h == [f EXCEPT ![k] = x]
<1>1. /\ live \in [Names -> MapsTo(Series)] /\ DOMAIN f \in SUBSET MetricKeys
      /\ f \in [DOMAIN f -> Series] /\ \A t \in Names : IsFiniteSet(DOMAIN live[t])
  BY MapMember DEF MetricsTypeOK
<1>2. /\ DOMAIN h = DOMAIN f /\ h \in [DOMAIN f -> Series] /\ h[k] = x
      /\ \A j \in DOMAIN f : j # k => h[j] = f[j]
  BY <1>1
<1>3. h \in MapsTo(Series)
  BY <1>1, <1>2, MapMember
<1>4. live'[s] = h /\ \A t \in Names : t # s => live'[t] = live[t]
  BY <1>1
<1>5. live' \in [Names -> MapsTo(Series)]
  BY <1>1, <1>3
<1> HIDE DEF h
<1>6. SameKeys(live, live')
  BY <1>2, <1>4 DEF SameKeys
<1> QED BY <1>1, <1>2, <1>4, <1>5, <1>6 DEF SameKeys

LEMMA AgeSet ==
  ASSUME MetricsTypeOK, NEW s \in Names, NEW k \in DOMAIN live[s], NEW a \in Int,
         live' = [live EXCEPT ![s][k].age = a]
  PROVE  /\ live' \in [Names -> MapsTo(Series)] /\ SameKeys(live, live')
         /\ \A t \in Names : IsFiniteSet(DOMAIN live'[t])
         /\ \A t \in Names : \A j \in DOMAIN live[t] : live'[t][j].n = live[t][j].n
<1> DEFINE x == [live[s][k] EXCEPT !.age = a]
<1>1. live[s][k] \in Series
  BY MapMember DEF MetricsTypeOK
<1>2. x \in Series /\ x.n = live[s][k].n
  BY <1>1 DEF Series
<1>3. live' = [live EXCEPT ![s] = [@ EXCEPT ![k] = x]]
  OBVIOUS
<1> HIDE DEF x
<1>4. /\ live' \in [Names -> MapsTo(Series)] /\ SameKeys(live, live')
      /\ \A t \in Names : IsFiniteSet(DOMAIN live'[t])
      /\ live'[s][k] = x /\ \A j \in DOMAIN live[s] : j # k => live'[s][j] = live[s][j]
      /\ \A t \in Names : t # s => live'[t] = live[t]
  BY <1>2, <1>3, EntryChanged
<1>5. ASSUME NEW t \in Names, NEW j \in DOMAIN live[t] PROVE live'[t][j].n = live[t][j].n
  BY <1>2, <1>4
<1> QED BY <1>4, <1>5

\* Time passes: ages grow, keys and numbers stay.
LEMMA TickStep ==
  ASSUME MetricsInv, MetricsTick
  PROVE  MetricsInv'
<1>1. /\ live \in [Names -> MapsTo(Series)] /\ lastSweep \in 0..AgeLimit
      /\ req \in [Requests -> Request] /\ \A s \in Names : IsFiniteSet(DOMAIN live[s])
  BY DEF MetricsInv, MetricsTypeOK
<1>2. \A a \in Int : older(a) \in Int /\ (a \in 0..AgeLimit => older(a) \in 0..AgeLimit)
  BY MetricsConfig, SMTT(30) DEF older
<1>3. ASSUME NEW s \in Names
      PROVE  /\ DOMAIN live'[s] = DOMAIN live[s] /\ live'[s] \in MapsTo(Series)
             /\ \A k \in DOMAIN live[s] : live'[s][k].n = live[s][k].n
  <2>1. live'[s] = [k \in DOMAIN live[s] |-> [live[s][k] EXCEPT !.age = older(@)]]
    BY DEF MetricsTick
  <2>2. DOMAIN live[s] \in SUBSET MetricKeys /\ \A k \in DOMAIN live[s] : live[s][k] \in Series
    BY <1>1, MapMember
  <2>3. ASSUME NEW x \in Series
        PROVE  [x EXCEPT !.age = older(@)] \in Series /\ [x EXCEPT !.age = older(@)].n = x.n
    BY <1>2 DEF Series
  <2>4. DOMAIN live'[s] = DOMAIN live[s]
    BY <2>1
  <2>5. \A k \in DOMAIN live[s] : live'[s][k] \in Series /\ live'[s][k].n = live[s][k].n
    BY <2>1, <2>2, <2>3
  <2>6. live'[s] \in [DOMAIN live[s] -> Series]
    BY <2>1, <2>5
  <2> QED BY <2>2, <2>4, <2>5, <2>6, MapMember
<1>4. SameKeys(live, live')
  BY <1>3 DEF SameKeys
<1>5. live' \in [Names -> MapsTo(Series)] /\ \A s \in Names : IsFiniteSet(DOMAIN live'[s])
  <2>1. live' = [s \in Names |-> live'[s]]
    BY DEF MetricsTick
  <2> QED BY <1>1, <1>3, <2>1
<1>6. lastSweep' \in 0..AgeLimit
  <2>1. lastSweep \in Int
    BY <1>1, SMTT(30)
  <2> QED BY <1>1, <1>2, <2>1 DEF MetricsTick
<1>7. ASSUME NEW q \in Requests
      PROVE  /\ req'[q] \in Request /\ req'[q].pc = req[q].pc /\ req'[q].view = req[q].view
             /\ req'[q].series = req[q].series /\ req'[q].crossed = req[q].crossed
             /\ req'[q].i = req[q].i
  <2>1. req'[q] = IF Timed(q) THEN [req[q] EXCEPT !.now = @ + 1] ELSE req[q]
    BY DEF MetricsTick
  <2>2. req[q] \in Request /\ req[q].now \in 0..MaxStall
    BY <1>1 DEF Request
  <2>3. CASE Timed(q)
    <3>1. req[q].now + 1 \in 0..MaxStall
      <4>1. req[q].now < MaxStall
        BY <2>3 DEF MetricsTick
      <4> QED BY <2>2, <4>1, MetricsConfig, SMTT(30)
    <3> QED BY <2>1, <2>2, <2>3, <3>1 DEF Request
  <2>4. CASE ~ Timed(q)
    BY <2>1, <2>2, <2>4
  <2> QED BY <2>3, <2>4
<1>8. RequestInv'
  <2>1. ASSUME NEW q \in Requests PROVE Follows(req'[q], live')
    <3>1. Follows(req[q], live) /\ req[q].i \in 1..Len(Stores)
      BY <1>1 DEF MetricsInv, RequestInv, Request
    <3> QED BY <1>4, <1>7, <3>1, FollowsSame
  <2> QED BY <2>1 DEF RequestInv
<1>9. /\ views' = views /\ entries' = entries /\ active' = active /\ UNCHANGED history
      /\ recorded' = recorded /\ forgotten' = forgotten /\ lost' = lost
  BY DEF MetricsTick, history
<1>10. GaugeInv'
  BY <1>7, <1>9, GaugeKept DEF MetricsInv
<1>11. SeriesBounded' /\ SumsInv'
  BY <1>3, <1>4, <1>6, <1>9, BoundedKept, SumsKept DEF MetricsInv
<1>12. req' \in [Requests -> Request]
  <2>1. req' = [q \in Requests |-> req'[q]]
    BY DEF MetricsTick
  <2> QED BY <1>7, <2>1
<1>13. MetricsTypeOK'
  BY <1>5, <1>6, <1>9, <1>12 DEF MetricsInv, MetricsTypeOK
<1> QED BY <1>8, <1>10, <1>11, <1>13 DEF MetricsInv

\* What is known of the series a request has in hand.
LEMMA InHand ==
  ASSUME MetricsInv, NEW r \in Requests
  PROVE  /\ req \in [Requests -> Request] /\ req[r] \in Request /\ Follows(req[r], live)
         /\ store(r) \in Names /\ key(r) \in MetricKeys /\ active \in Int
         /\ req[r].now \in 0..MaxStall /\ req[r].now \in Int /\ req[r].series \in Resolutions
         /\ live[store(r)] \in [DOMAIN live[store(r)] -> Series]
         /\ req[r].pc \in {"touch", "add"} /\ req[r].series.alive =>
              req[r].series.key \in DOMAIN live[store(r)]
<1>1. /\ req \in [Requests -> Request] /\ req[r] \in Request /\ Follows(req[r], live)
      /\ active \in Int
  BY DEF MetricsInv, MetricsTypeOK, RequestInv
<1>2. /\ store(r) \in Names /\ req[r].now \in 0..MaxStall /\ req[r].series \in Resolutions
      /\ req[r].label \in Labels \cup {OverflowLabel}
  BY <1>1, MetricsConfig DEF Request, store
<1>3. req[r].now \in Int
  BY <1>2, SMTT(30)
<1>4. key(r) \in MetricKeys
  BY <1>2 DEF key, MetricKeys
<1>5. live[store(r)] \in [DOMAIN live[store(r)] -> Series]
  BY <1>2, MapMember DEF MetricsInv, MetricsTypeOK
<1> QED BY <1>1, <1>2, <1>3, <1>4, <1>5 DEF Follows, store

LEMMA TouchStep ==
  ASSUME MetricsInv, NEW r \in Requests, touch(r)
  PROVE  MetricsInv'
<1>1. /\ req[r].pc = "touch" /\ req' = [req EXCEPT ![r].pc = "add"]
      /\ views' = views /\ entries' = entries /\ lastSweep' = lastSweep /\ active' = active
      /\ UNCHANGED history /\ recorded' = recorded /\ forgotten' = forgotten /\ lost' = lost
  BY DEF touch, history
<1>2. /\ live' \in [Names -> MapsTo(Series)] /\ SameKeys(live, live')
      /\ \A t \in Names : IsFiniteSet(DOMAIN live'[t])
      /\ \A t \in Names : \A j \in DOMAIN live[t] : live'[t][j].n = live[t][j].n
  <2>1. CASE seriesTTL > 0 /\ req[r].series.alive
    <3>1. live' = [live EXCEPT ![store(r)][req[r].series.key].age = req[r].now]
      BY <2>1 DEF touch
    <3>2. /\ store(r) \in Names /\ req[r].series.key \in DOMAIN live[store(r)]
          /\ req[r].now \in Int
      BY <1>1, <2>1, InHand
    <3> QED BY <3>1, <3>2, AgeSet DEF MetricsInv
  <2>2. CASE ~(seriesTTL > 0 /\ req[r].series.alive)
    <3>1. live' = live
      BY <2>2 DEF touch
    <3> QED BY <3>1 DEF MetricsInv, MetricsTypeOK, SameKeys
  <2> QED BY <2>1, <2>2
<1> DEFINE x == [req[r] EXCEPT !.pc = "add"]
<1>3. /\ x \in Request /\ x.pc = "add" /\ x.view = req[r].view /\ x.crossed = req[r].crossed
      /\ x.series = req[r].series /\ x.i = req[r].i
  <2>1. req[r] \in Request /\ "add" \in Phases
    BY InHand DEF Phases
  <2> QED BY <2>1 DEF Request
<1>4. req' \in [Requests -> Request] /\ req'[r] = x /\ \A q \in Requests : q # r => req'[q] = req[q]
  BY <1>1, <1>3, InHand
<1> HIDE DEF x
<1>5. Follows(req'[r], live)
  BY <1>1, <1>3, <1>4, InHand DEF Follows
<1>6. RequestInv'
  BY <1>2, <1>4, <1>5, OneMoves DEF MetricsInv
<1>7. GaugeInv'
  BY <1>1, <1>3, <1>4, GaugeKept DEF MetricsInv
<1>8. lastSweep' \in 0..AgeLimit
  BY <1>1 DEF MetricsInv, MetricsTypeOK
<1>9. SeriesBounded' /\ SumsInv'
  BY <1>1, <1>2, <1>8, BoundedKept, SumsKept DEF MetricsInv
<1>10. MetricsTypeOK'
  BY <1>1, <1>2, <1>4 DEF MetricsInv, MetricsTypeOK
<1> QED BY <1>6, <1>7, <1>9, <1>10 DEF MetricsInv

\* series under the write lock, when the key has appeared since.
LEMMA WriteHit ==
  ASSUME MetricsInv, NEW r \in Requests, seriesWrite(r), key(r) \in DOMAIN live[store(r)]
  PROVE  MetricsInv'
<1>1. /\ req[r].pc = "wlock" /\ Resolved(r, key(r), TRUE, "add")
      /\ live' = [live EXCEPT ![store(r)][key(r)].age = req[r].now]
      /\ views' = views /\ entries' = entries /\ lastSweep' = lastSweep /\ active' = active
      /\ recorded' = recorded /\ forgotten' = forgotten /\ lost' = lost
  BY DEF seriesWrite
<1>2. UNCHANGED history
  BY <1>1 DEF history
<1>3. /\ live' \in [Names -> MapsTo(Series)] /\ SameKeys(live, live')
      /\ \A t \in Names : IsFiniteSet(DOMAIN live'[t])
      /\ \A t \in Names : \A j \in DOMAIN live[t] : live'[t][j].n = live[t][j].n
  BY <1>1, InHand, AgeSet DEF MetricsInv
<1> DEFINE z == [key |-> key(r), alive |-> TRUE]
           x == [req[r] EXCEPT !.series = z, !.pc = "add"]
<1>4. z \in Resolutions /\ z.key = key(r) /\ z.alive = TRUE
  BY InHand DEF Resolutions
<1> HIDE DEF z
<1>5. /\ x \in Request /\ x.pc = "add" /\ x.view = req[r].view /\ x.crossed = req[r].crossed
      /\ x.series = z /\ x.i = req[r].i
  <2>1. req[r] \in Request /\ "add" \in Phases
    BY InHand DEF Phases
  <2> QED BY <1>4, <2>1 DEF Request
<1>6. req' \in [Requests -> Request] /\ req'[r] = x /\ \A q \in Requests : q # r => req'[q] = req[q]
  BY <1>1, <1>5, InHand DEF Resolved, z
<1> HIDE DEF x
<1>7. Follows(req'[r], live)
  BY <1>1, <1>4, <1>5, <1>6, InHand DEF Follows, store
<1>8. RequestInv'
  BY <1>3, <1>6, <1>7, OneMoves DEF MetricsInv
<1>9. GaugeInv'
  BY <1>1, <1>5, <1>6, GaugeKept DEF MetricsInv
<1>10. lastSweep' \in 0..AgeLimit
  BY <1>1 DEF MetricsInv, MetricsTypeOK
<1>11. SeriesBounded' /\ SumsInv'
  BY <1>1, <1>2, <1>3, <1>10, BoundedKept, SumsKept DEF MetricsInv
<1>12. MetricsTypeOK'
  BY <1>1, <1>3, <1>6 DEF MetricsInv, MetricsTypeOK
<1> QED BY <1>8, <1>9, <1>11, <1>12 DEF MetricsInv

\* One more in one series is one more in the sum.
LEMMA ValuesAdd ==
  ASSUME NEW f, IsFiniteSet(DOMAIN f), f \in [DOMAIN f -> Series],
         NEW h, DOMAIN h = DOMAIN f, h \in [DOMAIN f -> Series], NEW k \in DOMAIN f,
         h[k].n = f[k].n + 1, \A j \in DOMAIN f : j # k => h[j] = f[j]
  PROVE  Values(h, DOMAIN h) = Values(f, DOMAIN f) + 1
<1> DEFINE D == DOMAIN f
<1>1. {k} \in SUBSET D /\ D \ {k} \in SUBSET D /\ \A j \in D \ {k} : h[j].n = f[j].n
  OBVIOUS
<1>2. /\ Values(f, D) = Values(f, {k}) + Values(f, D \ {k}) /\ Values(f, D \ {k}) \in Nat
      /\ Values(h, D) = Values(h, {k}) + Values(h, D \ {k})
  <2>1. /\ Values(f, D) = Values(f, {k}) + Values(f, D \ {k}) /\ Values(f, D \ {k}) \in Nat
    BY <1>1, ValuesSplit
  <2>2. Values(h, DOMAIN h) = Values(h, {k}) + Values(h, DOMAIN h \ {k})
    BY <1>1, ValuesSplit
  <2> QED BY <2>1, <2>2
<1>3. f[k].n \in Nat /\ h[k].n \in Nat
  BY DEF Series
<1>4. Values(f, {k}) = f[k].n /\ Values(h, {k}) = h[k].n
  BY <1>3, ValuesOne
<1>5. Values(h, D \ {k}) = Values(f, D \ {k})
  BY <1>1, ValuesSame
<1> HIDE DEF D
<1>6. Values(h, D) = Values(f, D) + 1
  BY ONLY <1>2, <1>3, <1>4, <1>5, h[k].n = f[k].n + 1, SMTT(30)
<1> QED BY <1>6 DEF D

LEMMA AddStep ==
  ASSUME MetricsInv, NEW r \in Requests, Add(r)
  PROVE  MetricsInv'
<1> DEFINE s == store(r)
           k == req[r].series.key
<1>1. /\ req[r].pc = "add" /\ recorded' = [recorded EXCEPT ![s] = @ + 1] /\ NextStore(r)
      /\ views' = views /\ entries' = entries /\ lastSweep' = lastSweep /\ forgotten' = forgotten
  BY DEF Add
<1>2. /\ recorded \in [Names -> Nat] /\ lost \in [Names -> Nat] /\ forgotten \in [Names -> Nat]
      /\ live \in [Names -> MapsTo(Series)] /\ \A t \in Names : IsFiniteSet(DOMAIN live[t])
      /\ s \in Names /\ lastSweep' \in 0..AgeLimit
  BY <1>1, InHand DEF MetricsInv, MetricsTypeOK
<1>3. /\ live' \in [Names -> MapsTo(Series)] /\ SameKeys(live, live')
      /\ \A t \in Names : IsFiniteSet(DOMAIN live'[t])
      /\ \A t \in Names : t # s => live'[t] = live[t] /\ lost'[t] = lost[t]
      /\ lost' \in [Names -> Nat]
      /\ \/ live'[s] = live[s] /\ lost'[s] = lost[s] + 1
         \/ /\ lost'[s] = lost[s]
            /\ Values(live'[s], DOMAIN live'[s]) = Values(live[s], DOMAIN live[s]) + 1
  <2>1. CASE req[r].series.alive
    <3> DEFINE x == [live[s][k] EXCEPT !.n = @ + 1]
    <3>1. k \in DOMAIN live[s] /\ live[s] \in [DOMAIN live[s] -> Series]
      BY <1>1, <2>1, InHand
    <3>2. live[s][k] \in Series /\ live[s][k].n \in Nat
      BY <3>1 DEF Series
    <3>3. live[s][k].n + 1 \in Nat
      BY <3>2, SMTT(30)
    <3>4. x \in Series /\ x.n = live[s][k].n + 1
      BY <3>2, <3>3 DEF Series
    <3>5. live' = [live EXCEPT ![s] = [@ EXCEPT ![k] = x]] /\ lost' = lost
      BY <2>1 DEF Add
    <3> HIDE DEF x, s, k
    <3>6. /\ live' \in [Names -> MapsTo(Series)] /\ SameKeys(live, live')
          /\ \A t \in Names : IsFiniteSet(DOMAIN live'[t])
          /\ live'[s][k] = x /\ \A j \in DOMAIN live[s] : j # k => live'[s][j] = live[s][j]
          /\ \A t \in Names : t # s => live'[t] = live[t]
      BY <1>2, <3>1, <3>4, <3>5, EntryChanged DEF MetricsInv
    <3>7. DOMAIN live'[s] = DOMAIN live[s] /\ live'[s] \in [DOMAIN live[s] -> Series]
      BY <1>2, <3>6, MapMember DEF SameKeys
    <3>8. Values(live'[s], DOMAIN live'[s]) = Values(live[s], DOMAIN live[s]) + 1
      BY <1>2, <3>1, <3>4, <3>6, <3>7, ValuesAdd
    <3> QED BY <1>2, <3>5, <3>6, <3>8
  <2>2. CASE ~ req[r].series.alive
    <3>1. live' = live /\ lost' = [lost EXCEPT ![s] = @ + 1]
      BY <2>2 DEF Add
    <3>2. lost[s] + 1 \in Nat
      BY <1>2, SMTT(30)
    <3> HIDE DEF s, k
    <3>3. lost' \in [Names -> Nat] /\ lost'[s] = lost[s] + 1 /\ \A t \in Names : t # s => lost'[t] = lost[t]
      BY <1>2, <3>1, <3>2
    <3> QED BY <1>2, <3>1, <3>3 DEF SameKeys
  <2> QED BY <2>1, <2>2
<1> HIDE DEF s, k
<1>4. /\ recorded' \in [Names -> Nat] /\ recorded'[s] = recorded[s] + 1
      /\ \A t \in Names : t # s => recorded'[t] = recorded[t]
  <2>1. recorded[s] + 1 \in Nat
    BY <1>2, SMTT(30)
  <2> QED BY <1>1, <1>2, <2>1
<1>5. RequestInv' /\ GaugeInv' /\ active' \in Int /\ req' \in [Requests -> Request]
  BY <1>1, <1>3, NextStoreStep
<1>6. SeriesBounded'
  BY <1>1, <1>2, <1>3, BoundedKept DEF MetricsInv
<1>7. SumsInv'
  <2>1. ASSUME NEW t \in Names, t # s
        PROVE  Values(live'[t], DOMAIN live'[t]) + forgotten'[t] + lost'[t] = recorded'[t]
    <3>1. live'[t] = live[t] /\ lost'[t] = lost[t] /\ recorded'[t] = recorded[t] /\ forgotten' = forgotten
      BY <1>1, <1>3, <1>4, <2>1
    <3> QED BY <3>1 DEF MetricsInv, SumsInv
  <2>2. Values(live'[s], DOMAIN live'[s]) + forgotten'[s] + lost'[s] = recorded'[s]
    <3> DEFINE v == Values(live[s], DOMAIN live[s])
               u == Values(live'[s], DOMAIN live'[s])
    <3>1. v \in Nat
      <4>1. live[s] \in [DOMAIN live[s] -> Series] /\ DOMAIN live[s] \in SUBSET DOMAIN live[s]
        BY <1>2, MapMember
      <4> QED BY <1>2, <4>1, ValuesSplit
    <3>2. v + forgotten[s] + lost[s] = recorded[s]
      BY <1>2 DEF MetricsInv, SumsInv
    <3>3. (u = v /\ lost'[s] = lost[s] + 1) \/ (u = v + 1 /\ lost'[s] = lost[s])
      BY <1>3
    <3>4. forgotten'[s] = forgotten[s] /\ forgotten[s] \in Nat /\ lost[s] \in Nat /\ recorded[s] \in Nat
      BY <1>1, <1>2
    <3> HIDE DEF v, u
    <3>5. u + forgotten'[s] + lost'[s] = recorded'[s]
      BY ONLY <1>4, <3>1, <3>2, <3>3, <3>4, SMTT(30)
    <3> QED BY <3>5 DEF u
  <2> QED BY <2>1, <2>2 DEF SumsInv
<1>8. MetricsTypeOK'
  BY <1>1, <1>2, <1>3, <1>4, <1>5 DEF MetricsInv, MetricsTypeOK
<1> QED BY <1>5, <1>6, <1>7, <1>8 DEF MetricsInv

-----------------------------------------------------------------------------
(* A series that is not there: series and histogramSeries under the write lock *)

Gone(r) == IF sweepDue(r) THEN idleKeys(r) ELSE [n \in Names |-> {}]
Kept(r) == without(live, Gone(r))
Pub(r) == IF sweepDue(r) THEN SweepPublishes(Kept(r)) ELSE [v |-> views, n |-> entries]
Slot(r) == IF Room(DOMAIN Kept(r)[store(r)]) THEN key(r) ELSE OverflowLabel
Fresh(r) == New(Slot(r), DOMAIN Kept(r)[store(r)])
Filled(r) ==
  [Kept(r) EXCEPT ![store(r)] =
     [j \in DOMAIN @ \cup {Slot(r)} |->
        IF j # Slot(r) THEN @[j]
        ELSE [age |-> req[r].now, n |-> IF Fresh(r) THEN 0 ELSE @[j].n]]]
Again(r) == Fresh(r) /\ Publishes(Filled(r), Pub(r).n)
Passed(q, r) ==
  [req[q] EXCEPT !.view = detached(@, Gone(r)),
                 !.series.alive = @ /\ req[q].series.key \notin Gone(r)[store(q)],
                 !.crossed = @ \/ (sweepDue(r) /\ req[q].pc \notin {"idle", "handler", "load"})]

LEMMA WriteMiss ==
  ASSUME NEW r \in Requests, seriesWrite(r), key(r) \notin DOMAIN live[store(r)]
  PROVE  /\ req[r].pc = "wlock"
         /\ active' = active /\ recorded' = recorded /\ lost' = lost
         /\ live' = Filled(r)
         /\ views' = IF Again(r) THEN view(Filled(r)) ELSE Pub(r).v
         /\ entries' = IF Again(r) THEN size(Filled(r)) ELSE Pub(r).n
         /\ lastSweep' = IF sweepDue(r) THEN req[r].now ELSE lastSweep
         /\ forgotten' = [n \in Names |-> forgotten[n] + Values(live[n], Gone(r)[n])]
         /\ req' = [q \in Requests |->
              IF q # r THEN Passed(q, r)
              ELSE [Passed(q, r) EXCEPT !.series = [key |-> Slot(r), alive |-> TRUE], !.pc = "add"]]
BY DEF seriesWrite, Gone, Kept, Pub, Slot, Fresh, Filled, Again, Passed

\* What the sweep leaves of each map.
LEMMA Swept ==
  ASSUME MetricsInv, NEW r \in Requests, NEW n \in Names
  PROVE  /\ Gone(r)[n] \in SUBSET DOMAIN live[n] /\ (~ sweepDue(r) => Gone(r)[n] = {})
         /\ DOMAIN Kept(r)[n] = DOMAIN live[n] \ Gone(r)[n]
         /\ Kept(r)[n] \in [DOMAIN Kept(r)[n] -> Series]
         /\ \A k \in DOMAIN Kept(r)[n] : Kept(r)[n][k] = live[n][k]
         /\ DOMAIN Kept(r)[n] \in SUBSET MetricKeys /\ IsFiniteSet(DOMAIN Kept(r)[n])
<1>1. Gone(r)[n] \in SUBSET DOMAIN live[n] /\ (~ sweepDue(r) => Gone(r)[n] = {})
  BY DEF Gone, idleKeys
<1>2. Kept(r)[n] = [k \in DOMAIN live[n] \ Gone(r)[n] |-> live[n][k]]
  BY DEF Kept, without
<1>3. /\ DOMAIN live[n] \in SUBSET MetricKeys /\ live[n] \in [DOMAIN live[n] -> Series]
      /\ IsFiniteSet(DOMAIN live[n])
  BY MapMember DEF MetricsInv, MetricsTypeOK
<1>4. DOMAIN Kept(r)[n] = DOMAIN live[n] \ Gone(r)[n]
  BY <1>2
<1>5. DOMAIN Kept(r)[n] \in SUBSET DOMAIN live[n]
  BY <1>4
<1>6. IsFiniteSet(DOMAIN Kept(r)[n])
  BY <1>3, <1>5, FS_Subset
<1> QED BY <1>1, <1>2, <1>3, <1>4, <1>5, <1>6

\* And what it holds with the series added.
LEMMA FilledMap ==
  ASSUME MetricsInv, NEW r \in Requests
  PROVE  /\ Filled(r) \in [Names -> MapsTo(Series)]
         /\ \A n \in Names : n # store(r) => Filled(r)[n] = Kept(r)[n]
         /\ DOMAIN Filled(r)[store(r)] = DOMAIN Kept(r)[store(r)] \cup {Slot(r)}
         /\ \A j \in DOMAIN Kept(r)[store(r)] :
              Filled(r)[store(r)][j].n = Kept(r)[store(r)][j].n
         /\ Fresh(r) => Filled(r)[store(r)][Slot(r)].n = 0
         /\ \A n \in Names : IsFiniteSet(DOMAIN Filled(r)[n])
         /\ Slot(r) \in MetricKeys /\ (Fresh(r) <=> Slot(r) \notin DOMAIN Kept(r)[store(r)])
<1> DEFINE s == store(r)
           f == Kept(r)[s]
           k == Slot(r)
           e == [age |-> req[r].now, n |-> IF Fresh(r) THEN 0 ELSE f[k].n]
           h == [j \in DOMAIN f \cup {k} |-> IF j # k THEN f[j] ELSE e]
<1>1. s \in Names /\ req[r].now \in Int /\ key(r) \in MetricKeys
  BY InHand
<1>2. k \in MetricKeys
  BY <1>1 DEF Slot, MetricKeys
<1>3. Fresh(r) <=> k \notin DOMAIN f
  BY DEF Fresh, New
<1>4. /\ f \in [DOMAIN f -> Series] /\ DOMAIN f \in SUBSET MetricKeys /\ IsFiniteSet(DOMAIN f)
  BY <1>1, Swept
<1>5. Kept(r) = [n \in Names |-> Kept(r)[n]]
  BY DEF Kept, without
<1>6. Filled(r) = [Kept(r) EXCEPT ![s] = h]
  BY <1>1, <1>5 DEF Filled
<1> HIDE DEF s, f, k
<1>7. e \in Series /\ e.n = (IF Fresh(r) THEN 0 ELSE f[k].n)
  <2>1. 0 \in Nat
    BY SMTT(30)
  <2>2. ~ Fresh(r) => f[k].n \in Nat
    BY <1>3, <1>4 DEF Series
  <2> QED BY <1>1, <2>1, <2>2 DEF Series
<1> HIDE DEF e
<1>8. /\ DOMAIN h = DOMAIN f \cup {k} /\ h \in [DOMAIN h -> Series] /\ h[k] = e
      /\ \A j \in DOMAIN f : j # k => h[j] = f[j]
  BY <1>4, <1>7
<1> HIDE DEF h
<1>9. h \in MapsTo(Series)
  <2>1. DOMAIN h \in SUBSET MetricKeys
    BY <1>2, <1>4, <1>8
  <2> QED BY <1>8, <2>1, MapMember
<1>10. IsFiniteSet(DOMAIN h)
  <2>1. IsFiniteSet(DOMAIN f \cup {k})
    BY <1>4, FS_AddElement
  <2> QED BY <1>8, <2>1
<1>11. \A n \in Names : Kept(r)[n] \in MapsTo(Series) /\ IsFiniteSet(DOMAIN Kept(r)[n])
  BY Swept, MapMember
<1>12. /\ Filled(r) \in [Names -> MapsTo(Series)] /\ Filled(r)[s] = h
       /\ \A n \in Names : n # s => Filled(r)[n] = Kept(r)[n]
  BY <1>1, <1>5, <1>6, <1>9, <1>11
<1>13. \A j \in DOMAIN f : h[j].n = f[j].n
  BY <1>3, <1>7, <1>8
<1>14. Fresh(r) => h[k].n = 0
  BY <1>7, <1>8
<1> QED BY <1>2, <1>3, <1>8, <1>10, <1>11, <1>12, <1>13, <1>14 DEF s, f, k

\* The sum of a map, of which some series were dropped and empty ones added.
LEMMA ValuesMoved ==
  ASSUME NEW f, IsFiniteSet(DOMAIN f), f \in [DOMAIN f -> Series], NEW K \in SUBSET DOMAIN f,
         NEW h, IsFiniteSet(DOMAIN h), h \in [DOMAIN h -> Series], DOMAIN f \ K \in SUBSET DOMAIN h,
         \A j \in DOMAIN f \ K : h[j].n = f[j].n,
         \A j \in DOMAIN h : j \notin DOMAIN f \ K => h[j].n = 0
  PROVE  Values(h, DOMAIN h) + Values(f, K) = Values(f, DOMAIN f)
<1> DEFINE E == DOMAIN f \ K
           R == DOMAIN h \ E
<1>1. /\ Values(f, DOMAIN f) = Values(f, K) + Values(f, E)
      /\ Values(f, K) \in Nat /\ Values(f, E) \in Nat
  BY ValuesSplit
<1>2. Values(h, DOMAIN h) = Values(h, E) + Values(h, R)
  BY ValuesSplit
<1>3. Values(h, E) = Values(f, E)
  BY ValuesSame
<1>4. Values(h, R) = 0
  <2> DEFINE D == DOMAIN h
             v == values(h)
  <2>1. v \in [D -> Nat] /\ \A x \in R : v[x] = 0
    BY DEF values, Series
  <2>2. PICK max \in Nat : v \in [D -> 0..max]
    BY <2>1, Capped
  <2>3. R \in SUBSET D /\ IsFiniteSet(D)
    OBVIOUS
  <2> HIDE DEF D, v, R
  <2>4. Total(v, R) = 0 <=> \A x \in R : v[x] = 0
    BY ONLY <2>2, <2>3, TotalZero
  <2>5. Total(v, R) = 0
    BY <2>1, <2>4
  <2> QED BY <2>5 DEF Values, v
<1> HIDE DEF E, R
<1> QED BY ONLY <1>1, <1>2, <1>3, <1>4, SMTT(30)

LEMMA WriteSums ==
  ASSUME MetricsInv, NEW r \in Requests, live' = Filled(r), recorded' = recorded, lost' = lost,
         forgotten' = [n \in Names |-> forgotten[n] + Values(live[n], Gone(r)[n])]
  PROVE  SumsInv' /\ forgotten' \in [Names -> Nat]
<1>1. ASSUME NEW n \in Names
      PROVE  /\ Values(live'[n], DOMAIN live'[n]) + Values(live[n], Gone(r)[n])
                   = Values(live[n], DOMAIN live[n])
             /\ Values(live[n], Gone(r)[n]) \in Nat /\ Values(live'[n], DOMAIN live'[n]) \in Nat
  <2> DEFINE f == live[n]
             h == live'[n]
             K == Gone(r)[n]
  <2>1. /\ IsFiniteSet(DOMAIN f) /\ f \in [DOMAIN f -> Series] /\ K \in SUBSET DOMAIN f
    BY Swept, MapMember DEF MetricsInv, MetricsTypeOK
  <2>2. IsFiniteSet(DOMAIN h) /\ h \in [DOMAIN h -> Series]
    BY FilledMap, MapMember
  <2>3. DOMAIN Kept(r)[n] = DOMAIN f \ K /\ \A j \in DOMAIN Kept(r)[n] : Kept(r)[n][j] = f[j]
    BY Swept
  <2>4. /\ DOMAIN Kept(r)[n] \in SUBSET DOMAIN h
        /\ \A j \in DOMAIN Kept(r)[n] : h[j].n = Kept(r)[n][j].n
        /\ \A j \in DOMAIN h : j \notin DOMAIN Kept(r)[n] => h[j].n = 0
    <3>1. CASE n # store(r)
      BY <3>1, FilledMap
    <3>2. CASE n = store(r)
      BY <3>2, FilledMap
    <3> QED BY <3>1, <3>2
  <2> HIDE DEF f, h, K
  <2>5. /\ DOMAIN f \ K \in SUBSET DOMAIN h /\ \A j \in DOMAIN f \ K : h[j].n = f[j].n
        /\ \A j \in DOMAIN h : j \notin DOMAIN f \ K => h[j].n = 0
    BY <2>3, <2>4
  <2>6. Values(h, DOMAIN h) + Values(f, K) = Values(f, DOMAIN f)
    BY ONLY <2>1, <2>2, <2>5, ValuesMoved, SMTT(30)
  <2>7. DOMAIN h \in SUBSET DOMAIN h
    OBVIOUS
  <2>8. Values(f, K) \in Nat /\ Values(h, DOMAIN h) \in Nat
    BY <2>1, <2>2, <2>7, ValuesSplit
  <2> QED BY <2>6, <2>8 DEF f, h, K
<1>2. ASSUME NEW n \in Names
      PROVE  /\ forgotten'[n] \in Nat
             /\ Values(live'[n], DOMAIN live'[n]) + forgotten'[n] + lost'[n] = recorded'[n]
  <2> DEFINE u == Values(live'[n], DOMAIN live'[n])
             v == Values(live[n], DOMAIN live[n])
             g == Values(live[n], Gone(r)[n])
  <2>1. /\ v + forgotten[n] + lost[n] = recorded[n] /\ lost'[n] = lost[n] /\ recorded'[n] = recorded[n]
        /\ forgotten[n] \in Nat /\ lost[n] \in Nat /\ forgotten'[n] = forgotten[n] + g
    BY DEF MetricsInv, MetricsTypeOK, SumsInv
  <2>2. u + g = v /\ g \in Nat /\ u \in Nat
    BY <1>1
  <2> HIDE DEF u, v, g
  <2>3. forgotten'[n] \in Nat /\ u + forgotten'[n] + lost'[n] = recorded'[n]
    BY ONLY <2>1, <2>2, SMTT(30)
  <2> QED BY <2>3 DEF u
<1> QED BY <1>2 DEF SumsInv

\* The cap of a map: a series is added within it, or it is the overflow.
LEMMA WriteCap ==
  ASSUME MetricsInv, NEW r \in Requests, maxSeries > 0, NEW n \in Names
  PROVE  Cardinality(DOMAIN Filled(r)[n] \ {OverflowLabel}) <= maxSeries
<1> DEFINE Was == DOMAIN live[n] \ {OverflowLabel}
           Is == DOMAIN Filled(r)[n] \ {OverflowLabel}
           Left == DOMAIN Kept(r)[n]
<1>1. IsFiniteSet(DOMAIN live[n]) /\ IsFiniteSet(DOMAIN Filled(r)[n]) /\ IsFiniteSet(Left)
  BY FilledMap, Swept DEF MetricsInv, MetricsTypeOK
<1>2. IsFiniteSet(Was) /\ IsFiniteSet(Is)
  BY <1>1, FS_Subset
<1>3. Cardinality(Was) <= maxSeries /\ maxSeries \in Nat
  BY MetricsConfig DEF MetricsInv, SeriesBounded
<1>4. Left \in SUBSET DOMAIN live[n]
  BY Swept
<1>5. Cardinality(Was) \in Nat /\ Cardinality(Is) \in Nat /\ Cardinality(Left) \in Nat
  BY <1>1, <1>2, FS_CardinalityType
<1>6. CASE Is \in SUBSET Was
  <2>1. Cardinality(Is) <= Cardinality(Was)
    BY <1>2, <1>6, FS_Subset
  <2> HIDE DEF Was, Is, Left
  <2>2. Cardinality(Is) <= maxSeries
    BY ONLY <1>3, <1>5, <2>1, SMTT(30)
  <2> QED BY <2>2 DEF Is
<1>7. CASE ~(Is \in SUBSET Was)
  <2>1. n = store(r) /\ Slot(r) # OverflowLabel
    <3>1. CASE n # store(r)
      <4>1. DOMAIN Filled(r)[n] = Left
        BY <3>1, FilledMap
      <4> QED BY <1>4, <1>7, <4>1
    <3>2. CASE n = store(r) /\ Slot(r) = OverflowLabel
      <4>1. DOMAIN Filled(r)[n] = Left \cup {OverflowLabel}
        BY <3>2, FilledMap
      <4> QED BY <1>4, <1>7, <4>1
    <3> QED BY <3>1, <3>2
  <2>2. Room(Left)
    BY <2>1 DEF Slot
  <2>3. DOMAIN Filled(r)[n] = Left \cup {Slot(r)}
    BY <2>1, FilledMap
  <2>4. Is \in SUBSET (Left \cup {Slot(r)})
    BY <2>3
  <2> HIDE DEF Is, Left
  <2>5. Cardinality(Left) < maxSeries
    BY <1>3, <2>2, SMTT(30) DEF Room
  <2>6. /\ IsFiniteSet(Left \cup {Slot(r)})
        /\ \/ Cardinality(Left \cup {Slot(r)}) = Cardinality(Left)
           \/ Cardinality(Left \cup {Slot(r)}) = Cardinality(Left) + 1
    BY <1>1, FS_AddElement
  <2>7. Cardinality(Is) <= Cardinality(Left \cup {Slot(r)})
    BY <2>4, <2>6, FS_Subset
  <2>8. Cardinality(Is) <= maxSeries
    BY ONLY <1>3, <1>5, <2>5, <2>6, <2>7, SMTT(30)
  <2> QED BY <2>8 DEF Is
<1> QED BY <1>6, <1>7

\* What is published after the write, and how it compares with the maps.
LEMMA WriteBounded ==
  ASSUME MetricsInv, NEW r \in Requests, live' = Filled(r),
         views' = IF Again(r) THEN view(Filled(r)) ELSE Pub(r).v,
         entries' = IF Again(r) THEN size(Filled(r)) ELSE Pub(r).n,
         lastSweep' = IF sweepDue(r) THEN req[r].now ELSE lastSweep
  PROVE  SeriesBounded' /\ views' \in Views /\ entries' \in Nat /\ lastSweep' \in 0..AgeLimit
<1>1. lastSweep' \in 0..AgeLimit
  BY InHand, MetricsConfig DEF MetricsInv, MetricsTypeOK
<1>2. /\ \A n \in Names : IsFiniteSet(DOMAIN Filled(r)[n])
      /\ \A n \in Names : DOMAIN Filled(r)[n] \in SUBSET MetricKeys
  <2>1. \A n \in Names : Filled(r)[n] \in MapsTo(Series)
    BY FilledMap
  <2>2. \A n \in Names : DOMAIN Filled(r)[n] \in SUBSET MetricKeys
    BY <2>1, MapMember
  <2> QED BY <2>2, FilledMap
<1>3. /\ \A n \in Names : IsFiniteSet(DOMAIN Kept(r)[n])
      /\ \A n \in Names : DOMAIN Kept(r)[n] \in SUBSET MetricKeys
      /\ \A n \in Names : DOMAIN Kept(r)[n] \in SUBSET DOMAIN Filled(r)[n]
      /\ ~ Fresh(r) => \A n \in Names : DOMAIN Kept(r)[n] = DOMAIN Filled(r)[n]
      /\ ~ sweepDue(r) => \A n \in Names : DOMAIN Kept(r)[n] = DOMAIN live[n]
  <2>1. ASSUME NEW n \in Names
        PROVE  /\ DOMAIN Kept(r)[n] \in SUBSET DOMAIN Filled(r)[n]
               /\ ~ Fresh(r) => DOMAIN Kept(r)[n] = DOMAIN Filled(r)[n]
    <3>1. CASE n # store(r)
      BY <3>1, FilledMap
    <3>2. CASE n = store(r)
      BY <3>2, FilledMap
    <3> QED BY <3>1, <3>2
  <2>2. ~ sweepDue(r) => \A n \in Names : DOMAIN Kept(r)[n] = DOMAIN live[n]
    BY Swept
  <2> QED BY <2>1, <2>2, Swept
<1>4. size(Filled(r)) \in Nat /\ size(Kept(r)) \in Nat /\ size(Kept(r)) <= size(Filled(r))
  BY <1>2, <1>3, SizeType, SizeGrows
<1>5. ASSUME NEW l, \A n \in Names : DOMAIN l[n] \in SUBSET MetricKeys
      PROVE  /\ view(l) \in Views /\ \A n \in Names : DOMAIN view(l)[n] = DOMAIN l[n]
             /\ \A n \in Names : \A k \in DOMAIN l[n] : view(l)[n][k]
  BY <1>5, MapMember DEF view, Views
<1>6. ASSUME views' \in Views, entries' \in Nat, entries' <= size(Filled(r)),
             \A n \in Names : DOMAIN views'[n] \in SUBSET DOMAIN Filled(r)[n],
             \A n \in Names : \A k \in DOMAIN views'[n] : views'[n][k],
             size(Filled(r)) <= eagerViewEntries =>
               \A n \in Names : DOMAIN views'[n] = DOMAIN Filled(r)[n]
      PROVE  SeriesBounded' /\ views' \in Views /\ entries' \in Nat
  BY <1>1, <1>6, WriteCap DEF SeriesBounded
<1>7. CASE Again(r)
  <2>1. views' = view(Filled(r)) /\ entries' = size(Filled(r))
    BY <1>7
  <2>2. entries' <= size(Filled(r))
    BY <1>4, <2>1, SMTT(30)
  <2>3. /\ views' \in Views /\ \A n \in Names : DOMAIN views'[n] = DOMAIN Filled(r)[n]
        /\ \A n \in Names : \A k \in DOMAIN views'[n] : views'[n][k]
    BY <1>2, <1>5, <2>1
  <2> QED BY <1>1, <1>4, <1>6, <2>1, <2>2, <2>3
<1>8. CASE ~ Again(r) /\ sweepDue(r)
  <2>1. views' = view(Kept(r)) /\ entries' = size(Kept(r))
    BY <1>8 DEF Pub, SweepPublishes
  <2>2. /\ view(Kept(r)) \in Views /\ \A n \in Names : DOMAIN view(Kept(r))[n] = DOMAIN Kept(r)[n]
        /\ \A n \in Names : \A k \in DOMAIN Kept(r)[n] : view(Kept(r))[n][k]
    <3>1. \A n \in Names : DOMAIN Kept(r)[n] \in SUBSET MetricKeys
      BY <1>3
    <3> QED BY <1>5, <3>1
  <2>3. size(Filled(r)) <= eagerViewEntries => ~ Fresh(r)
    BY <1>8 DEF Again, Publishes
  <2> QED BY <1>1, <1>3, <1>4, <1>6, <2>1, <2>2, <2>3
<1>9. CASE ~ Again(r) /\ ~ sweepDue(r)
  <2>1. views' = views /\ entries' = entries
    BY <1>9 DEF Pub
  <2>2. size(Kept(r)) = size(live)
    BY <1>3, <1>9, SizeSame
  <2>3. size(Filled(r)) <= eagerViewEntries => ~ Fresh(r)
    BY <1>9 DEF Again, Publishes
  <2>4. size(Filled(r)) <= eagerViewEntries => size(live) <= eagerViewEntries
    BY <1>4, <2>2, MetricsConfig, SMTT(30)
  <2>5. entries \in Nat /\ entries <= size(live) /\ views \in Views
    BY DEF MetricsInv, MetricsTypeOK, SeriesBounded
  <2>6. entries <= size(Filled(r))
    BY <1>4, <2>2, <2>5, SMTT(30)
  <2>7. /\ \A n \in Names : DOMAIN views[n] \in SUBSET DOMAIN live[n]
        /\ \A n \in Names : \A k \in DOMAIN views[n] : views[n][k]
        /\ size(live) <= eagerViewEntries => \A n \in Names : DOMAIN views[n] = DOMAIN live[n]
    BY DEF MetricsInv, SeriesBounded
  <2>8. \A n \in Names : DOMAIN views'[n] \in SUBSET DOMAIN Filled(r)[n]
    BY <1>3, <1>9, <2>1, <2>7
  <2>9. size(Filled(r)) <= eagerViewEntries =>
          \A n \in Names : DOMAIN views'[n] = DOMAIN Filled(r)[n]
    BY <1>3, <1>9, <2>1, <2>3, <2>4, <2>7
  <2>10. /\ views' \in Views /\ entries' \in Nat /\ entries' <= size(Filled(r))
         /\ \A n \in Names : \A k \in DOMAIN views'[n] : views'[n][k]
    BY <2>1, <2>5, <2>6, <2>7
  <2> QED BY <1>1, <1>6, <2>8, <2>9, <2>10
<1> QED BY <1>7, <1>8, <1>9

\* A request that another one's sweep passes by.
LEMMA PassedFollows ==
  ASSUME MetricsInv, NEW r \in Requests, NEW q \in Requests
  PROVE  /\ Passed(q, r) \in Request /\ Passed(q, r).pc = req[q].pc /\ Passed(q, r).i = req[q].i
         /\ Follows(Passed(q, r), Filled(r))
<1> DEFINE c == req[q]
           V == detached(c.view, Gone(r))
           a == c.series.alive /\ c.series.key \notin Gone(r)[store(q)]
           z == [c.series EXCEPT !.alive = a]
           d == c.crossed \/ (sweepDue(r) /\ c.pc \notin {"idle", "handler", "load"})
           x == Passed(q, r)
<1>1. c \in Request /\ Follows(c, live) /\ store(q) \in Names /\ c.series \in Resolutions
  BY InHand
<1>2. c.view \in Views /\ c.series.alive \in BOOLEAN /\ c.crossed \in BOOLEAN
  BY <1>1 DEF Request, Resolutions
<1>3. \A n \in Names : DOMAIN c.view[n] \in SUBSET MetricKeys
  BY <1>2, MapMember DEF Views
<1>4. /\ \A n \in Names : DOMAIN V[n] = DOMAIN c.view[n]
      /\ \A n \in Names : \A k \in DOMAIN V[n] : V[n][k] = (c.view[n][k] /\ k \notin Gone(r)[n])
      /\ V = [n \in Names |-> V[n]]
      /\ \A n \in Names : V[n] \in [DOMAIN V[n] -> BOOLEAN]
  BY DEF detached
<1>5. V \in Views
  <2>1. \A n \in Names : V[n] \in MapsTo(BOOLEAN)
    BY <1>3, <1>4, MapMember
  <2> QED BY <1>4, <2>1 DEF Views
<1>6. z \in Resolutions /\ z.alive = a /\ z.key = c.series.key
  BY <1>1 DEF Resolutions
<1>7. x = [c EXCEPT !.view = V, !.series = z, !.crossed = d]
  BY <1>1 DEF Passed
<1>8. d \in BOOLEAN
  OBVIOUS
<1> HIDE DEF V, z, d, x
<1>9. /\ x \in Request /\ x.pc = c.pc /\ x.i = c.i /\ x.view = V /\ x.series = z /\ x.crossed = d
  BY <1>1, <1>5, <1>6, <1>7, <1>8 DEF Request
<1>10. \A n \in Names : \A k \in DOMAIN live[n] : k \notin Gone(r)[n] => k \in DOMAIN Filled(r)[n]
  <2>1. ASSUME NEW n \in Names, NEW k \in DOMAIN live[n], k \notin Gone(r)[n]
        PROVE  k \in DOMAIN Filled(r)[n]
    <3>1. k \in DOMAIN Kept(r)[n]
      BY <2>1, Swept
    <3>2. CASE n # store(r)
      BY <3>1, <3>2, FilledMap
    <3>3. CASE n = store(r)
      BY <3>1, <3>3, FilledMap
    <3> QED BY <3>2, <3>3
  <2> QED BY <2>1
<1>11. \A n \in Names : Gone(r)[n] # {} => sweepDue(r)
  BY Swept
<1>12. c.pc \in {"idle", "handler", "load"} => \A n \in Names : DOMAIN V[n] = {}
  BY <1>1, <1>4 DEF Follows
<1>13. ASSUME NEW n \in Names, NEW k \in DOMAIN V[n]
       PROVE  (V[n][k] => k \in DOMAIN Filled(r)[n]) /\ (~ V[n][k] => d)
  <2>1. (c.view[n][k] => k \in DOMAIN live[n]) /\ (~ c.view[n][k] => c.crossed)
    BY <1>1, <1>4 DEF Follows
  <2>2. V[n][k] = (c.view[n][k] /\ k \notin Gone(r)[n])
    BY <1>4
  <2>3. c.pc \notin {"idle", "handler", "load"}
    BY <1>12
  <2> QED BY <1>10, <1>11, <2>1, <2>2, <2>3 DEF d
<1>14. c.pc \in {"touch", "add"} =>
         (z.alive => z.key \in DOMAIN Filled(r)[store(q)]) /\ (~ z.alive => d)
  <2>1. c.pc \in {"touch", "add"} =>
          /\ c.series.alive => c.series.key \in DOMAIN live[store(q)]
          /\ ~ c.series.alive => c.crossed
    BY <1>1 DEF Follows, store
  <2> QED BY <1>1, <1>6, <1>10, <1>11, <2>1 DEF d
<1>15. Follows(x, Filled(r))
  BY <1>9, <1>12, <1>13, <1>14 DEF Follows, store
<1> QED BY <1>9, <1>15 DEF x

LEMMA WriteStep ==
  ASSUME MetricsInv, NEW r \in Requests, seriesWrite(r), key(r) \notin DOMAIN live[store(r)]
  PROVE  MetricsInv'
<1>1. /\ req[r].pc = "wlock"
      /\ active' = active /\ recorded' = recorded /\ lost' = lost
      /\ live' = Filled(r)
      /\ views' = IF Again(r) THEN view(Filled(r)) ELSE Pub(r).v
      /\ entries' = IF Again(r) THEN size(Filled(r)) ELSE Pub(r).n
      /\ lastSweep' = IF sweepDue(r) THEN req[r].now ELSE lastSweep
      /\ forgotten' = [n \in Names |-> forgotten[n] + Values(live[n], Gone(r)[n])]
  BY WriteMiss
<1>2. req' = [q \in Requests |->
        IF q # r THEN Passed(q, r)
        ELSE [Passed(q, r) EXCEPT !.series = [key |-> Slot(r), alive |-> TRUE], !.pc = "add"]]
  BY WriteMiss
<1>3. SumsInv' /\ forgotten' \in [Names -> Nat]
  BY <1>1, WriteSums
<1>4. SeriesBounded' /\ views' \in Views /\ entries' \in Nat /\ lastSweep' \in 0..AgeLimit
  BY <1>1, WriteBounded
<1> DEFINE x == Passed(r, r)
           z == [key |-> Slot(r), alive |-> TRUE]
           y == [x EXCEPT !.series = z, !.pc = "add"]
<1>5. x \in Request /\ x.i = req[r].i /\ Follows(x, Filled(r)) /\ x.pc = "wlock"
  BY <1>1, PassedFollows
<1>6. z \in Resolutions /\ z.key = Slot(r) /\ z.alive = TRUE
  BY FilledMap DEF Resolutions
<1>7. "add" \in Phases
  BY DEF Phases
<1>8. req'[r] = y /\ \A q \in Requests : q # r => req'[q] = Passed(q, r)
  BY <1>2
<1> HIDE DEF x, z
<1>9. /\ y \in Request /\ y.pc = "add" /\ y.view = x.view /\ y.crossed = x.crossed
      /\ y.series = z /\ y.i = x.i
  BY <1>5, <1>6, <1>7 DEF Request
<1> HIDE DEF y
<1>10. Slot(r) \in DOMAIN Filled(r)[Stores[req[r].i]]
  BY FilledMap DEF store
<1>11. Follows(y, Filled(r))
  BY <1>5, <1>6, <1>9, <1>10 DEF Follows
<1>12. RequestInv'
  BY <1>1, <1>8, <1>11, PassedFollows DEF RequestInv
<1>13. req' \in [Requests -> Request]
  <2>1. \A q \in Requests : req'[q] \in Request
    BY <1>8, <1>9, PassedFollows
  <2> QED BY <1>2, <2>1
<1>14. GaugeInv'
  <2>1. \A q \in Requests : req'[q].pc = "idle" <=> req[q].pc = "idle"
    BY <1>1, <1>8, <1>9, PassedFollows
  <2> QED BY <1>1, <2>1, GaugeKept DEF MetricsInv
<1>15. MetricsTypeOK'
  <2>1. live' \in [Names -> MapsTo(Series)] /\ \A n \in Names : IsFiniteSet(DOMAIN live'[n])
    BY <1>1, FilledMap
  <2>2. active' \in Int /\ recorded' \in [Names -> Nat] /\ lost' \in [Names -> Nat]
    BY <1>1 DEF MetricsInv, MetricsTypeOK
  <2> QED BY <1>3, <1>4, <1>13, <2>1, <2>2 DEF MetricsTypeOK
<1> QED BY <1>3, <1>4, <1>12, <1>14, <1>15 DEF MetricsInv

LEMMA MetricsStarts == MetricsInit => MetricsInv
<1> SUFFICES ASSUME MetricsInit PROVE MetricsInv
  OBVIOUS
<1>1. /\ live = Empty /\ views = Empty /\ entries = 0 /\ lastSweep = 0 /\ active = 0
      /\ req = [r \in Requests |-> Idle]
      /\ recorded = [s \in Names |-> 0] /\ forgotten = recorded /\ lost = recorded
  BY DEF MetricsInit
<1>2. /\ Empty = [s \in Names |-> Empty[s]] /\ \A s \in Names : DOMAIN Empty[s] = {}
      /\ \A s \in Names : Empty[s] \in [{} -> Series] /\ Empty[s] \in [{} -> BOOLEAN]
  BY DEF Empty
<1>3. Empty \in [Names -> MapsTo(Series)] /\ Empty \in Views
  BY <1>2, MapMember DEF Views
<1>4. 0 \in Nat /\ 0 \in Int /\ 0 \in 0..AgeLimit /\ 0 + 0 + 0 = 0
  BY MetricsConfig, SMTT(30)
<1>5. IsFiniteSet({}) /\ Cardinality({}) = 0
  BY FS_EmptySet
<1>6. MetricsTypeOK
  BY <1>1, <1>2, <1>3, <1>4, <1>5, IdleType DEF MetricsTypeOK
<1>7. size(Empty) \in Nat
  BY <1>2, <1>5, SizeType
<1>8. 0 <= size(Empty)
  BY <1>7, SMTT(30)
<1>9. maxSeries > 0 => Cardinality({} \ {OverflowLabel}) <= maxSeries
  <2>1. {} \ {OverflowLabel} = {}
    OBVIOUS
  <2>2. maxSeries > 0 => 0 <= maxSeries
    BY MetricsConfig, SMTT(30)
  <2> QED BY <1>5, <2>1, <2>2
<1>10. SeriesBounded
  BY <1>1, <1>2, <1>4, <1>8, <1>9 DEF SeriesBounded
<1>11. RequestInv
  BY <1>1, IdleType DEF RequestInv
<1>12. GaugeInv
  <2>1. Inside = {}
    BY <1>1, IdleType DEF Inside
  <2> QED BY <1>1, <1>5, <2>1 DEF GaugeInv
<1>13. SumsInv
  <2>1. ASSUME NEW s \in Names PROVE Values(live[s], DOMAIN live[s]) = 0
    <3>1. DOMAIN live[s] = {}
      BY <1>1, <1>2
    <3>2. Units(values(live[s]), {}) = {}
      BY UnitsMember, SMTT(30)
    <3> QED BY <1>5, <3>1, <3>2 DEF Values, Total
  <2> QED BY <1>1, <1>4, <2>1 DEF SumsInv
<1> QED BY <1>6, <1>10, <1>11, <1>12, <1>13 DEF MetricsInv

LEMMA MetricsNextInv ==
  ASSUME MetricsInv, [MetricsNext]_metricVars
  PROVE  MetricsInv'
<1>1. CASE MetricsTick
  BY <1>1, TickStep
<1>2. ASSUME NEW r \in Requests, NEW l \in Labels, Begin(r, l) PROVE MetricsInv'
  BY <1>2, BeginStep
<1>3. ASSUME NEW r \in Requests, Serving(r) PROVE MetricsInv'
  <2>1. CASE Panic(r) \/ Returned(r) \/ NoBody(r)
    BY <2>1, QuietSteps
  <2>2. CASE Load(r)
    BY <2>2, LoadStep
  <2>3. CASE lookupSeries(r) \/ seriesRead(r)
    BY <2>3, LookupStep
  <2>4. CASE touch(r)
    BY <2>4, TouchStep
  <2>5. CASE seriesWrite(r)
    BY <2>5, WriteHit, WriteStep
  <2>6. CASE Add(r)
    BY <2>6, AddStep
  <2> QED BY <1>3, <2>1, <2>2, <2>3, <2>4, <2>5, <2>6 DEF Serving
<1>4. CASE UNCHANGED metricVars
  <2>1. UNCHANGED <<maps, history>> /\ active' = active /\ req' = req
    BY <1>4 DEF metricVars, maps, history
  <2>2. /\ req \in [Requests -> Request] /\ active \in Int
    BY DEF MetricsInv, MetricsTypeOK
  <2>3. RequestInv' /\ GaugeInv'
    <3>1. live' = live
      BY <2>1 DEF maps
    <3> QED BY <2>1, <3>1 DEF MetricsInv, RequestInv, GaugeInv, Inside
  <2> QED BY <2>1, <2>2, <2>3, MapsUntouched DEF MetricsInv
<1> QED BY <1>1, <1>2, <1>3, <1>4 DEF MetricsNext

-----------------------------------------------------------------------------
(* The theorems *)

\* The inductive invariant of the collector.
THEOREM MetricsInvariant == MetricsSpec => []MetricsInv
<1>1. MetricsInv /\ [MetricsNext]_metricVars => MetricsInv'
  BY MetricsNextInv
<1> QED BY <1>1, MetricsStarts, PTL DEF MetricsSpec

\* A behaviour of the chain is one of the limiter and one of the collector.
LEMMA ChainIsBoth == ChainSpec => LimitSpec /\ MetricsSpec
<1>1. ChainInit => LimitInit /\ MetricsInit
  BY DEF ChainInit
<1>2. [ChainNext]_chainVars => [LimitNext]_limitVars
  BY DEF ChainNext, chainVars
<1>3. [ChainNext]_chainVars => [MetricsNext]_metricVars
  BY DEF ChainNext, chainVars
<1> QED BY <1>1, <1>2, <1>3, PTL DEF ChainSpec, LimitSpec, MetricsSpec

\* Neither the limiter's map and list nor a map of the collector grows past its cap, and
\* the published view holds no series that was swept, for any keys, labels and caps.
THEOREM MemoryStaysBounded == ChainSpec => []MemoryBounded
<1>1. LimitInv /\ ListInv /\ MetricsInv => MemoryBounded
  BY DEF MemoryBounded, ListInv, MetricsInv
<1> QED BY <1>1, ChainIsBoth, LimitInvariant, MetricsInvariant, PTL

\* Every update of a request is in a live series, in a series swept since, or one of those
\* that met a sweep on their way; the gauge counts the requests inside.
THEOREM NoRequestMissing == ChainSpec => []RequestsCounted
<1>1. MetricsInv => RequestsCounted
  <2> SUFFICES ASSUME MetricsInv PROVE RequestsCounted
    OBVIOUS
  <2>1. active = Cardinality({r \in Requests : req[r].pc # "idle"})
    BY DEF MetricsInv, GaugeInv, Inside
  <2>2. \A s \in Names : Values(live[s], DOMAIN live[s]) + forgotten[s] + lost[s] = recorded[s]
    BY DEF MetricsInv, SumsInv
  <2>3. \A r \in Requests :
          req[r].pc \in {"touch", "add"} /\ ~ req[r].series.alive => req[r].crossed
    BY DEF MetricsInv, RequestInv, Follows
  <2> QED BY <2>1, <2>2, <2>3 DEF RequestsCounted
<1> QED BY <1>1, ChainIsBoth, MetricsInvariant, PTL

=============================================================================
