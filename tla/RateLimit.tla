------------------------------ MODULE RateLimit ------------------------------
(***************************************************************************)
(* The rate limiter of middleware/ratelimit.go: a token bucket per key,    *)
(* looked up or created under the limiter's mutex and used under its own,  *)
(* an idle sweep and a cap on the number of buckets.                       *)
(*                                                                         *)
(* A tick is the time in which a bucket gains one unit; a token is Cost    *)
(* units.  Instants are kept as ages, which stop growing once they are     *)
(* past everything that is compared with them.                             *)
(***************************************************************************)
EXTENDS Integers, Sequences, FiniteSets

CONSTANTS
  Keys,
  Callers,     \* goroutines, each with one request at a time
  NoKey,
  Ids, NoId,   \* token buckets, the objects
  Cost, Burst, \* rate is 1 / Cost per tick
  IdleTTL,     \* BucketIdleTTL; 0 stands for a negative one, no sweeping
  maxTTL,
  maxBuckets,  \* 0: unbounded
  sweepEvery

Full == Burst * Cost

ASSUME LimiterAssumption ==
  /\ {Cost, Burst, maxTTL, sweepEvery} \subseteq Nat \ {0}
  /\ {IdleTTL, maxBuckets} \subseteq Nat /\ NoId \notin Ids
  /\ NoKey \notin Keys

larger(a, b) == IF a > b THEN a ELSE b
lesser(a, b) == IF a < b THEN a ELSE b

\* Mutant: the configured value is not raised to the time a bucket takes to refill.
idleTTLAsGiven == IdleTTL

\* The refill time counts up to maxTTL only.
resolveIdleTTL == IF IdleTTL = 0 THEN 0 ELSE larger(IdleTTL, lesser(Full, maxTTL))

VARIABLES
  buckets,   \* keyedLimiter.buckets
  order,     \* the list of buckets, the oldest first
  insertCt,  \* modulo sweepEvery
  keyOf, tokens, age,  \* the buckets; age is since last, which is lastSeen too
  lpc, held, \* each request: where it is, and the bucket in its hands
  ideal,     \* ghost: what a bucket that is never dropped has, for each key
  loose      \* history: the keys whose bucket was dropped in use or too early

bucketVars == <<keyOf, tokens, age>>
limitVars == <<buckets, order, insertCt, bucketVars, lpc, held, ideal, loose>>

AgeCap == larger(resolveIdleTTL, Full) + 1

LimitInit ==
  /\ buckets = [k \in Keys |-> NoId] /\ order = <<>> /\ insertCt = 0
  /\ keyOf = [id \in Ids |-> NoKey] /\ tokens = [id \in Ids |-> 0] /\ age = [id \in Ids |-> 0]
  /\ lpc = [r \in Callers |-> "idle"] /\ held = [r \in Callers |-> NoId]
  /\ ideal = [k \in Keys |-> Full] /\ loose = [k \in Keys |-> FALSE]

Live == {buckets[k] : k \in Keys} \ {NoId}
Held(id) == \E r \in Callers : held[r] = id
InUse(id) == id \in Live \/ Held(id)

\* A bucket nobody can reach is garbage.
collected(f, none) == [id \in Ids |-> IF InUse(id)' THEN f[id] ELSE none]

\* The tokens of a bucket as allow would find them now.
refilled(id) == lesser(Full, tokens[id] + age[id])

LimitTick ==
  /\ age' = [id \in Ids |-> IF InUse(id) THEN lesser(age[id] + 1, AgeCap) ELSE age[id]]
  /\ ideal' = [k \in Keys |-> lesser(Full, ideal[k] + 1)]
  /\ UNCHANGED <<keyOf, tokens, buckets, order, insertCt, lpc, held, loose>>

\* allow finds the bucket of the key.
Lookup(r, k) ==
  /\ lpc[r] = "idle" /\ buckets[k] # NoId
  /\ lpc' = [lpc EXCEPT ![r] = "allow"] /\ held' = [held EXCEPT ![r] = buckets[k]]
  /\ UNCHANGED <<buckets, order, insertCt, bucketVars, ideal, loose>>

sweepOnInsert == resolveIdleTTL > 0 /\ (insertCt + 1) % sweepEvery = 0

\* Mutant: the cap is applied one bucket late.
fullLate(list) == maxBuckets > 0 /\ Len(list) > maxBuckets

full(list) == maxBuckets > 0 /\ Len(list) >= maxBuckets

\* sweepLocked: by the count of insertions, or to make room.
swept ==
  IF sweepOnInsert \/ (full(order) /\ resolveIdleTTL > 0)
  THEN {id \in Live : age[id] > resolveIdleTTL} ELSE {}

\* What stays of the list keeps its order: the j-th of it has j places up to its own.
unlink(list, gone) ==
  LET stay == {i \in 1..Len(list) : list[i] \notin gone}
      upto(i) == {h \in stay : h <= i}
  IN  [j \in 1..Cardinality(stay) |-> list[CHOOSE i \in stay : Cardinality(upto(i)) = j]]
pushFront(list, id) == Append(list, id)

\* evictOldestLocked, until there is room.
evicted ==
  LET list == unlink(order, swept)
  IN  IF full(list) THEN {list[i] : i \in 1..(Len(list) - maxBuckets + 1)} ELSE {}

newBucket == CHOOSE id \in Ids : ~ InUse(id)

\* The cold path of allow, under the mutex: reclaim, create, insert.
Insert(r, k) ==
  /\ lpc[r] = "idle" /\ buckets[k] = NoId /\ \E id \in Ids : ~ InUse(id)
  /\ insertCt' = (insertCt + 1) % sweepEvery
  /\ LET gone == swept \cup evicted
     IN  /\ buckets' = [j \in Keys |-> IF j = k THEN newBucket
                                       ELSE IF buckets[j] \in gone THEN NoId ELSE buckets[j]]
         /\ order' = pushFront(unlink(order, gone), newBucket)
         /\ loose' = [j \in Keys |->
              \/ loose[j]
              \/ /\ buckets[j] \in swept
                 /\ \/ Held(buckets[j])
                    \/ Full > maxTTL /\ refilled(buckets[j]) < Full
              \/ buckets[j] \in evicted /\ (Held(buckets[j]) \/ refilled(buckets[j]) < Full)]
  /\ held' = [held EXCEPT ![r] = newBucket]
  /\ keyOf' = collected([keyOf EXCEPT ![newBucket] = k], NoKey)
  /\ tokens' = collected([tokens EXCEPT ![newBucket] = Full], 0)
  /\ age' = collected([age EXCEPT ![newBucket] = 0], 0)
  /\ lpc' = [lpc EXCEPT ![r] = "allow"]
  /\ UNCHANGED ideal

\* tokenBucket.allow, on a bucket that may have been dropped since.
allow(r) ==
  /\ lpc[r] = "allow" /\ UNCHANGED <<buckets, order, insertCt, loose>>
  /\ LET id == held[r]  t == refilled(id)  ok == t >= Cost
     IN  /\ lpc' = [lpc EXCEPT ![r] = IF ok THEN "admitted" ELSE "refused"]
         /\ held' = [held EXCEPT ![r] = NoId]
         /\ tokens' = collected([tokens EXCEPT ![id] = IF ok THEN t - Cost ELSE t], 0)
         /\ age' = collected([age EXCEPT ![id] = 0], 0)
         /\ keyOf' = collected(keyOf, NoKey)
         /\ ideal' = [ideal EXCEPT ![keyOf[id]] = IF ok THEN larger(0, @ - Cost) ELSE @]

\* The request is over: the 429, or the rest of the chain has returned.
LimitReturn(r) ==
  /\ lpc[r] \in {"admitted", "refused"} /\ lpc' = [lpc EXCEPT ![r] = "idle"]
  /\ UNCHANGED <<buckets, order, insertCt, bucketVars, held, ideal, loose>>

Arrive(r) == \E k \in Keys : Lookup(r, k) \/ Insert(r, k)

LimitNext == LimitTick \/ \E r \in Callers : Arrive(r) \/ allow(r) \/ LimitReturn(r)

LimitSpec == LimitInit /\ [][LimitNext]_limitVars

-----------------------------------------------------------------------------
(* Properties *)

LimitTypeOK ==
  /\ buckets \in [Keys -> Ids \cup {NoId}] /\ insertCt \in 0..(sweepEvery - 1)
  /\ keyOf \in [Ids -> Keys \cup {NoKey}]
  /\ tokens \in [Ids -> 0..Full] /\ age \in [Ids -> 0..AgeCap]
  /\ lpc \in [Callers -> {"idle", "allow", "admitted", "refused"}]
  /\ held \in [Callers -> Ids \cup {NoId}]
  /\ \A r \in Callers : held[r] = NoId <=> lpc[r] # "allow"
  /\ ideal \in [Keys -> 0..Full] /\ loose \in [Keys -> BOOLEAN]

\* The map and the list hold the same buckets, each once, and
\* never more than maxBuckets of them.
Bounded ==
  /\ Live = {order[i] : i \in 1..Len(order)}
  /\ \A i, j \in 1..Len(order) : i # j => order[i] # order[j]
  /\ maxBuckets > 0 => Len(order) <= maxBuckets

\* What a reachable bucket has, against the one that is never dropped: at least as
\* much, and the same while no bucket of the key was dropped in use or too early.
IdealInv ==
  /\ \A id \in Ids : InUse(id) => refilled(id) >= ideal[keyOf[id]]
  /\ \A k \in Keys : buckets[k] # NoId => keyOf[buckets[k]] = k
  /\ \A id \in Ids : InUse(id) => keyOf[id] \in Keys
  /\ \A k \in Keys : ~ loose[k] =>
       /\ buckets[k] = NoId => ideal[k] = Full
       /\ buckets[k] # NoId => refilled(buckets[k]) = ideal[k]
       /\ \A id \in Ids : Held(id) /\ keyOf[id] = k => buckets[k] = id

LimitInv == LimitTypeOK /\ IdealInv

\* The limiter is exact: a request is refused only if a bucket of its key that is never
\* dropped had no token left, whatever was swept and evicted in between; and it is
\* admitted only if that one had a token, unless the cap has evicted the key's bucket
\* before it was full again, or it was dropped while another request had it in hand, or
\* the refill time is over maxTTL, to which resolveIdleTTL cuts it, and the bucket was
\* swept before it was full.
LimiterExact ==
  [][\A r \in Callers : lpc[r] = "allow" /\ lpc'[r] # "allow" =>
       LET k == keyOf[held[r]] IN
       /\ lpc'[r] = "refused" => ideal[k] < Cost
       /\ lpc'[r] = "admitted" => loose[k] \/ ideal[k] >= Cost]_limitVars

-----------------------------------------------------------------------------
(* Claims of the source that do not hold *)

\* ratelimit.go:63, "Because an evicted bucket has refilled to full, eviction loses no
\* accuracy": the cap evicts the oldest, full or not.
EvictionLosesNothing == \A k \in Keys : ~ loose[k]

\* ratelimit.go:255, "dropping it is indistinguishable from never having created it": not
\* for the request that has looked it up and not yet used it.
SweptUnused == [][\A id \in swept : ~ Held(id) \/ id \in Live']_limitVars

\* ratelimit.go:75, "The effective TTL is never below the refill-to-full time, so an
\* evicted idle bucket is always full": it is not when that time is over maxTTL.
SweptIsFull == [][\A id \in swept : refilled(id) = Full \/ id \in Live']_limitVars
=============================================================================
