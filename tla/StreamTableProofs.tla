------------------------- MODULE StreamTableProofs -------------------------
(***************************************************************************)
(* Proofs about StreamTable, for every bound on the identifiers, every     *)
(* concurrency limit and every sequence of SETTINGS: first what the        *)
(* operations do to the populations, and that every step keeps the types,  *)
(* the counts and the ownership of the locks; then the seeded windows, the *)
(* promises and the theorems.                                              *)
(***************************************************************************)
EXTENDS StreamTable, FiniteSetTheorems, TLAPS

USE ConstantsAssumption, SMTT(60), ZenonT(60) DEF ConstantsAssumption

-----------------------------------------------------------------------------
\* The two identifiers a reservation looks at have the same parity.
LEMMA EvenStep == \A n \in Nat : ~Odd(n) => n + 2 \in Nat /\ ~Odd(n + 2)
BY DEF Odd

\* The populations are cardinalities of finite sets.
LEMMA IdsFinite == \A S \in SUBSET Ids : IsFiniteSet(S)
<1>1. IsFiniteSet(1..MaxClientId) /\ IsFiniteSet(1..MaxPushId)
  <2>1. 1 \in Int /\ MaxClientId \in Int /\ MaxPushId \in Int
    OBVIOUS
  <2> QED
    BY ONLY <2>1, FS_Interval
<1>2. IsFiniteSet(Ids)
  BY ZenonT(60), <1>1, FS_Union DEF Ids
<1> QED
  BY <1>2, FS_Subset

\* release takes a live stream out of its population, and changes nothing for a
\* stream that is already gone.
LEMMA ReleaseCounts ==
  ASSUME TypeOK, CountsExact, NEW id \in Ids, release(id)
  PROVE  CountsExact' /\ nClient' \in Nat /\ nPush' \in Nat
<1> DEFINE C == {i \in streams : Odd(i)}
           P == {i \in streams : ~Odd(i)}
<1>1. IsFiniteSet(C) /\ IsFiniteSet(P)
  BY IdsFinite DEF TypeOK
<1>2. {i \in streams' : Odd(i)} = C \ {id} /\ {i \in streams' : ~Odd(i)} = P \ {id}
  BY DEF release
<1>3. /\ Cardinality(C \ {id}) = IF id \in C THEN Cardinality(C) - 1
                                 ELSE Cardinality(C)
      /\ Cardinality(P \ {id}) = IF id \in P THEN Cardinality(P) - 1
                                 ELSE Cardinality(P)
  BY ZenonT(60), <1>1, FS_RemoveElement
<1>4. /\ nClient = Cardinality(C) /\ nPush = Cardinality(P)
      /\ nClient' = IF id \in C THEN nClient - 1 ELSE nClient
      /\ nPush' = IF id \in P THEN nPush - 1 ELSE nPush
  BY DEF CountsExact, release
<1>5. /\ nClient' = Cardinality(C \ {id}) /\ nPush' = Cardinality(P \ {id})
  BY <1>3, <1>4
<1>6. IsFiniteSet(C \ {id}) /\ IsFiniteSet(P \ {id})
  BY ZenonT(60), <1>1, FS_RemoveElement
<1>7. nClient' \in Nat /\ nPush' \in Nat
  BY <1>5, <1>6, FS_CardinalityType
<1> QED
  BY ZenonT(60), <1>2, <1>5, <1>7 DEF CountsExact

\* An admission adds an identifier that was not live to the client population.
LEMMA AdmitCounts ==
  ASSUME TypeOK, CountsExact, LiveNotIdle, NEW id \in ClientIds, idle(id),
         admitClient(id)
  PROVE  CountsExact'
<1> DEFINE C == {i \in streams : Odd(i)}
<1>1. IsFiniteSet(C)
  BY IdsFinite DEF TypeOK
<1>2. id \notin streams /\ Odd(id)
  BY DEF LiveNotIdle, ClientIds
<1>3. Cardinality(C \cup {id}) = Cardinality(C) + 1
  BY ZenonT(60), <1>1, <1>2, FS_AddElement
<1>4. CASE Limit > 0 /\ nClient >= Limit
  BY <1>4 DEF admitClient, CountsExact
<1>5. CASE ~(Limit > 0 /\ nClient >= Limit)
  <2>1. /\ {i \in streams' : Odd(i)} = C \cup {id}
        /\ {i \in streams' : ~Odd(i)} = {i \in streams : ~Odd(i)}
    BY <1>2, <1>5 DEF admitClient
  <2> QED
    BY ZenonT(60), <1>3, <1>5, <2>1 DEF admitClient, CountsExact
<1> QED
  BY <1>4, <1>5

\* A reservation adds an identifier that was not live to the pushed population.
LEMMA ReserveCounts ==
  ASSUME TypeOK, CountsExact, LiveNotIdle, nextPush <= MaxPushId, reservePush
  PROVE  CountsExact'
<1> DEFINE P == {i \in streams : ~Odd(i)}
<1>1. IsFiniteSet(P)
  BY IdsFinite DEF TypeOK
<1>2. nextPush \notin streams /\ ~Odd(nextPush)
  BY DEF LiveNotIdle, idle, TypeOK
<1>3. Cardinality(P \cup {nextPush}) = Cardinality(P) + 1
  BY <1>1, <1>2, FS_AddElement
<1>4. /\ {i \in streams' : ~Odd(i)} = P \cup {nextPush}
      /\ {i \in streams' : Odd(i)} = {i \in streams : Odd(i)}
  BY <1>2 DEF reservePush
<1> QED
  BY ZenonT(60), <1>3, <1>4 DEF reservePush, CountsExact

-----------------------------------------------------------------------------
\* The new connection satisfies the invariant, upgraded or not.
LEMMA InitTableInv == Init => TableInv
<1> SUFFICES ASSUME Init PROVE TableInv
  OBVIOUS
<1>1. streams \subseteq {1} /\ streams \subseteq ClientIds /\ ClientIds \subseteq Ids
  BY DEF Init, ClientIds, Ids
<1>2. TypeOK
  <2>1. nextPush \in 2..MaxPushId + 2 /\ ~Odd(nextPush)
    BY DEF Init, Odd
  <2>2. window \in [Ids -> Int] /\ nClient \in Nat /\ nPush \in Nat
    BY DEF Init
  <2>3. maxClient \in {0} \cup ClientIds
    BY DEF Init
  <2>4. peerGoAway \in BOOLEAN /\ closed \in BOOLEAN /\ broken \in BOOLEAN
    BY ZenonT(60) DEF Init
  <2>5. nset \in 0..MaxSettings /\ plim \in [ClientIds -> 0..noStreamLimit]
    BY DEF Init
  <2>6. /\ pc \in [ClientIds ->
                   {"none", "run", "push", "locked", "reserved", "done"}]
        /\ pid \in [ClientIds -> {0} \cup Ids]
    BY DEF Init
  <2>7. /\ ps \in Settings /\ rset \in Settings /\ acked \in Settings
        /\ wmu \in {0} \cup ClientIds /\ rid \in {0} \cup Ids
        /\ promised \subseteq Ids /\ resets \subseteq Ids /\ streams \subseteq Ids
        /\ rpc \in {"read", "miss", "rst", "publish", "ack", "drain", "dead"}
    BY <1>1 DEF Init
  <2> QED
    BY <2>1, <2>2, <2>3, <2>4, <2>5, <2>6, <2>7 DEF TypeOK
<1>3. CountsExact
  <2>1. {i \in streams : ~Odd(i)} = {} /\ {i \in streams : Odd(i)} = streams
    BY ZenonT(60), <1>1 DEF ClientIds
  <2>2. Cardinality({}) = 0 /\ Cardinality({1}) = 1
    BY FS_EmptySet, FS_Singleton
  <2> QED
    BY <2>1, <2>2 DEF Init, CountsExact
<1>4. LiveNotIdle
  BY <1>1 DEF Init, LiveNotIdle, idle, Odd
<1>5. SeededOnce
  BY <1>1 DEF Init, SeededOnce
<1>6. NoOrphanReservation
  BY <1>1 DEF NoOrphanReservation, ClientIds
<1>7. WmuInv
  BY DEF Init, WmuInv, ClientIds
<1>8. WireInv
  <2>1. \A h \in ClientIds : idle(h) => pc[h] = "none"
    BY <1>4 DEF Init, LiveNotIdle
  <2> QED
    BY <2>1 DEF Init, WireInv
<1>9. PushInv
  BY DEF Init, PushInv
<1> QED
  BY <1>2, <1>3, <1>4, <1>5, <1>6, <1>7, <1>8, <1>9 DEF TableInv

\* Every step keeps the variables in their ranges.  The counters need CountsExact:
\* release subtracts.
LEMMA NextTypeOK == TableInv /\ [Next]_vars => TypeOK'
<1> SUFFICES ASSUME TableInv, [Next]_vars PROVE TypeOK'
  OBVIOUS
<1>0. /\ TypeOK /\ CountsExact /\ WireInv /\ PushInv
      /\ ClientIds \subseteq Ids
  BY DEF TableInv, ClientIds, Ids
<1> USE <1>0 DEF TypeOK, tableVars, peerVars, readerVars, handlerVars, histVars
<1>1. ASSUME NEW id \in ClientIds, OnHeaders(id)
      PROVE  TypeOK'
  BY <1>1 DEF OnHeaders, admitClient
<1>2. ASSUME NEW id \in Ids, lookup(id) \/ StreamError(id)
      PROVE  TypeOK'
  BY <1>2 DEF lookup, StreamError
<1>3. ASSUME NEW id \in Ids, ClientEnds(id) \/ writeServerRSTStream(id)
      PROVE  TypeOK'
  BY <1>3, ReleaseCounts DEF ClientEnds, writeServerRSTStream, release
<1>4. CASE isIdleStream
  BY <1>4 DEF isIdleStream
<1>5. CASE ReaderRST
  BY <1>5, ReleaseCounts DEF ReaderRST, release, WireInv
<1>6. ASSUME NEW v \in Settings, OnSettings(v)
      PROVE  TypeOK'
  BY <1>6 DEF OnSettings
<1>7. CASE applyInitialWindow
  BY <1>7 DEF applyInitialWindow, walk
<1>8. CASE writeSettingsAck
  BY <1>8 DEF writeSettingsAck
<1>9. CASE OnGoAway \/ ReaderFails \/ drain
  <2>1. nClient' \in Nat /\ nPush' \in Nat /\ nextPush' \in 2..MaxPushId + 2
    BY <1>9 DEF OnGoAway, ReaderFails, drain
  <2>2. peerGoAway' \in BOOLEAN
    BY ZenonT(60), <1>9 DEF OnGoAway, ReaderFails, drain
  <2> QED
    BY <1>9, <2>1, <2>2 DEF OnGoAway, ReaderFails, drain
<1>10. ASSUME NEW h \in ClientIds, Push(h) \/ LockForPush(h)
       PROVE  TypeOK'
  BY <1>10 DEF Push, LockForPush
<1>11. ASSUME NEW h \in ClientIds, ReservePush(h)
       PROVE  TypeOK'
  <2>1. CASE ~pushRoom(plim[h])
    BY <1>11, <2>1 DEF ReservePush
  <2>2. CASE pushRoom(plim[h])
    <3>1. nextPush \in Ids
      BY <1>11 DEF ReservePush, PushInv, Ids
    <3>2. nextPush' \in 2..MaxPushId + 2 /\ ~Odd(nextPush')
      BY <1>11, <2>2, EvenStep DEF ReservePush, reservePush, PushInv
    <3>3. window' \in [Ids -> Int] /\ nPush' \in Nat /\ nClient' \in Nat
      BY <1>11, <2>2, <3>1 DEF ReservePush, reservePush
    <3>4. /\ streams' \subseteq Ids
          /\ UNCHANGED <<maxClient, wmu, plim, peerVars, readerVars, histVars>>
      BY <1>11, <2>2, <3>1, ZenonT(60) DEF ReservePush, reservePush
    <3>5. /\ pc' \in [ClientIds ->
                      {"none", "run", "push", "locked", "reserved", "done"}]
          /\ pid' \in [ClientIds -> {0} \cup Ids]
      BY <1>11, <2>2, <3>1 DEF ReservePush
    <3> QED
      BY ZenonT(60), <3>2, <3>3, <3>4, <3>5
  <2> QED
    BY <2>1, <2>2
<1>12. ASSUME NEW h \in ClientIds, WritePushPromise(h)
       PROVE  TypeOK'
  <2>1. pid[h] \in Ids
    BY <1>12 DEF WritePushPromise, PushInv
  <2>2. CASE broken
    BY <1>12, <2>1, <2>2, ReleaseCounts DEF WritePushPromise, release
  <2>3. CASE ~broken
    BY <1>12, <2>1, <2>3 DEF WritePushPromise
  <2> QED
    BY <2>2, <2>3
<1>13. ASSUME NEW h \in ClientIds, NEW id \in Ids, LocalEnd(h, id)
       PROVE  TypeOK'
  BY <1>13, ReleaseCounts DEF LocalEnd, release
<1>14. CASE CloseConn \/ TransportFails
  BY ZenonT(60), <1>14 DEF CloseConn, TransportFails
<1>15. CASE UNCHANGED vars
  BY <1>15 DEF vars
<1> QED
  BY ZenonT(60), <1>1, <1>2, <1>3, <1>4, <1>5, <1>6, <1>7, <1>8, <1>9, <1>10, <1>11, <1>12,
     <1>13, <1>14, <1>15 DEF Next, ReaderStep, HandlerStep

\* Every step keeps the populations exact; only four operations touch them.
LEMMA NextCounts == TableInv /\ [Next]_vars => CountsExact'
<1> SUFFICES ASSUME TableInv, [Next]_vars PROVE CountsExact'
  OBVIOUS
<1>0. TypeOK /\ CountsExact /\ LiveNotIdle /\ WireInv /\ PushInv
  BY DEF TableInv
<1>1. ASSUME NEW id \in ClientIds, OnHeaders(id)
      PROVE  CountsExact'
  BY <1>0, <1>1, AdmitCounts DEF OnHeaders
<1>2. ASSUME NEW id \in Ids, release(id)
      PROVE  CountsExact'
  BY <1>0, <1>2, ReleaseCounts
<1>3. CASE drain
  <2>1. /\ {id \in streams' : Odd(id)} = {} /\ {id \in streams' : ~Odd(id)} = {}
        /\ nClient' = 0 /\ nPush' = 0
    BY <1>3 DEF drain
  <2> QED
    BY <2>1, FS_EmptySet DEF CountsExact
<1>4. ASSUME NEW h \in ClientIds, ReservePush(h)
      PROVE  CountsExact'
  <2>1. nextPush <= MaxPushId
    BY <1>0, <1>4 DEF ReservePush, PushInv
  <2>2. CASE pushRoom(plim[h])
    BY <1>0, <1>4, <2>1, <2>2, ReserveCounts DEF ReservePush
  <2>3. CASE ~pushRoom(plim[h])
    BY <1>0, <1>4, <2>3 DEF ReservePush, tableVars, CountsExact
  <2> QED
    BY <2>2, <2>3
<1>5. ASSUME NEW h \in ClientIds, WritePushPromise(h)
      PROVE  CountsExact'
  <2>1. pid[h] \in Ids
    BY <1>0, <1>5 DEF WritePushPromise, PushInv
  <2>2. CASE broken
    BY <1>2, <1>5, <2>1, <2>2 DEF WritePushPromise
  <2>3. CASE ~broken
    BY <1>0, <1>5, <2>3 DEF WritePushPromise, tableVars, CountsExact
  <2> QED
    BY <2>2, <2>3
<1>6. ASSUME UNCHANGED <<streams, nClient, nPush>>
      PROVE  CountsExact'
  BY <1>0, <1>6 DEF CountsExact
<1>7. CASE ReaderStep
  <2>1. CASE ReaderRST
    BY <1>0, <1>2, <1>6, <2>1 DEF ReaderRST, WireInv, tableVars
  <2>2. ASSUME NEW id \in Ids, ClientEnds(id)
        PROVE  CountsExact'
    BY <1>2, <2>2 DEF ClientEnds
  <2> QED
    BY <1>1, <1>3, <1>6, <1>7, <2>1, <2>2
       DEF ReaderStep, lookup, StreamError, isIdleStream, OnSettings,
           applyInitialWindow, writeSettingsAck, OnGoAway, ReaderFails, tableVars
<1>8. ASSUME NEW h \in ClientIds, HandlerStep(h)
      PROVE  CountsExact'
  <2>1. ASSUME NEW id \in Ids, LocalEnd(h, id)
        PROVE  CountsExact'
    BY <1>2, <2>1 DEF LocalEnd
  <2> QED
    BY <1>4, <1>5, <1>6, <1>8, <2>1 DEF HandlerStep, Push, LockForPush, tableVars
<1>9. ASSUME NEW id \in Ids, writeServerRSTStream(id)
      PROVE  CountsExact'
  BY <1>2, <1>9 DEF writeServerRSTStream
<1> QED
  BY <1>6, <1>7, <1>8, <1>9 DEF Next, CloseConn, TransportFails, vars, tableVars

\* The two counters only grow, so an identifier that was opened is never idle
\* again.
LEMMA Monotone ==
  ASSUME TableInv, [Next]_vars
  PROVE  /\ maxClient' >= maxClient /\ nextPush' >= nextPush
         /\ maxClient \in Int /\ nextPush \in Int
         /\ \A id \in Ids : idle(id)' => idle(id)
<1>1. maxClient \in Int /\ nextPush \in Int /\ TypeOK
  BY DEF TableInv, TypeOK, ClientIds
<1>2. ASSUME NEW id \in ClientIds, OnHeaders(id)
      PROVE  maxClient' >= maxClient /\ nextPush' >= nextPush
  BY <1>1, <1>2 DEF OnHeaders, admitClient, idle, ClientIds
<1>3. ASSUME NEW h \in ClientIds, ReservePush(h)
      PROVE  maxClient' >= maxClient /\ nextPush' >= nextPush
  BY <1>1, <1>3 DEF ReservePush, reservePush, tableVars
<1>4. maxClient' >= maxClient /\ nextPush' >= nextPush
  <2>1. CASE UNCHANGED <<maxClient, nextPush>>
    BY <1>1, <2>1
  <2> QED
    BY ZenonT(60), <1>2, <1>3, <2>1
       DEF Next, ReaderStep, HandlerStep, lookup, StreamError, ClientEnds,
           isIdleStream, ReaderRST, OnSettings, applyInitialWindow,
           writeSettingsAck, OnGoAway, ReaderFails, drain, Push, LockForPush,
           WritePushPromise, LocalEnd, writeServerRSTStream, CloseConn,
           TransportFails, release, tableVars, vars
<1>5. maxClient' \in Int /\ nextPush' \in Int
  BY NextTypeOK DEF TypeOK, ClientIds
<1>6. \A id \in Ids : idle(id)' => idle(id)
  BY <1>1, <1>4, <1>5 DEF idle, Ids
<1> QED
  BY <1>1, <1>4, <1>6

\* Where a stream that is live after a step comes from.
LEMMA NewStreams ==
  ASSUME TableInv, [Next]_vars
  PROVE  \/ streams' \subseteq streams
         \/ \E id \in ClientIds : OnHeaders(id) /\ streams' = streams \cup {id}
         \/ \E h \in ClientIds : ReservePush(h) /\ reservePush /\ wmu = h
<1>1. ASSUME NEW id \in ClientIds, OnHeaders(id)
      PROVE  streams' \subseteq streams \/ streams' = streams \cup {id}
  BY <1>1 DEF OnHeaders, admitClient
<1>2. ASSUME NEW h \in ClientIds, ReservePush(h)
      PROVE  streams' \subseteq streams \/ (reservePush /\ wmu = h)
  BY <1>2 DEF ReservePush, tableVars, TableInv, WmuInv
<1>3. ASSUME NEW h \in ClientIds, WritePushPromise(h)
      PROVE  streams' \subseteq streams
  BY <1>3 DEF WritePushPromise, release, tableVars
<1>4. CASE drain
  BY <1>4 DEF drain
<1> QED
  BY ZenonT(60), <1>1, <1>2, <1>3, <1>4
     DEF Next, ReaderStep, HandlerStep, lookup, StreamError, ClientEnds,
         isIdleStream, ReaderRST, OnSettings, applyInitialWindow,
         writeSettingsAck, OnGoAway, ReaderFails, Push, LockForPush, LocalEnd,
         writeServerRSTStream, CloseConn, TransportFails, release, tableVars,
         vars

\* Where a stream reset by a step comes from.
LEMMA NewResets ==
  ASSUME TableInv, [Next]_vars
  PROVE  \/ resets' = resets
         \/ /\ wmu = 0 /\ wmu' = 0
            /\ \E id \in Ids : /\ ~idle(id) /\ UNCHANGED <<maxClient, nextPush>>
                              /\ resets' = resets \cup {id}
                              /\ streams' = streams \ {id}
<1>1. CASE ReaderRST
  BY ZenonT(60), <1>1 DEF ReaderRST, release, TableInv, WireInv
<1>2. ASSUME NEW id \in Ids, writeServerRSTStream(id)
      PROVE  \/ resets' = resets
             \/ /\ wmu = 0 /\ wmu' = 0 /\ ~idle(id)
                /\ UNCHANGED <<maxClient, nextPush>>
                /\ resets' = resets \cup {id} /\ streams' = streams \ {id}
  BY <1>2 DEF writeServerRSTStream, release, TableInv, LiveNotIdle
<1> QED
  BY ZenonT(60), <1>1, <1>2
     DEF Next, ReaderStep, HandlerStep, OnHeaders, lookup, StreamError,
         ClientEnds, isIdleStream, OnSettings, applyInitialWindow,
         writeSettingsAck, OnGoAway, ReaderFails, drain, Push, LockForPush,
         ReservePush, WritePushPromise, LocalEnd, CloseConn, TransportFails,
         histVars, vars

\* A live or reset stream is never idle.
LEMMA NextLive == TableInv /\ [Next]_vars => LiveNotIdle'
<1> SUFFICES ASSUME TableInv, [Next]_vars, NEW id \in (streams \cup resets)'
             PROVE  ~idle(id)'
  BY DEF LiveNotIdle
<1>1. TypeOK /\ TypeOK' /\ LiveNotIdle
  BY NextTypeOK DEF TableInv
<1>2. id \in Ids /\ streams \subseteq Ids /\ resets \subseteq Ids
  BY <1>1 DEF TypeOK
<1>3. CASE id \in streams \cup resets
  BY <1>1, <1>2, <1>3, Monotone DEF LiveNotIdle
<1>4. CASE id \notin streams /\ id \in streams'
  <2>1. ASSUME NEW i \in ClientIds, OnHeaders(i), streams' = streams \cup {i}
        PROVE  ~idle(id)'
    <3>1. id = i /\ Odd(id) /\ maxClient' = id
      BY <1>4, <2>1 DEF OnHeaders, admitClient, ClientIds
    <3> QED
      BY <1>2, <3>1 DEF idle, Ids
  <2>2. ASSUME reservePush
        PROVE  ~idle(id)'
    <3>1. id = nextPush /\ ~Odd(id) /\ nextPush' = id + 2
      BY <1>1, <1>4, <2>2 DEF reservePush, TypeOK
    <3> QED
      BY <1>2, <3>1 DEF idle, Ids
  <2> QED
    BY <1>4, <2>1, <2>2, NewStreams
<1>5. CASE id \notin resets /\ id \in resets'
  BY <1>2, <1>5, NewResets, Monotone
<1> QED
  BY <1>3, <1>4, <1>5

\* wmu is taken by LockForPush alone and given back by whoever holds it.
LEMMA NextWmu == TableInv /\ [Next]_vars => WmuInv'
<1> SUFFICES ASSUME TableInv, [Next]_vars PROVE WmuInv'
  OBVIOUS
<1>0. TypeOK /\ WmuInv /\ \A h \in ClientIds : h # 0
  BY DEF TableInv, ClientIds
<1>1. ASSUME NEW h \in ClientIds, HandlerStep(h)
      PROVE  WmuInv'
  <2>1. CASE Push(h)
    BY <1>0, <2>1 DEF Push, WmuInv, TypeOK
  <2>2. CASE LockForPush(h)
    BY <1>0, <2>2 DEF LockForPush, WmuInv, TypeOK
  <2>3. CASE ReservePush(h)
    BY <1>0, <2>3 DEF ReservePush, WmuInv, TypeOK
  <2>4. CASE WritePushPromise(h)
    BY <1>0, <2>4 DEF WritePushPromise, WmuInv, TypeOK
  <2>5. ASSUME NEW id \in Ids, LocalEnd(h, id)
        PROVE  WmuInv'
    BY <1>0, <2>5 DEF LocalEnd, WmuInv, TypeOK
  <2> QED
    BY ZenonT(60), <1>1, <2>1, <2>2, <2>3, <2>4, <2>5 DEF HandlerStep
<1>2. ASSUME NEW id \in ClientIds, OnHeaders(id)
      PROVE  WmuInv'
  <2>1. pc[id] = "none"
    BY <1>2 DEF OnHeaders, TableInv, WireInv
  <2> QED
    BY <1>0, <1>2, <2>1 DEF OnHeaders, WmuInv, TypeOK
<1>3. CASE UNCHANGED <<pc, wmu>>
  BY <1>0, <1>3 DEF WmuInv
<1> QED
  BY <1>1, <1>2, <1>3
     DEF Next, ReaderStep, lookup, StreamError, ClientEnds, isIdleStream,
         ReaderRST, OnSettings, applyInitialWindow, writeSettingsAck, OnGoAway,
         ReaderFails, drain, writeServerRSTStream, CloseConn, TransportFails,
         handlerVars, vars

-----------------------------------------------------------------------------
\* Every live stream keeps the window of the published SETTINGS: admission and
\* the walk are both sections of the table's lock.
LEMMA NextSeeded == TableInv /\ [Next]_vars => SeededOnce'
<1> SUFFICES ASSUME TableInv, [Next]_vars PROVE SeededOnce'
  OBVIOUS
<1>0. TypeOK /\ SeededOnce /\ ClientIds \subseteq Ids
  BY DEF TableInv, ClientIds, Ids
<1>1. CASE applyInitialWindow
  <2>1. \A v \in Settings : v.win \in Nat
    OBVIOUS
  <2> QED
    BY <1>0, <1>1, <2>1 DEF applyInitialWindow, walk, SeededOnce, TypeOK
<1>2. ASSUME NEW id \in ClientIds, OnHeaders(id)
      PROVE  SeededOnce'
  BY <1>0, <1>2 DEF OnHeaders, admitClient, SeededOnce, TypeOK, peerVars
<1>3. ASSUME NEW h \in ClientIds, ReservePush(h)
      PROVE  SeededOnce'
  <2>1. nextPush \in Ids
    BY <1>0, <1>3 DEF ReservePush, TableInv, PushInv, TypeOK, Ids
  <2> QED
    <3>1. CASE ~pushRoom(plim[h])
      BY <1>0, <1>3, <3>1 DEF ReservePush, SeededOnce, peerVars, tableVars
    <3>2. CASE pushRoom(plim[h])
      <4>1. /\ streams' = streams \cup {nextPush} /\ ps' = ps
            /\ window' = [window EXCEPT ![nextPush] = ps.win]
        BY <1>3, <3>2 DEF ReservePush, reservePush, peerVars
      <4>2. window \in [Ids -> Int] /\ streams \subseteq Ids
        BY <1>0 DEF TypeOK
      <4> QED
        BY <1>0, <2>1, <4>1, <4>2 DEF SeededOnce
    <3> QED
      BY <3>1, <3>2
<1>4. ASSUME streams' \subseteq streams, UNCHANGED <<window, ps>>
      PROVE  SeededOnce'
  BY <1>0, <1>4 DEF SeededOnce
<1>5. ASSUME NEW h \in ClientIds, WritePushPromise(h)
      PROVE  SeededOnce'
  BY <1>4, <1>5 DEF WritePushPromise, release, tableVars, peerVars
<1>6. CASE drain
  BY <1>4, <1>6 DEF drain, peerVars
<1> QED
  BY ZenonT(60), <1>1, <1>2, <1>3, <1>4, <1>5, <1>6
     DEF Next, ReaderStep, HandlerStep, lookup, StreamError, ClientEnds,
         isIdleStream, ReaderRST, OnSettings, writeSettingsAck, OnGoAway,
         ReaderFails, Push, LockForPush, LocalEnd, writeServerRSTStream,
         CloseConn, TransportFails, release, tableVars, peerVars, vars

\* Where a promised identifier comes from: the handler that reserved it.
LEMMA NewPromise ==
  ASSUME TableInv, [Next]_vars, promised' # promised
  PROVE  \E h \in ClientIds :
           /\ WritePushPromise(h) /\ pc[h] = "reserved" /\ wmu = h
           /\ promised' = promised \cup {pid[h]}
           /\ UNCHANGED <<streams, nextPush, nPush>>
<1>1. ASSUME NEW h \in ClientIds, WritePushPromise(h)
      PROVE  /\ pc[h] = "reserved" /\ wmu = h
             /\ promised' = promised \cup {pid[h]}
             /\ UNCHANGED <<streams, nextPush, nPush>>
  BY <1>1 DEF WritePushPromise, tableVars, TableInv, WmuInv
<1> QED
  BY <1>1
     DEF Next, ReaderStep, HandlerStep, OnHeaders, lookup, StreamError,
         ClientEnds, isIdleStream, ReaderRST, OnSettings, applyInitialWindow,
         writeSettingsAck, OnGoAway, ReaderFails, drain, Push, LockForPush,
         ReservePush, LocalEnd, writeServerRSTStream, CloseConn, TransportFails,
         histVars, vars

\* The reader's part of the invariant.
LEMMA NextWire == TableInv /\ [Next]_vars => WireInv'
<1> SUFFICES ASSUME TableInv, [Next]_vars PROVE WireInv'
  OBVIOUS
<1>0. TypeOK /\ TypeOK' /\ WireInv /\ LiveNotIdle /\ PushInv
  BY NextTypeOK DEF TableInv
<1>1. rpc' = "rst" => rid' \in Ids /\ (~idle(rid))'
  <2>1. ASSUME NEW id \in ClientIds, OnHeaders(id), rpc' = "rst"
        PROVE  rid' \in Ids /\ (~idle(rid))'
    <3>1. rid' = id /\ Odd(id) /\ maxClient' = id /\ id \in Int /\ id \in Ids
      BY <2>1 DEF OnHeaders, admitClient, ReaderIdle, ClientIds, Ids
    <3> QED
      BY <3>1 DEF idle
  <2>2. ASSUME rpc = "rst", UNCHANGED <<rpc, rid>>
        PROVE  rid' \in Ids /\ (~idle(rid))'
    BY <1>0, <2>2, Monotone DEF WireInv
  <2>3. ASSUME NEW id \in Ids, StreamError(id)
        PROVE  rid' \in Ids /\ (~idle(rid))'
    BY <1>0, <2>3, Monotone DEF StreamError, LiveNotIdle
  <2> QED
    BY ZenonT(60), <2>1, <2>2, <2>3
       DEF Next, ReaderStep, HandlerStep, lookup, ClientEnds, isIdleStream,
           ReaderRST, OnSettings, applyInitialWindow, writeSettingsAck,
           OnGoAway, ReaderFails, drain, Push, LockForPush, ReservePush,
           WritePushPromise, LocalEnd, writeServerRSTStream, CloseConn,
           TransportFails, readerVars, vars
<1>2. rpc' \notin {"ack", "drain", "dead"} => acked' = ps'
  BY ZenonT(60), <1>0
     DEF Next, ReaderStep, HandlerStep, OnHeaders, lookup, StreamError,
         ClientEnds, isIdleStream, ReaderRST, OnSettings, applyInitialWindow,
         writeSettingsAck, OnGoAway, ReaderFails, drain, Push, LockForPush,
         ReservePush, WritePushPromise, LocalEnd, writeServerRSTStream,
         CloseConn, TransportFails, ReaderIdle, readerVars, peerVars, histVars,
         vars, WireInv
<1>3. (streams \cap resets)' = {}
  <2>1. ASSUME NEW id \in ClientIds, OnHeaders(id), streams' = streams \cup {id}
        PROVE  (streams \cap resets)' = {}
    BY <1>0, <2>1 DEF OnHeaders, histVars, LiveNotIdle, WireInv
  <2>2. ASSUME NEW h \in ClientIds, ReservePush(h), reservePush
        PROVE  (streams \cap resets)' = {}
    BY <1>0, <2>2 DEF ReservePush, reservePush, histVars, LiveNotIdle, WireInv,
       idle, TypeOK
  <2>3. CASE streams' \subseteq streams
    BY <1>0, <2>3, NewResets DEF WireInv
  <2> QED
    BY <2>1, <2>2, <2>3, NewStreams
<1>4. \A id \in promised' : id < nextPush'
  <2>1. CASE promised' = promised
    BY <1>0, <2>1, Monotone DEF WireInv, TypeOK, Ids
  <2>2. CASE promised' # promised
    <3>1. PICK h \in ClientIds : /\ pc[h] = "reserved"
                                 /\ promised' = promised \cup {pid[h]}
                                 /\ UNCHANGED nextPush
      BY <2>2, NewPromise
    <3>2. pid[h] < nextPush
      BY <1>0, <3>1, Monotone DEF PushInv
    <3> QED
      BY <1>0, <3>1, <3>2 DEF WireInv
  <2> QED
    BY <2>1, <2>2
<1>5. \A h \in ClientIds : idle(h)' => pc'[h] = "none"
  <2> SUFFICES ASSUME NEW h \in ClientIds, idle(h)' PROVE pc'[h] = "none"
    OBVIOUS
  <2>1. h \in Ids /\ Odd(h) /\ h \in Int
    BY DEF ClientIds, Ids
  <2>2. idle(h) /\ pc[h] = "none"
    BY <1>0, <2>1, Monotone DEF WireInv
  <2>3. ASSUME NEW id \in ClientIds, OnHeaders(id)
        PROVE  pc'[h] = "none"
    <3>1. h # id
      BY <2>1, <2>3 DEF OnHeaders, admitClient, idle
    <3> QED
      BY <1>0, <2>2, <2>3, <3>1 DEF OnHeaders, TypeOK
  <2>4. ASSUME NEW g \in ClientIds, HandlerStep(g)
        PROVE  pc'[h] = "none"
    BY <1>0, <2>2, <2>4 DEF HandlerStep, Push, LockForPush, ReservePush,
       WritePushPromise, LocalEnd, TypeOK
  <2> QED
    BY <2>2, <2>3, <2>4
       DEF Next, ReaderStep, lookup, StreamError, ClientEnds, isIdleStream,
           ReaderRST, OnSettings, applyInitialWindow, writeSettingsAck,
           OnGoAway, ReaderFails, drain, writeServerRSTStream, CloseConn,
           TransportFails, handlerVars, vars
<1> QED
  BY <1>1, <1>2, <1>3, <1>4, <1>5 DEF WireInv

\* A push that is registered is promised or held by the handler about to do so.
LEMMA NextOrphan == TableInv /\ [Next]_vars => NoOrphanReservation'
<1> SUFFICES ASSUME TableInv, [Next]_vars, NEW id \in streams', ~Odd(id),
                    id \notin promised'
             PROVE  \E h \in ClientIds : pc'[h] = "reserved" /\ pid'[h] = id
  BY DEF NoOrphanReservation
<1>0. TypeOK /\ NoOrphanReservation /\ WmuInv /\ WireInv /\ \A h \in ClientIds : h # 0
  BY DEF TableInv, ClientIds
<1>1. CASE id \notin streams
  <2>1. PICK h \in ClientIds : ReservePush(h) /\ reservePush
    BY <1>1, NewStreams DEF ClientIds
  <2>2. id = nextPush
    BY <1>1, <2>1 DEF reservePush
  <2>3. pc'[h] = "reserved" /\ pid'[h] = nextPush
    BY <1>0, <2>1 DEF ReservePush, reservePush, TypeOK, tableVars
  <2> QED
    BY <2>2, <2>3
<1>2. CASE id \in streams
  <2>1. promised \subseteq promised'
    BY NewPromise
  <2>2. PICK h \in ClientIds : pc[h] = "reserved" /\ pid[h] = id
    BY <1>0, <1>2, <2>1 DEF NoOrphanReservation
  <2>3. ASSUME NEW g \in ClientIds, HandlerStep(g)
        PROVE  pc'[h] = "reserved" /\ pid'[h] = id
    <3>1. CASE g # h
      <4>1. pc[g] \notin {"locked", "reserved"}
        BY <1>0, <2>2, <3>1 DEF WmuInv
      <4> QED
        BY <1>0, <2>2, <2>3, <3>1, <4>1 DEF HandlerStep, Push, LockForPush,
           ReservePush, WritePushPromise, LocalEnd, TypeOK
    <3>2. CASE g = h
      <4>1. WritePushPromise(h)
        BY <2>2, <2>3, <3>2 DEF HandlerStep, Push, LockForPush, ReservePush,
           LocalEnd
      <4>2. id \notin streams'
        BY <2>2, <4>1 DEF WritePushPromise, release
      <4> QED
        BY <4>2
    <3> QED
      BY <3>1, <3>2
  <2>4. ASSUME NEW i \in ClientIds, OnHeaders(i)
        PROVE  pc'[h] = "reserved" /\ pid'[h] = id
    <3>1. pc[i] = "none"
      BY <1>0, <2>4 DEF OnHeaders, WireInv
    <3> QED
      BY <1>0, <2>2, <2>4, <3>1 DEF OnHeaders, TypeOK
  <2>5. pc'[h] = "reserved" /\ pid'[h] = id
    BY ZenonT(60), <2>2, <2>3, <2>4
       DEF Next, ReaderStep, lookup, StreamError, ClientEnds, isIdleStream,
           ReaderRST, OnSettings, applyInitialWindow, writeSettingsAck,
           OnGoAway, ReaderFails, drain, writeServerRSTStream, CloseConn,
           TransportFails, handlerVars, vars
  <2> QED
    BY <2>5
<1> QED
  BY <1>1, <1>2

\* What writePushPromise read under wmu stays true until it unlocks: the ACK and
\* both RST_STREAM writers wait for wmu, and releases only lower nPush.
LEMMA NextPush == TableInv /\ [Next]_vars => PushInv'
<1> SUFFICES ASSUME TableInv, [Next]_vars, NEW h \in ClientIds,
                    pc'[h] \in {"locked", "reserved"}
             PROVE  /\ h \notin resets' /\ plim'[h] \in {acked'.limit, ps'.limit}
                    /\ pc'[h] = "locked" => nextPush' <= MaxPushId
                    /\ pc'[h] = "reserved" =>
                         /\ Within(plim[h])'
                         /\ pid'[h] \in Ids /\ pid'[h] = nextPush' - 2
                         /\ \A id \in promised' : id < pid'[h]
  BY ZenonT(60) DEF PushInv
<1> DEFINE Goal == /\ h \notin resets' /\ plim'[h] \in {acked'.limit, ps'.limit}
                   /\ pc'[h] = "locked" => nextPush' <= MaxPushId
                   /\ pc'[h] = "reserved" =>
                        /\ Within(plim[h])'
                        /\ pid'[h] \in Ids /\ pid'[h] = nextPush' - 2
                        /\ \A id \in promised' : id < pid'[h]
<1>0. /\ TypeOK /\ WmuInv /\ WireInv /\ PushInv /\ CountsExact /\ LiveNotIdle
      /\ \A g \in ClientIds : g # 0
      /\ h \in Ids
  BY DEF TableInv, ClientIds, Ids
<1>1. CASE LockForPush(h)
  BY <1>0, <1>1 DEF LockForPush, tableVars, peerVars, histVars, WireInv, TypeOK
<1>2. CASE ReservePush(h)
  <2>1. pushRoom(plim[h]) /\ reservePush /\ pid' = [pid EXCEPT ![h] = nextPush]
        /\ pc[h] = "locked" /\ UNCHANGED <<plim, acked, ps, resets, promised>>
    BY <1>0, <1>2 DEF ReservePush, TypeOK, peerVars, histVars
  <2>2. nextPush \in Ids /\ nextPush' = nextPush + 2 /\ nPush' = nPush + 1
    BY <1>0, <2>1 DEF reservePush, PushInv, TypeOK, Ids
  <2>3. Within(plim[h])'
    BY <1>0, <2>1, <2>2 DEF Within, pushRoom, TypeOK
  <2>4. pid'[h] = nextPush /\ nextPush \in Int
    BY <1>0, <2>1 DEF TypeOK
  <2>5. \A id \in promised' : id < pid'[h]
    BY <1>0, <2>1, <2>4 DEF WireInv
  <2>6. pc'[h] = "reserved"
    BY <1>0, <1>2, <2>1 DEF ReservePush, TypeOK
  <2>7. h \notin resets' /\ plim'[h] \in {acked'.limit, ps'.limit}
    BY <1>0, <2>1 DEF PushInv
  <2>8. pid'[h] \in Ids /\ pid'[h] = nextPush' - 2
    BY <2>2, <2>4
  <2> QED
    BY ZenonT(60), <2>3, <2>5, <2>6, <2>7, <2>8
<1>p. /\ pc[h] \in {"locked", "reserved"} =>
            h \notin resets /\ plim[h] \in {acked.limit, ps.limit}
      /\ pc[h] = "locked" => nextPush <= MaxPushId
      /\ pc[h] = "reserved" =>
           /\ Within(plim[h])
           /\ pid[h] \in Ids /\ pid[h] = nextPush - 2
           /\ \A id \in promised : id < pid[h]
  BY ZenonT(60), <1>0 DEF PushInv
<1> DEFINE Same == /\ UNCHANGED <<nextPush, promised, resets>>
                   /\ nPush' <= nPush /\ nPush' \in Int
           Mine == pc'[h] = pc[h] /\ plim'[h] = plim[h] /\ pid'[h] = pid[h]
<1>3. ASSUME Same, Mine, plim[h] \in {acked'.limit, ps'.limit}
      PROVE  Goal
  <2>1. h \notin resets' /\ plim'[h] \in {acked'.limit, ps'.limit}
    BY ZenonT(60), <1>p, <1>3
  <2>2. pc'[h] = "locked" => nextPush' <= MaxPushId
    BY ZenonT(60), <1>p, <1>3
  <2>3. ASSUME pc'[h] = "reserved"
        PROVE  Within(plim[h])' /\ pid'[h] \in Ids /\ pid'[h] = nextPush' - 2
               /\ \A id \in promised' : id < pid'[h]
    <3>1. /\ pc[h] = "reserved"
          /\ Within(plim[h]) /\ pid[h] \in Ids /\ pid[h] = nextPush - 2
          /\ \A id \in promised : id < pid[h]
      BY ZenonT(60), <1>p, <1>3, <2>3
    <3>2. plim[h] \in Int /\ nPush \in Int
      BY <1>0 DEF TypeOK
    <3>3. plim'[h] = plim[h] /\ nPush' <= nPush /\ nPush' \in Int
      BY ZenonT(60), <1>3
    <3>4. Within(plim[h])'
      BY ONLY <3>1, <3>2, <3>3 DEF Within
    <3> QED
      BY ZenonT(60), <1>3, <3>1, <3>4
  <2> QED
    BY <2>1, <2>2, <2>3
<1>4. nPush \in Int /\ (UNCHANGED nPush => nPush' <= nPush /\ nPush' \in Int)
  BY <1>0 DEF TypeOK
<1>5. \A id \in Ids : release(id) => nPush' <= nPush /\ nPush' \in Int
  BY <1>0 DEF release, TypeOK
<1>6. ASSUME UNCHANGED handlerVars
      PROVE  Mine /\ wmu # 0 /\ plim[h] \in {acked.limit, ps.limit}
  <2>1. Mine
    BY <1>6 DEF handlerVars
  <2> QED
    BY <1>0, <2>1 DEF WmuInv, PushInv
<1>7. ASSUME Same, UNCHANGED <<handlerVars, acked, ps>>
      PROVE  Goal
  BY <1>3, <1>6, <1>7
<1> HIDE DEF Goal
<1>8. ASSUME NEW g \in ClientIds, HandlerStep(g), ~LockForPush(h), ~ReservePush(h)
      PROVE  Goal
  <2>1. g # h
    <3>1. ASSUME g = h PROVE FALSE
      <4>1. CASE Push(h)
        BY <1>0, <4>1 DEF Push, TypeOK
      <4>2. CASE WritePushPromise(h)
        BY <1>0, <4>2 DEF WritePushPromise, TypeOK
      <4>3. ASSUME NEW id \in Ids, LocalEnd(h, id) PROVE FALSE
        BY <1>0, <4>3 DEF LocalEnd, TypeOK
      <4> QED
        BY <1>8, <3>1, <4>1, <4>2, <4>3 DEF HandlerStep
    <3> QED
      BY <3>1
  <2>2. Mine
    <3>1. CASE Push(g)
      BY <1>0, <2>1, <3>1 DEF Push, TypeOK
    <3>2. CASE LockForPush(g)
      BY <1>0, <2>1, <3>2 DEF LockForPush, TypeOK
    <3>3. CASE ReservePush(g)
      BY <1>0, <2>1, <3>3 DEF ReservePush, TypeOK
    <3>4. CASE WritePushPromise(g)
      BY <1>0, <2>1, <3>4 DEF WritePushPromise, TypeOK
    <3>5. ASSUME NEW id \in Ids, LocalEnd(g, id) PROVE Mine
      BY <1>0, <2>1, <3>5 DEF LocalEnd, TypeOK
    <3> QED
      BY <1>8, <3>1, <3>2, <3>3, <3>4, <3>5 DEF HandlerStep
  <2>3. wmu = h /\ pc[g] \notin {"locked", "reserved"}
    BY <1>0, <2>1, <2>2 DEF WmuInv
  <2>4. plim[h] \in {acked.limit, ps.limit}
    BY <1>0, <2>2 DEF PushInv
  <2>5. CASE Push(g)
    <3>1. UNCHANGED <<nextPush, promised, resets, nPush, acked, ps>>
      BY <2>5 DEF Push, tableVars, peerVars, histVars
    <3> QED
      BY <1>3, <1>4, <2>2, <2>4, <3>1
  <2>6. ASSUME NEW id \in Ids, LocalEnd(g, id)
        PROVE  Goal
    <3>1. UNCHANGED <<nextPush, promised, resets, acked, ps>> /\ release(id)
      BY <2>6 DEF LocalEnd, release, peerVars, histVars
    <3> QED
      BY <1>3, <1>5, <2>2, <2>4, <3>1
  <2>7. ~LockForPush(g) /\ ~ReservePush(g) /\ ~WritePushPromise(g)
    BY <1>0, <2>3 DEF LockForPush, ReservePush, WritePushPromise
  <2> QED
    BY ZenonT(60), <1>8, <2>5, <2>6, <2>7 DEF HandlerStep
<1>9. ASSUME NEW i \in ClientIds, OnHeaders(i)
      PROVE  Goal
  <2>1. pc[i] = "none" /\ pc'[i] \in {"none", "run"}
    BY <1>0, <1>9 DEF OnHeaders, WireInv, TypeOK
  <2>2. pc'[h] = pc[h]
    BY <1>0, <1>9, <2>1 DEF OnHeaders, TypeOK
  <2>3. plim[h] \in {acked.limit, ps.limit}
    BY <1>0, <2>2 DEF PushInv
  <2>4. UNCHANGED <<nextPush, promised, resets, nPush, acked, ps, plim, pid>>
    BY <1>9 DEF OnHeaders, admitClient, peerVars, histVars
  <2> QED
    BY <1>3, <1>4, <2>2, <2>3, <2>4
<1>10. ASSUME NEW id \in Ids, ClientEnds(id)
       PROVE  Goal
  <2>1. UNCHANGED <<nextPush, promised, resets, handlerVars, acked, ps>> /\ release(id)
    BY <1>10 DEF ClientEnds, release, peerVars, histVars
  <2> QED
    BY <1>5, <1>7, <2>1
<1>11. ASSUME UNCHANGED <<tableVars, ps, handlerVars, histVars>>
       PROVE  Goal
  <2>1. UNCHANGED <<nextPush, promised, resets, nPush, acked>>
    BY <1>11 DEF tableVars, histVars
  <2> QED
    BY <1>4, <1>7, <1>11, <2>1
<1>12. ASSUME NEW id \in Ids, lookup(id) \/ StreamError(id)
       PROVE  Goal
  BY ZenonT(60), <1>11, <1>12 DEF lookup, StreamError, peerVars
<1>13. ASSUME isIdleStream \/ ReaderFails \/ UNCHANGED vars
       PROVE  Goal
  <2>1. UNCHANGED <<tableVars, ps, handlerVars, histVars>>
    BY <1>13 DEF isIdleStream, ReaderFails, peerVars, vars
  <2> QED
    BY <1>11, <2>1
<1>14. ASSUME OnGoAway \/ CloseConn \/ TransportFails
       PROVE  Goal
  BY ZenonT(60), <1>11, <1>14 DEF OnGoAway, CloseConn, TransportFails
<1>15. ASSUME writeSettingsAck \/ \E v \in Settings : OnSettings(v)
       PROVE  Goal
  BY ZenonT(60), <1>6, <1>15 DEF writeSettingsAck, OnSettings
<1>16. ASSUME applyInitialWindow
       PROVE  Goal
  <2>1. /\ UNCHANGED <<nextPush, promised, resets, nPush, acked, handlerVars>>
        /\ rpc = "publish"
    BY <1>16 DEF applyInitialWindow, histVars
  <2>2. acked = ps /\ plim[h] = acked'.limit
    BY <1>0, <1>6, <2>1, ZenonT(60) DEF WireInv
  <2> QED
    BY <1>3, <1>4, <1>6, <2>1, <2>2
<1>17. ASSUME drain
       PROVE  Goal
  <2>1. UNCHANGED <<nextPush, promised, resets, acked, ps, handlerVars>> /\ nPush' = 0
    BY <1>17 DEF drain, peerVars, histVars
  <2>2. nPush' <= nPush /\ nPush' \in Int
    BY <1>0, <2>1 DEF TypeOK
  <2> QED
    BY <1>7, <2>1, <2>2
<1>18. ASSUME ReaderRST \/ \E id \in Ids : writeServerRSTStream(id)
       PROVE  Goal
  <2>1. UNCHANGED <<handlerVars, promised, acked, ps>>
    BY ZenonT(60), <1>18 DEF ReaderRST, writeServerRSTStream, peerVars
  <2>2. wmu # 0
    BY ZenonT(60), <1>6, <2>1
  <2>3. /\ resets' = resets
        /\ UNCHANGED tableVars \/ \E id \in Ids : release(id)
    BY ZenonT(60), <1>0, <1>18, <2>2 DEF ReaderRST, writeServerRSTStream, WireInv
  <2>4. nextPush' = nextPush /\ nPush' <= nPush /\ nPush' \in Int
    BY ZenonT(60), <1>4, <1>5, <2>3 DEF release, tableVars
  <2> QED
    BY ZenonT(60), <1>7, <2>1, <2>3, <2>4
<1> QED
  BY ZenonT(60), <1>1, <1>2, <1>8, <1>9, <1>10, <1>12, <1>13, <1>14, <1>15, <1>16,
     <1>17, <1>18 DEF Next, ReaderStep, Goal

-----------------------------------------------------------------------------
(* Theorems *)

\* One step of the reader, a handler, Close or the transport keeps the inductive
\* invariant of the stream table.
LEMMA NextTableInv == TableInv /\ [Next]_vars => TableInv'
BY NextTypeOK, NextCounts, NextLive, NextSeeded, NextOrphan, NextWmu, NextWire,
   NextPush DEF TableInv

\* The inductive invariant of the stream table holds in every reachable state.
THEOREM TableInvariant == Spec => []TableInv
BY InitTableInv, NextTableInv, PTL DEF Spec

\* nClient and nPush are the live populations: admission, reservation, release
\* and drain keep them exact for any interleaving.
THEOREM PopulationsExact == Spec => []CountsExact
<1>1. TableInv => CountsExact
  BY DEF TableInv
<1> QED
  BY <1>1, TableInvariant, PTL

\* An identifier is never live, or reset on the wire, and idle at once.
THEOREM NeverIdleAndLive == Spec => []LiveNotIdle
<1>1. TableInv => LiveNotIdle
  BY DEF TableInv
<1> QED
  BY <1>1, TableInvariant, PTL

\* Seeding and the retroactive walk never both apply a SETTINGS change to a
\* stream, and never both miss it.
THEOREM WindowSeededOnce == Spec => []SeededOnce
<1>1. TableInv => SeededOnce
  BY DEF TableInv
<1> QED
  BY <1>1, TableInvariant, PTL

\* A failed PUSH_PROMISE gives its reservation back.
THEOREM ReservationsReturned == Spec => []NoOrphanReservation
<1>1. TableInv => NoOrphanReservation
  BY DEF TableInv
<1> QED
  BY <1>1, TableInvariant, PTL

\* No PUSH_PROMISE exceeds the limit the peer has seen acknowledged: the limit is
\* read under the wmu section that writes the frame.
THEOREM PushLimitRespected == Spec => [][PromiseWithinLimit]_vars
<1>1. TableInv /\ [Next]_vars => [PromiseWithinLimit]_vars
  BY ZenonT(60), NewPromise DEF TableInv, PushInv, PromiseWithinLimit
<1> QED
  BY <1>1, TableInvariant, PTL DEF Spec

\* Promised identifiers appear on the wire in increasing order: the identifier is
\* reserved under the wmu section that writes it.
THEOREM PromisesOrdered == Spec => [][PromisedInOrder]_vars
<1>1. TableInv /\ [Next]_vars => [PromisedInOrder]_vars
  <2> SUFFICES ASSUME TableInv, [Next]_vars, NEW x \in promised' \ promised,
                      NEW y \in promised
               PROVE  x > y
    BY DEF PromisedInOrder
  <2>1. PICK h \in ClientIds : pc[h] = "reserved"
                               /\ promised' = promised \cup {pid[h]}
    BY NewPromise
  <2>2. x = pid[h] /\ y < pid[h] /\ x \in Ids /\ y \in Ids
    BY <2>1 DEF TableInv, PushInv, TypeOK
  <2> QED
    BY <2>2 DEF Ids
<1> QED
  BY <1>1, TableInvariant, PTL DEF Spec

\* No PUSH_PROMISE follows this server's RST_STREAM on the parent.
THEOREM NoPromiseAfterReset == Spec => [][NoPromiseOnReset]_vars
<1>1. TableInv /\ [Next]_vars => [NoPromiseOnReset]_vars
  BY DEF TableInv, PushInv, NoPromiseOnReset
<1> QED
  BY <1>1, TableInvariant, PTL DEF Spec

\* Every PUSH_PROMISE on the wire is one the peer must accept, for any number of
\* streams, limits and SETTINGS.
THEOREM EveryPromiseLegal == Spec => PromisesLegal
BY PushLimitRespected, PromisesOrdered, NoPromiseAfterReset, PTL DEF PromisesLegal

=============================================================================
