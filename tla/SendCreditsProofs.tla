------------------------- MODULE SendCreditsProofs -------------------------
(***************************************************************************)
(* Proofs about SendCredits, for every set of writers and streams, every   *)
(* window bound and every sequence of grants: first the conjuncts of       *)
(* CreditInv that say which variable holds what (TypeOK, ReaderInv,        *)
(* WriterInv, WaitersLinked, HeldInv, FcConnBlockedExact), each taken      *)
(* through one step, after the windows; then wakeups and the ledgers.      *)
(***************************************************************************)
EXTENDS SendCredits, TotalsProofs

USE ConstantsAssumption, ZenonT(60) DEF ConstantsAssumption

-----------------------------------------------------------------------------
\* The four places a window's credit can be, added up.
Sum(a, b, c, d) == a + b + c + d

\* An equation the provers instantiate and do not rewrite with.
Same(x, y) == x = y

\* What moving credit between those places does to the sum.
LEMMA SumTaken ==
  ASSUME NEW a \in Int, NEW b \in Nat, NEW c \in Nat, NEW d \in Nat, NEW n \in Nat
  PROVE  Same(Sum(a - n, b + n, c, d), Sum(a, b, c, d))
  BY SMTT(30) DEF Sum, Same

LEMMA SumSent ==
  ASSUME NEW a \in Int, NEW b \in Nat, NEW c \in Nat, NEW d \in Nat, NEW n \in Nat
  PROVE  Same(Sum(a, b - n, c + n, d), Sum(a, b, c, d))
  BY SMTT(30) DEF Sum, Same

LEMMA SumRefunded ==
  ASSUME NEW a \in Int, NEW b \in Nat, NEW c \in Nat, NEW d \in Nat, NEW n \in Nat,
         NEW v \in Int
  PROVE  Same(Sum(v, b - n, c, d + (a + n - v)), Sum(a, b, c, d))
  BY SMTT(30) DEF Sum, Same

LEMMA SumGranted ==
  ASSUME NEW a \in Int, NEW b \in Nat, NEW c \in Nat, NEW d \in Nat, NEW i \in Int
  PROVE  Same(Sum(a + i, b, c, d), Sum(a, b, c, d) + i)
  BY SMTT(30) DEF Sum, Same

\* A grant on both sides of a difference, and a delta taken and given back.
LEMMA Differences ==
  ASSUME NEW u \in Int, NEW g \in Int, NEW i \in Int
  PROVE  /\ Same((u + i) - (g + i), u - g)
         /\ u - g <= u - g
         /\ Same((g + (u - i)) + i, g + u)
  BY SMTT(30) DEF Same

\* Inside the range of an int32 nothing wraps.
LEMMA Int32Fits ==
  ASSUME NEW x \in Int, -MaxWindow <= x, ~(x > MaxWindow)
  PROVE  Same(Int32(x), x)
  BY SMTT(30) DEF Int32, Same

\* A window that was lowered by less than an earlier SETTINGS raised it.
LEMMA VisitFits ==
  ASSUME NEW x \in Int, NEW p \in 0..MaxWindow, NEW d \in Int, x >= p - d - MaxWindow
  PROVE  x + d \in Int /\ -MaxWindow <= x + d
  BY SMTT(30)

\* The numbers of the SETTINGS walk are integers.
LEMMA WalkTypes ==
  ASSUME TypeOK
  PROVE  /\ rdelta \in Int /\ peerInit \in Int /\ peerInit \in 0..MaxWindow
         /\ \A s \in Streams : sendWindow[s] \in Int /\ grant[s] \in Int
         /\ \A v \in InitWindows : Same(v - (v - peerInit), peerInit)
  BY SMTT(30) DEF TypeOK, Same

\* A writer never spends more than it has left.
LEMMA SpendWithin == \A a, b \in Nat : a <= b => 0 <= b - a
BY SMTT(30)

\* The state NewServerConn leaves satisfies the five conjuncts below.
LEMMA InitInv == Init => TypeOK /\ ReaderInv /\ WriterInv /\ WaitersLinked
                           /\ HeldInv
<1> SUFFICES ASSUME Init
             PROVE  TypeOK /\ ReaderInv /\ WriterInv /\ WaitersLinked /\ HeldInv
  OBVIOUS
<1>1. TypeOK
  <2>1. connWin \in Int /\ peerInit \in 0..MaxWindow
    BY SMTT(30) DEF Init
  <2>2. closed \in BOOLEAN /\ broken \in BOOLEAN /\ rfail \in BOOLEAN
    BY ZenonT(60) DEF Init
  <2>3. /\ sendWindow \in [Streams -> Int] /\ cut \in [Streams -> Nat]
        /\ sent \in [Streams -> Nat] /\ grant \in [Streams -> Nat]
        /\ left \in [Writers -> Nat] /\ held \in [Writers -> Nat]
    BY SMTT(30) DEF Init
  <2>4. pc \in [Writers -> PC]
    BY DEF Init, PC
  <2> QED
    BY <2>1, <2>2, <2>3, <2>4, SMTT(30) DEF Init, TypeOK, RPC
<1>2. ReaderInv
  BY SMTT(30) DEF Init, ReaderInv
<1>3. WriterInv
  BY DEF Init, WriterInv
<1>4. WaitersLinked
  BY DEF Init, WaitersLinked
<1>5. HeldInv
  BY SMTT(30) DEF Init, HeldInv
<1> QED
  BY <1>1, <1>2, <1>3, <1>4, <1>5

\* takeSendCredits debits the stream and the connection by the same amount, which
\* neither window nor the writer's remainder falls short of.
LEMMA TakeDebits ==
  ASSUME TypeOK, NEW w \in Writers, takeSendCredits(w)
  PROVE  \E n \in Nat :
           /\ n <= left[w] /\ n <= MaxFrame
           /\ n <= connWin /\ n <= sendWindow[StreamOf[w]]
           /\ sendWindow' = [sendWindow EXCEPT ![StreamOf[w]] = @ - n]
           /\ connWin' = connWin - n
           /\ held' = [held EXCEPT ![w] = n]
<1> DEFINE n == MinOf(MinOf(left[w], MaxFrame), Avail(w))
<1>1. Avail(w) \in Nat /\ left[w] \in Nat
  BY SMTT(30) DEF takeSendCredits, TypeOK, Avail, MinOf
<1>2. n \in Nat /\ n <= left[w] /\ n <= MaxFrame /\ n <= Avail(w)
  BY <1>1, SMTT(30) DEF MinOf
<1>3. Avail(w) <= connWin /\ Avail(w) <= sendWindow[StreamOf[w]]
  BY SMTT(30) DEF Avail, MinOf, TypeOK
<1>4. n <= connWin /\ n <= sendWindow[StreamOf[w]]
  <2> HIDE DEF n
  <2>1. connWin \in Int /\ sendWindow[StreamOf[w]] \in Int
    BY DEF TypeOK
  <2> QED
    BY <1>1, <1>2, <1>3, <2>1, SMTT(30)
<1>5. /\ sendWindow' = [sendWindow EXCEPT ![StreamOf[w]] = @ - n]
      /\ connWin' = connWin - n
      /\ held' = [held EXCEPT ![w] = n]
  BY DEF takeSendCredits
<1> HIDE DEF n
<1> QED
  BY ZenonT(60), <1>2, <1>4, <1>5

-----------------------------------------------------------------------------
(* Windows *)

\* Every step keeps both windows within int32, and a SETTINGS delta only ever
\* lowers a window by what an earlier SETTINGS raised it.
LEMMA NextWindowInv ==
  TypeOK /\ ReaderInv /\ WindowInv /\ [Next]_vars => WindowInv'
<1> SUFFICES ASSUME TypeOK, ReaderInv, WindowInv, [Next]_vars
             PROVE  WindowInv'
  OBVIOUS
<1> USE DEF TypeOK, WindowInv, WindowsFit
<1>1. CASE UNCHANGED <<winVars, live, rtodo, rdelta, rfail>>
  BY <1>1 DEF winVars
<1>2. ASSUME NEW w \in Writers, takeSendCredits(w),
             UNCHANGED <<live, rtodo, rdelta, rfail>>
      PROVE  WindowInv'
  <2>1. PICK n \in Nat :
          /\ n <= connWin /\ n <= sendWindow[StreamOf[w]]
          /\ sendWindow' = [sendWindow EXCEPT ![StreamOf[w]] = @ - n]
          /\ connWin' = connWin - n
    BY <1>2, TakeDebits
  <2>2. peerInit' = peerInit
    BY <1>2 DEF takeSendCredits
  <2>3. peerInit \in 0..MaxWindow /\ peerInit - rdelta \in 0..MaxWindow
    BY DEF ReaderInv
  <2>4. WindowsFit'
    BY <2>1, SMTT(30)
  <2>5. sendWindow'[StreamOf[w]] >= 0
    BY <2>1, SMTT(30)
  <2>6. \A s \in Streams : s # StreamOf[w] => sendWindow'[s] = sendWindow[s]
    BY <2>1
  <2> QED
    BY <1>2, <2>2, <2>3, <2>4, <2>5, <2>6, SMTT(30)
<1>3. ASSUME NEW w \in Writers, acquireSendCredits(w) \/ parkForSendCredits(w)
      PROVE  WindowInv'
  BY <1>1, <1>2, <1>3
     DEF acquireSendCredits, parkForSendCredits, GiveUp, NoCredit, winVars,
         streamVars, readerVars
<1>4. ASSUME NEW w \in Writers, releaseSendCredits(w)
      PROVE  WindowInv'
  <2>1. /\ connWin' = addWindowSaturating(connWin, held[w])
        /\ sendWindow' = [sendWindow EXCEPT ![StreamOf[w]] =
                            addWindowSaturating(@, held[w])]
        /\ UNCHANGED <<peerInit, live, rtodo, rdelta, rfail>>
    BY <1>4 DEF releaseSendCredits, streamVars, readerVars
  <2>2. held[w] \in Nat
    OBVIOUS
  <2>3. WindowsFit'
    BY <2>1, <2>2, SMTT(30) DEF addWindowSaturating, MinOf
  <2>4. \A s \in Streams : sendWindow'[s] >= sendWindow[s]
    BY <2>1, <2>2, SMTT(30) DEF addWindowSaturating, MinOf
  <2> QED
    BY <2>1, <2>3, <2>4, SMTT(30)
<1>5. ASSUME NEW i \in Increments, ConnWindowUpdate(i)
      PROVE  WindowInv'
  BY <1>5, SMTT(30) DEF ConnWindowUpdate, streamVars
<1>6. ASSUME NEW s \in Streams, NEW i \in Increments, StreamWindowUpdate(s, i)
      PROVE  WindowInv'
  <2>1. UNCHANGED <<connWin, peerInit, live, rtodo, rdelta, rfail>>
    BY <1>6 DEF StreamWindowUpdate
  <2>2. /\ \A r \in Streams : sendWindow'[r] >= sendWindow[r]
        /\ \A r \in Streams : sendWindow'[r] <= MaxWindow
        /\ sendWindow' \in [Streams -> Int]
    BY <1>6, SMTT(30) DEF StreamWindowUpdate
  <2> QED
    BY <2>1, <2>2, SMTT(30)
<1>7. ASSUME NEW v \in InitWindows, Settings(v)
      PROVE  WindowInv'
  <2>1. /\ UNCHANGED <<connWin, sendWindow, live>>
        /\ rtodo = {} /\ ~rfail
        /\ rtodo' = live /\ peerInit' - rdelta' = peerInit
    BY <1>7, SMTT(30) DEF Settings, ReaderInv, streamVars
  <2> QED
    BY <2>1
<1>8. ASSUME NEW s \in Streams, AdjustStream(s)
      PROVE  WindowInv'
  <2>1. /\ UNCHANGED <<connWin, peerInit, live, rdelta>>
        /\ s \in live /\ s \in rtodo /\ rtodo' = rtodo \ {s}
    BY <1>8 DEF AdjustStream, streamVars
  <2>2. CASE sendWindow[s] + rdelta > MaxWindow
    BY <1>8, <2>1, <2>2, SMTT(30) DEF AdjustStream
  <2>3. CASE ~(sendWindow[s] + rdelta > MaxWindow)
    <3>1. sendWindow[s] + rdelta >= peerInit - MaxWindow
      BY <2>1, SMTT(30)
    <3>2. Int32(sendWindow[s] + rdelta) = sendWindow[s] + rdelta
      BY <2>3, <3>1, SMTT(30) DEF Int32
    <3>3. /\ sendWindow' = [sendWindow EXCEPT ![s] = sendWindow[s] + rdelta]
          /\ rfail' = rfail
      BY <1>8, <2>3, <3>2 DEF AdjustStream
    <3>4. WindowsFit'
      BY <2>1, <2>3, <3>1, <3>3, SMTT(30)
    <3> QED
      BY <2>1, <3>1, <3>3, <3>4, SMTT(30)
  <2> QED
    BY <2>2, <2>3
<1>9. CASE ReaderReset \/ shutdownStreams
  BY <1>9 DEF ReaderReset, shutdownStreams, winVars
<1>10. CASE SettingsDone
  <2>1. rtodo = {} /\ UNCHANGED <<winVars, live, rtodo, rfail>>
    BY <1>10 DEF SettingsDone, streamVars
  <2> QED
    BY <2>1 DEF winVars
<1>11. ASSUME NEW s \in Streams, AdmitStream(s)
       PROVE  WindowInv'
  <2>1. /\ rtodo = {}
        /\ UNCHANGED <<connWin, peerInit, rtodo, rdelta, rfail>>
        /\ live' = live \cup {s}
        /\ sendWindow' = [sendWindow EXCEPT ![s] = peerInit]
    BY <1>11 DEF AdmitStream, tblMuFree, ReaderInv, readerVars
  <2> QED
    BY <2>1, SMTT(30)
<1>12. ASSUME NEW s \in Streams, markStreamDone(s)
       PROVE  WindowInv'
  BY <1>12 DEF markStreamDone, winVars, readerVars
<1> QED
  BY ZenonT(60), <1>1, <1>3, <1>4, <1>5, <1>6, <1>7, <1>8, <1>9, <1>10, <1>11, <1>12
     DEF Next, WriterStep, ReaderStep, CloserStep, SendData, fcPark,
         WriteChunk, ReaderWakeStream, ReaderWakeAll, SettingsAck, ReadError,
         EndStream, CloseBegin, CloseCancel, CloseWake, vars, streamVars,
         readerVars

-----------------------------------------------------------------------------
(* Which variable holds what *)

\* What fcWake does to the lists, whichever waiters it is given.
LEMMA WakeTypes ==
  ASSUME TypeOK, NEW W \in SUBSET queued, fcWake(W)
  PROVE  /\ queued' \subseteq Writers /\ needConn' \subseteq Writers
         /\ ready' \subseteq Writers /\ fcConnBlocked' \in Int
<1>1. IsFiniteSet(W \cap needConn)
  BY FS_Subset DEF TypeOK
<1>2. Cardinality(W \cap needConn) \in Nat
  BY <1>1, FS_CardinalityType
<1> QED
  BY <1>2, SMTT(30) DEF fcWake, TypeOK

\* A refund wakes listed waiters, and no others.
LEMMA ReleaseWakes ==
  ASSUME NEW w \in Writers, releaseSendCredits(w)
  PROVE  \E W \in SUBSET queued : fcWake(W)
BY ZenonT(60) DEF releaseSendCredits, fcWakeStreamThenConn, OnStream

\* Every step keeps each variable in its range: the debit, the refund, the
\* saturating grant and the SETTINGS delta stay integers of the right sign.
LEMMA NextTypeOK ==
  TypeOK /\ ReaderInv /\ HeldInv /\ [Next]_vars => TypeOK'
<1> SUFFICES ASSUME TypeOK, ReaderInv, HeldInv, [Next]_vars PROVE TypeOK'
  OBVIOUS
<1> USE DEF TypeOK, winVars, streamVars, connVars, readerVars, writerVars,
            waitVars, histVars
<1>1. ASSUME NEW w \in Writers, NEW n \in Bodies, SendData(w, n)
      PROVE  TypeOK'
  BY <1>1 DEF SendData, PC
<1>2. ASSUME NEW w \in Writers, Return(w)
      PROVE  /\ pc' \in [Writers -> PC] /\ left' \in [Writers -> Nat]
             /\ held' \in [Writers -> Nat]
  BY <1>2 DEF Return, PC
<1>3. ASSUME NEW w \in Writers, NEW next \in {"slow", "park"},
             GiveUp(w) \/ takeSendCredits(w) \/ NoCredit(w, next)
      PROVE  /\ connWin' \in Int /\ sendWindow' \in [Streams -> Int]
             /\ peerInit' \in 0..MaxWindow
             /\ pc' \in [Writers -> PC] /\ left' \in [Writers -> Nat]
             /\ held' \in [Writers -> Nat]
  <2>1. CASE GiveUp(w)
    BY <1>2, <2>1 DEF GiveUp
  <2>2. CASE takeSendCredits(w)
    <3>1. PICK n \in Nat :
            /\ sendWindow' = [sendWindow EXCEPT ![StreamOf[w]] = @ - n]
            /\ connWin' = connWin - n
            /\ held' = [held EXCEPT ![w] = n]
      BY <2>2, TakeDebits
    <3> QED
      BY <2>2, <3>1, SMTT(30) DEF takeSendCredits, PC
  <2>3. CASE NoCredit(w, next)
    BY <2>3 DEF NoCredit, PC
  <2> QED
    BY <1>3, <2>1, <2>2, <2>3
<1>4. ASSUME NEW w \in Writers, acquireSendCredits(w)
      PROVE  TypeOK'
  BY <1>3, <1>4 DEF acquireSendCredits
<1>5. ASSUME NEW w \in Writers, parkForSendCredits(w)
      PROVE  TypeOK'
  BY <1>3, <1>5, SMTT(30) DEF parkForSendCredits, fcUnpark
<1>6. ASSUME NEW w \in Writers, fcPark(w)
      PROVE  TypeOK'
  BY <1>6, SMTT(30) DEF fcPark, PC
<1>7. ASSUME NEW w \in Writers, WriteChunk(w)
      PROVE  TypeOK'
  <2>1. /\ pc' \in [Writers -> PC] /\ left' \in [Writers -> Nat]
        /\ held' \in [Writers -> Nat]
    <3>1. held[w] <= left[w]
      BY DEF HeldInv
    <3> QED
      BY <1>2, <1>7, <3>1, SMTT(30) DEF WriteChunk, PC
  <2>2. sent' \in [Streams -> Nat] /\ connSent' \in Nat
    BY <1>7, SMTT(30) DEF WriteChunk
  <2>3. broken' \in BOOLEAN
    BY ZenonT(60), <1>7 DEF WriteChunk
  <2> QED
    BY ZenonT(60), <1>7, <2>1, <2>2, <2>3 DEF WriteChunk, PC
<1>8. ASSUME NEW w \in Writers, releaseSendCredits(w)
      PROVE  TypeOK'
  <2> DEFINE s == StreamOf[w]
             n == held[w]
  <2>1. PICK W \in SUBSET queued : fcWake(W)
    BY <1>8, ReleaseWakes
  <2>2. /\ queued' \subseteq Writers /\ needConn' \subseteq Writers
        /\ ready' \subseteq Writers /\ fcConnBlocked' \in Int
    BY <2>1, WakeTypes
  <2>3. /\ connWin' = addWindowSaturating(connWin, n)
        /\ sendWindow' = [sendWindow EXCEPT ![s] = addWindowSaturating(@, n)]
        /\ connCut' = connCut + (connWin + n - connWin')
        /\ cut' = [cut EXCEPT ![s] = @ + (sendWindow[s] + n - sendWindow'[s])]
    BY <1>8 DEF releaseSendCredits
  <2>4. connWin' \in Int /\ sendWindow' \in [Streams -> Int]
    BY <2>3, SMTT(30) DEF addWindowSaturating, MinOf
  <2>5. connWin + n - connWin' \in Nat /\ sendWindow[s] + n - sendWindow'[s] \in Nat
    BY <2>3, SMTT(30) DEF addWindowSaturating, MinOf
  <2>6. connCut' \in Nat /\ cut' \in [Streams -> Nat]
    BY <2>3, <2>5, SMTT(30)
  <2> QED
    BY <1>2, <1>8, <2>2, <2>4, <2>6 DEF releaseSendCredits
<1>9. ASSUME NEW i \in Increments, ConnWindowUpdate(i)
      PROVE  TypeOK'
  <2>1. /\ queued' \subseteq Writers /\ needConn' \subseteq Writers
        /\ ready' \subseteq Writers /\ fcConnBlocked' \in Int
    BY <1>9, WakeTypes DEF ConnWindowUpdate, fcWakeConn, ConnBlocked
  <2>2. connWin' \in Int /\ connGrant' \in Nat /\ rpc' \in RPC
    BY <1>9, SMTT(30) DEF ConnWindowUpdate, RPC
  <2> QED
    BY <1>9, <2>1, <2>2 DEF ConnWindowUpdate
<1>10. ASSUME NEW s \in Streams, NEW i \in Increments, StreamWindowUpdate(s, i)
       PROVE  TypeOK'
  BY <1>10, SMTT(30) DEF StreamWindowUpdate, RPC
<1>11. ASSUME ReaderWakeStream
       PROVE  TypeOK'
  <2>1. /\ queued' \subseteq Writers /\ needConn' \subseteq Writers
        /\ ready' \subseteq Writers /\ fcConnBlocked' \in Int
    BY <1>11, WakeTypes DEF ReaderWakeStream, fcWakeStream, OnStream
  <2> QED
    BY <1>11, <2>1 DEF ReaderWakeStream, RPC
<1>12. ASSUME ReaderReset
       PROVE  TypeOK'
  <2>1. rtodo = {}
    BY <1>12 DEF ReaderReset, ReaderInv
  <2> QED
    BY <1>12, <2>1 DEF ReaderReset, RPC
<1>13. ASSUME NEW v \in InitWindows, Settings(v)
       PROVE  TypeOK'
  <2>1. peerInit' \in 0..MaxWindow /\ rdelta' \in Int
    BY <1>13, SMTT(30) DEF Settings
  <2>2. rfail' \in BOOLEAN
    BY ZenonT(60), <1>13 DEF Settings
  <2> QED
    BY <1>13, <2>1, <2>2 DEF Settings, RPC
<1>14. ASSUME NEW s \in Streams, AdjustStream(s)
       PROVE  TypeOK'
  <2>1. sendWindow' \in [Streams -> Int]
    BY <1>14, SMTT(30) DEF AdjustStream, Int32
  <2>2. rfail' \in BOOLEAN
    BY ZenonT(60), <1>14 DEF AdjustStream
  <2> QED
    BY <1>14, <2>1, <2>2 DEF AdjustStream
<1>15. ASSUME SettingsDone \/ SettingsAck \/ ReadError
       PROVE  TypeOK'
  <2>1. CASE SettingsDone
    BY <2>1, SMTT(30) DEF SettingsDone, RPC
  <2>2. CASE SettingsAck
    BY <2>2 DEF SettingsAck, RPC
  <2>3. CASE ReadError
    BY <2>3 DEF ReadError, RPC
  <2> QED
    BY ZenonT(60), <1>15, <2>1, <2>2, <2>3
<1>16. ASSUME ReaderWakeAll \/ CloseWake
       PROVE  TypeOK'
  <2>1. /\ queued' \subseteq Writers /\ needConn' \subseteq Writers
        /\ ready' \subseteq Writers /\ fcConnBlocked' \in Int
    BY <1>16, WakeTypes DEF ReaderWakeAll, CloseWake, fcWakeAll
  <2> QED
    BY <1>16, <2>1 DEF ReaderWakeAll, CloseWake, RPC
<1>17. ASSUME shutdownStreams
       PROVE  TypeOK'
  <2>1. rtodo = {}
    BY <1>17 DEF shutdownStreams, ReaderInv
  <2> QED
    BY <1>17, <2>1 DEF shutdownStreams, RPC
<1>18. ASSUME NEW s \in Streams, AdmitStream(s)
       PROVE  TypeOK'
  BY <1>18, SMTT(30) DEF AdmitStream
<1>19. ASSUME NEW s \in Streams, EndStream(s)
       PROVE  TypeOK'
  BY <1>19 DEF EndStream
<1>20. ASSUME NEW s \in Streams, markStreamDone(s)
       PROVE  TypeOK'
  <2>1. rtodo = {}
    BY <1>20 DEF markStreamDone, tblMuFree, ReaderInv
  <2> QED
    BY <1>20, <2>1 DEF markStreamDone
<1>21. ASSUME CloseBegin \/ CloseCancel
       PROVE  TypeOK'
  BY ZenonT(60), <1>21 DEF CloseBegin, CloseCancel
<1>22. CASE UNCHANGED vars
  BY <1>22 DEF vars
<1> QED
  <2>1. ASSUME NEW w \in Writers, WriterStep(w) PROVE TypeOK'
    BY <2>1, <1>4, <1>5, <1>6, <1>7, <1>8 DEF WriterStep
  <2>2. CASE ReaderStep
    BY <2>2, <1>11, <1>12, <1>14, <1>15, <1>16, <1>17 DEF ReaderStep
  <2>3. CASE CloserStep
    BY <2>3, <1>16, <1>21 DEF CloserStep
  <2> QED
    BY ZenonT(60), <2>1, <2>2, <2>3, <1>1, <1>9, <1>10, <1>13, <1>15, <1>18, <1>19, <1>20,
       <1>21, <1>22 DEF Next

\* The reader carries a stream, a failure or a delta exactly in the phases of
\* onWindowUpdate and applyPeerSettings that use one.
LEMMA NextReaderInv ==
  TypeOK /\ ReaderInv /\ [Next]_vars => ReaderInv'
<1> SUFFICES ASSUME TypeOK, ReaderInv, [Next]_vars PROVE ReaderInv'
  OBVIOUS
<1> USE DEF TypeOK, ReaderInv
<1>1. CASE UNCHANGED <<readerVars, peerInit>>
  BY <1>1 DEF readerVars
<1>2. ASSUME NEW w \in Writers, WriterStep(w)
      PROVE  ReaderInv'
  <2>1. UNCHANGED <<readerVars, peerInit>>
    BY <1>2
       DEF WriterStep, acquireSendCredits, parkForSendCredits, GiveUp,
           takeSendCredits, NoCredit, fcPark, WriteChunk, releaseSendCredits,
           winVars
  <2> QED
    BY <1>1, <2>1
<1>3. CASE ReaderStep
  <2>1. CASE ReaderWakeStream \/ ReaderReset \/ ReaderWakeAll
    BY <2>1, SMTT(30) DEF ReaderWakeStream, ReaderReset, ReaderWakeAll, winVars
  <2>2. ASSUME NEW s \in Streams, AdjustStream(s)
        PROVE  ReaderInv'
    BY <2>2 DEF AdjustStream
  <2>3. CASE SettingsDone \/ SettingsAck \/ shutdownStreams
    BY <2>3, SMTT(30) DEF SettingsDone, SettingsAck, shutdownStreams, winVars
  <2> QED
    BY <1>3, <2>1, <2>2, <2>3 DEF ReaderStep
<1>4. ASSUME NEW i \in Increments, ConnWindowUpdate(i)
      PROVE  ReaderInv'
  BY <1>4 DEF ConnWindowUpdate
<1>5. ASSUME NEW s \in Streams, NEW i \in Increments, StreamWindowUpdate(s, i)
      PROVE  ReaderInv'
  BY <1>5 DEF StreamWindowUpdate
<1>6. ASSUME NEW v \in InitWindows, Settings(v)
      PROVE  ReaderInv'
  BY <1>6, SMTT(30) DEF Settings
<1>7. CASE ReadError
  BY <1>7 DEF ReadError, winVars
<1> QED
  BY <1>1, <1>2, <1>3, <1>4, <1>5, <1>6, <1>7
     DEF Next, CloserStep, SendData, AdmitStream, EndStream, markStreamDone,
         CloseBegin, CloseCancel, CloseWake, vars, winVars

\* Writers run on opened streams only, only listed waiters carry needConn, and
\* closed agrees with where Close is.
LEMMA NextWriterInv ==
  TypeOK /\ WriterInv /\ [Next]_vars => WriterInv'
<1> SUFFICES ASSUME TypeOK, WriterInv, [Next]_vars PROVE WriterInv'
  OBVIOUS
<1> USE DEF TypeOK, WriterInv
<1>1. CASE UNCHANGED <<pc, opened, needConn, queued, closed, cpc>>
  BY <1>1
<1>2. ASSUME NEW W \in SUBSET queued, fcWake(W),
             UNCHANGED <<pc, opened, closed>>, cpc' \in {cpc, "done"},
             cpc' # cpc => closed
      PROVE  WriterInv'
  BY <1>2 DEF fcWake
<1>3. ASSUME NEW w \in Writers, NEW n \in Bodies, SendData(w, n)
      PROVE  WriterInv'
  BY <1>3 DEF SendData, streamVars, connVars, waitVars
<1>4. ASSUME NEW w \in Writers, acquireSendCredits(w) \/ parkForSendCredits(w)
      PROVE  WriterInv'
  <2>1. PICK v \in PC : v # "wait" /\ pc' = [pc EXCEPT ![w] = v]
    BY <1>4 DEF acquireSendCredits, parkForSendCredits, GiveUp, Return,
       takeSendCredits, NoCredit, PC
  <2>2. pc[w] # "idle" /\ UNCHANGED <<opened, closed, cpc>>
        /\ needConn' \subseteq queued'
    BY <1>4 DEF acquireSendCredits, parkForSendCredits, fcUnpark, streamVars,
       connVars, waitVars
  <2> QED
    BY <2>1, <2>2
<1>5. ASSUME NEW w \in Writers, fcPark(w)
      PROVE  WriterInv'
  BY <1>5 DEF fcPark, streamVars, connVars
<1>6. ASSUME NEW w \in Writers, WriteChunk(w)
      PROVE  WriterInv'
  BY <1>6 DEF WriteChunk, Return, streamVars, waitVars
<1>7. ASSUME NEW w \in Writers, releaseSendCredits(w)
      PROVE  WriterInv'
  <2>1. PICK W \in SUBSET queued : fcWake(W)
    BY <1>7, ReleaseWakes
  <2> QED
    BY <1>7, <2>1 DEF releaseSendCredits, fcWake, Return, streamVars, connVars
<1>8. CASE ReaderStep
  BY ZenonT(60), <1>1, <1>2, <1>8
     DEF ReaderStep, ReaderWakeStream, ReaderReset, AdjustStream, SettingsDone,
         ReaderWakeAll, SettingsAck, shutdownStreams, fcWakeStream, fcWakeAll,
         OnStream, streamVars, connVars, writerVars, waitVars
<1>9. ASSUME NEW i \in Increments, ConnWindowUpdate(i)
      PROVE  WriterInv'
  BY <1>1, <1>2, <1>9
     DEF ConnWindowUpdate, fcWakeConn, ConnBlocked, streamVars, connVars,
         writerVars, waitVars
<1>10. CASE CloseBegin \/ CloseCancel
  BY <1>10 DEF CloseBegin, CloseCancel, streamVars, writerVars, waitVars
<1>11. CASE CloseWake
  BY <1>2, <1>11 DEF CloseWake, fcWakeAll, streamVars, writerVars
<1>12. ASSUME NEW s \in Streams, AdmitStream(s)
       PROVE  WriterInv'
  BY <1>12 DEF AdmitStream, connVars, writerVars, waitVars
<1> QED
  BY <1>1, <1>3, <1>4, <1>5, <1>6, <1>7, <1>8, <1>9, <1>10, <1>11, <1>12
     DEF Next, WriterStep, CloserStep, StreamWindowUpdate, Settings, ReadError,
         EndStream, markStreamDone, vars, winVars, streamVars, connVars,
         writerVars, waitVars

\* fcPark and fcUnpark keep the lists equal to the writers in their select.
LEMMA NextWaitersLinked ==
  TypeOK /\ WaitersLinked /\ [Next]_vars => WaitersLinked'
<1> SUFFICES ASSUME TypeOK, WaitersLinked, [Next]_vars PROVE WaitersLinked'
  OBVIOUS
<1> USE DEF TypeOK, WaitersLinked
<1>1. CASE UNCHANGED <<pc, queued, ready>>
  BY <1>1
<1>2. ASSUME NEW W \in SUBSET queued, fcWake(W), UNCHANGED pc
      PROVE  WaitersLinked'
  BY <1>2 DEF fcWake
<1>3. ASSUME NEW w \in Writers, NEW n \in Bodies, SendData(w, n)
      PROVE  WaitersLinked'
  BY <1>3 DEF SendData, waitVars
<1>4. ASSUME NEW w \in Writers, acquireSendCredits(w) \/ parkForSendCredits(w)
      PROVE  WaitersLinked'
  BY <1>4
     DEF acquireSendCredits, parkForSendCredits, GiveUp, Return,
         takeSendCredits, NoCredit, fcUnpark, waitVars
<1>5. ASSUME NEW w \in Writers, fcPark(w)
      PROVE  WaitersLinked'
  BY <1>5 DEF fcPark
<1>6. ASSUME NEW w \in Writers, WriteChunk(w)
      PROVE  WaitersLinked'
  <2>1. PICK v \in PC : v # "wait" /\ pc' = [pc EXCEPT ![w] = v]
    BY <1>6 DEF WriteChunk, Return, PC
  <2>2. pc[w] = "have" /\ UNCHANGED <<queued, ready>>
    BY <1>6 DEF WriteChunk, waitVars
  <2> QED
    BY <2>1, <2>2
<1>7. ASSUME NEW w \in Writers, releaseSendCredits(w)
      PROVE  WaitersLinked'
  <2>1. PICK W \in SUBSET queued : fcWake(W)
    BY <1>7, ReleaseWakes
  <2> QED
    BY <1>7, <2>1 DEF releaseSendCredits, fcWake, Return
<1>8. CASE ReaderStep \/ CloserStep
  BY ZenonT(60), <1>1, <1>2, <1>8
     DEF ReaderStep, ReaderWakeStream, ReaderReset, AdjustStream, SettingsDone,
         ReaderWakeAll, SettingsAck, shutdownStreams, fcWakeStream, fcWakeAll,
         OnStream, CloserStep, CloseCancel, CloseWake, writerVars, waitVars
<1>9. ASSUME NEW i \in Increments, ConnWindowUpdate(i)
      PROVE  WaitersLinked'
  BY <1>1, <1>2, <1>9
     DEF ConnWindowUpdate, fcWakeConn, ConnBlocked, writerVars, waitVars
<1> QED
  BY ZenonT(60), <1>1, <1>3, <1>4, <1>5, <1>6, <1>7, <1>8, <1>9
     DEF Next, WriterStep, StreamWindowUpdate, Settings, ReadError,
         AdmitStream, EndStream, markStreamDone, CloseBegin, vars, writerVars,
         waitVars

\* Credit is held exactly between takeSendCredits and the write or the refund.
LEMMA NextHeldInv ==
  TypeOK /\ HeldInv /\ [Next]_vars => HeldInv'
<1> SUFFICES ASSUME TypeOK, HeldInv, [Next]_vars PROVE HeldInv'
  OBVIOUS
<1> USE DEF TypeOK, HeldInv, PC
<1>1. CASE UNCHANGED writerVars
  BY <1>1 DEF writerVars
<1>2. ASSUME NEW w \in Writers, NEW n \in Bodies, SendData(w, n)
      PROVE  HeldInv'
  BY <1>2, SMTT(30) DEF SendData
<1>3. ASSUME NEW w \in Writers, Return(w)
      PROVE  HeldInv'
  BY <1>3, SMTT(30) DEF Return
<1>4. ASSUME NEW w \in Writers, takeSendCredits(w)
      PROVE  HeldInv'
  <2>1. PICK n \in Nat : /\ n <= left[w] /\ n <= MaxFrame
                         /\ held' = [held EXCEPT ![w] = n]
    BY <1>4, TakeDebits
  <2> QED
    BY <1>4, <2>1 DEF takeSendCredits
<1>5. ASSUME NEW w \in Writers, NEW next \in {"slow", "park"}, NoCredit(w, next),
             pc[w] \in {"acquire", "slow", "wait"}
      PROVE  HeldInv'
  BY <1>5 DEF NoCredit
<1>6. ASSUME NEW w \in Writers, fcPark(w)
      PROVE  HeldInv'
  BY <1>6 DEF fcPark
<1>7. ASSUME NEW w \in Writers, WriteChunk(w)
      PROVE  HeldInv'
  <2>1. CASE Return(w)
    BY <1>3, <2>1
  <2>2. CASE pc' = [pc EXCEPT ![w] = "refund"] /\ UNCHANGED <<left, held>>
    BY <1>7, <2>2 DEF WriteChunk
  <2>3. CASE /\ pc' = [pc EXCEPT ![w] = IF left[w] = held[w] THEN "idle"
                                         ELSE "acquire"]
             /\ left' = [left EXCEPT ![w] = @ - held[w]]
             /\ held' = [held EXCEPT ![w] = 0]
    <3>1. /\ held[w] \in Nat /\ left[w] \in Nat /\ held[w] <= left[w]
          /\ held'[w] = 0 /\ left'[w] = left[w] - held[w]
          /\ \A v \in Writers \ {w} :
               pc'[v] = pc[v] /\ left'[v] = left[v] /\ held'[v] = held[v]
      BY <2>3
    <3>2. 0 <= left[w] - held[w]
      BY ZenonT(60), <3>1, SpendWithin
    <3>3. 0 <= MaxFrame
      BY ONLY ConstantsAssumption DEF ConstantsAssumption
    <3> QED
      BY ONLY HeldInv, <3>1, <3>2, <3>3
  <2> QED
    BY ZenonT(60), <1>7, <2>1, <2>2, <2>3 DEF WriteChunk, PC
<1>8. ASSUME NEW w \in Writers, WriterStep(w)
      PROVE  HeldInv'
  BY ZenonT(60), <1>3, <1>4, <1>5, <1>6, <1>7, <1>8
     DEF WriterStep, acquireSendCredits, parkForSendCredits, GiveUp,
         releaseSendCredits
<1> QED
  BY ZenonT(60), <1>1, <1>2, <1>8
     DEF Next, ReaderStep, CloserStep, ReaderWakeStream, ReaderReset,
         AdjustStream, SettingsDone, ReaderWakeAll, SettingsAck,
         shutdownStreams, ConnWindowUpdate, StreamWindowUpdate, Settings,
         ReadError, AdmitStream, EndStream, markStreamDone, CloseBegin,
         CloseCancel, CloseWake, vars

-----------------------------------------------------------------------------
(* fcConnBlocked *)

\* fcUnpark decrements fcConnBlocked once per unlinked waiter that has needConn.
LEMMA WakeExact ==
  ASSUME TypeOK, FcConnBlockedExact, NEW W \in SUBSET queued, fcWake(W)
  PROVE  FcConnBlockedExact'
<1> DEFINE blocked == queued \cap needConn
<1>1. IsFiniteSet(blocked)
  BY FS_Subset DEF TypeOK
<1>2. Cardinality(blocked \ W) = Cardinality(blocked) - Cardinality(blocked \cap W)
  BY ZenonT(60), <1>1, FS_Difference
<1>3. blocked \cap W = W \cap needConn /\ queued' \cap needConn' = blocked \ W
  BY DEF fcWake
<1> QED
  BY ZenonT(60), <1>2, <1>3 DEF FcConnBlockedExact, fcWake

\* Every step keeps fcConnBlocked equal to the number of listed waiters that
\* wait for the connection window.
LEMMA NextExact ==
  TypeOK /\ WaitersLinked /\ FcConnBlockedExact /\ WriterInv /\ [Next]_vars
    => FcConnBlockedExact'
<1> SUFFICES ASSUME TypeOK, WaitersLinked, FcConnBlockedExact, WriterInv,
                    [Next]_vars
             PROVE  FcConnBlockedExact'
  OBVIOUS
<1> USE DEF FcConnBlockedExact
<1>1. CASE UNCHANGED waitVars
  BY <1>1 DEF waitVars
<1>2. IsFiniteSet(queued \cap needConn)
  BY FS_Subset DEF TypeOK
<1>3. ASSUME NEW w \in Writers, parkForSendCredits(w)
      PROVE  FcConnBlockedExact'
  <2>1. queued' \cap needConn' = (queued \cap needConn) \ {w}
    BY <1>3 DEF parkForSendCredits, fcUnpark
  <2>2. Cardinality((queued \cap needConn) \ {w})
          = IF w \in queued \cap needConn
              THEN Cardinality(queued \cap needConn) - 1
              ELSE Cardinality(queued \cap needConn)
    BY ZenonT(60), <1>2, FS_RemoveElement
  <2> QED
    BY <1>3, <2>1, <2>2 DEF parkForSendCredits, fcUnpark
<1>4. ASSUME NEW w \in Writers, fcPark(w)
      PROVE  FcConnBlockedExact'
  <2>1. w \notin queued /\ w \notin needConn
    BY <1>4 DEF fcPark, WaitersLinked, WriterInv
  <2>2. CASE sendWindow[StreamOf[w]] > 0
    <3>1. queued' \cap needConn' = (queued \cap needConn) \cup {w}
      BY <1>4, <2>2 DEF fcPark, WriterInv
    <3>2. Cardinality((queued \cap needConn) \cup {w})
            = Cardinality(queued \cap needConn) + 1
      BY ZenonT(60), <1>2, <2>1, FS_AddElement
    <3> QED
      BY <1>4, <2>2, <3>1, <3>2 DEF fcPark
  <2>3. CASE ~(sendWindow[StreamOf[w]] > 0)
    <3>1. queued' \cap needConn' = queued \cap needConn
      BY <1>4, <2>1, <2>3 DEF fcPark
    <3> QED
      BY ZenonT(60), <1>4, <2>3, <3>1 DEF fcPark
  <2> QED
    BY <2>2, <2>3
<1>5. ASSUME NEW w \in Writers, WriterStep(w)
      PROVE  FcConnBlockedExact'
  BY <1>1, <1>3, <1>4, <1>5, ReleaseWakes, WakeExact
     DEF WriterStep, acquireSendCredits, WriteChunk
<1>6. CASE ReaderStep \/ CloserStep
  BY ZenonT(60), <1>1, <1>6, WakeExact
     DEF ReaderStep, ReaderWakeStream, ReaderReset, AdjustStream, SettingsDone,
         ReaderWakeAll, SettingsAck, shutdownStreams, fcWakeStream, fcWakeAll,
         OnStream, CloserStep, CloseCancel, CloseWake
<1>7. ASSUME NEW i \in Increments, ConnWindowUpdate(i)
      PROVE  FcConnBlockedExact'
  BY <1>1, <1>7, WakeExact DEF ConnWindowUpdate, fcWakeConn, ConnBlocked
<1> QED
  BY <1>1, <1>5, <1>6, <1>7
     DEF Next, SendData, StreamWindowUpdate, Settings, ReadError, AdmitStream,
         EndStream, markStreamDone, CloseBegin, vars

-----------------------------------------------------------------------------
\* fcWakeConn's early return skips nobody: with an exact counter it unlinks
\* every waiter that has needConn.
LEMMA ConnWakes ==
  ASSUME TypeOK, FcConnBlockedExact, fcWakeConn
  PROVE  queued' = queued \ needConn /\ needConn' = needConn \ queued
<1>1. IsFiniteSet(queued \cap needConn)
  BY FS_Subset DEF TypeOK
<1>2. fcConnBlocked = 0 => queued \cap needConn = {}
  BY ZenonT(60), <1>1, FS_EmptySet DEF FcConnBlockedExact
<1> QED
  BY <1>2 DEF fcWakeConn, ConnBlocked, fcWake

\* The same for the refund, which wakes the stream first.
LEMMA RefundWakes ==
  ASSUME TypeOK, FcConnBlockedExact, NEW s \in Streams, fcWakeStreamThenConn(s)
  PROVE  queued' = queued \ (needConn \cup OnStream(s)) /\ needConn' = needConn \ queued
<1> DEFINE blocked == queued \cap needConn
           rest    == (queued \ OnStream(s)) \cap needConn
<1>1. IsFiniteSet(blocked)
  BY FS_Subset DEF TypeOK
<1>2. Cardinality(blocked \ OnStream(s))
        = Cardinality(blocked) - Cardinality(blocked \cap OnStream(s))
  BY ZenonT(60), <1>1, FS_Difference
<1>3. /\ blocked \cap OnStream(s) = OnStream(s) \cap needConn
      /\ blocked \ OnStream(s) = rest
  BY DEF OnStream
<1>4. Cardinality(rest) = fcConnBlocked - Cardinality(OnStream(s) \cap needConn)
  BY <1>2, <1>3 DEF FcConnBlockedExact
<1>5. IsFiniteSet(rest)
  BY <1>1, FS_Subset, SMTT(30)
<1>6. fcConnBlocked - Cardinality(OnStream(s) \cap needConn) = 0 => rest = {}
  BY <1>4, <1>5, FS_EmptySet
<1>7. fcWake(OnStream(s) \cup rest)
  BY ZenonT(60), <1>6 DEF fcWakeStreamThenConn
<1> QED
  BY <1>7 DEF fcWake, OnStream

\* Which wakes are under way depends on the reader and on Close only.
LEMMA OwedKept ==
  ASSUME UNCHANGED <<rpc, rstream, rfail, cpc>>
  PROVE  \A w \in Writers : WakeOwed(w) => WakeOwed(w)'
BY DEF WakeOwed

\* A step that grows no window a listed or parking writer depends on, lists and
\* parks nobody and settles no debt of a wake keeps WakeInv.
LEMMA CalmStep ==
  ASSUME TypeOK, TypeOK', WakeInv,
         queued' \subseteq queued,
         queued' \cap needConn \subseteq needConn',
         \A w \in Writers : pc'[w] = "park" => pc[w] = "park",
         \A w \in Writers : pc'[w] = "park" \/ w \in queued' =>
           sendWindow'[StreamOf[w]] <= sendWindow[StreamOf[w]],
         connWin' <= connWin, closed' = closed,
         \A w \in Writers : pc'[w] = "park" \/ w \in queued' =>
           (WakeOwed(w) => WakeOwed(w)')
  PROVE  WakeInv'
<1>1. ASSUME NEW w \in Writers, pc'[w] = "park" \/ w \in queued',
             Avail(w)' > 0
      PROVE  Avail(w) > 0
  BY <1>1, SMTT(30) DEF Avail, MinOf, TypeOK
<1>2. ASSUME NEW w \in Writers, pc'[w] = "park" \/ w \in queued',
             Avail(w)' > 0 \/ closed'
      PROVE  WakeOwed(w)'
  BY <1>1, <1>2 DEF WakeInv
<1>3. ASSUME NEW w \in queued', w \notin needConn'
      PROVE  sendWindow'[StreamOf[w]] <= 0 \/ WakeOwed(w)'
  <2>1. w \in queued \ needConn /\ w \in Writers
    BY <1>3 DEF TypeOK
  <2>2. sendWindow[StreamOf[w]] \in Int /\ sendWindow'[StreamOf[w]] \in Int
    BY <2>1 DEF TypeOK
  <2>3. sendWindow'[StreamOf[w]] <= sendWindow[StreamOf[w]]
    BY <1>3, <2>1
  <2>4. sendWindow[StreamOf[w]] <= 0 => sendWindow'[StreamOf[w]] <= 0
    BY ONLY <2>2, <2>3
  <2> QED
    BY <1>3, <2>1, <2>4 DEF WakeInv
<1> QED
  BY <1>2, <1>3 DEF WakeInv

\* A step after which nobody is listed or about to park keeps WakeInv.
LEMMA NobodyParked ==
  ASSUME fcOutMuFree, fcWakeAll, UNCHANGED pc
  PROVE  WakeInv'
BY DEF fcOutMuFree, fcWakeAll, fcWake, WakeInv

\* A window that is left alone has not risen.
LEMMA NoRise == \A a \in Int : a <= a
BY SMTT(30)

\* A step that leaves a wake owed to every writer keeps WakeInv.
LEMMA EveryoneOwed ==
  ASSUME TypeOK', \A w \in Writers : WakeOwed(w)'
  PROVE  WakeInv'
BY DEF WakeInv, TypeOK

\* Every step keeps WakeInv: a listed writer, or one past its last look at the
\* windows, either finds no credit or has a wake under way.
LEMMA NextWakeInv ==
  /\ TypeOK /\ ReaderInv /\ WriterInv /\ WaitersLinked /\ FcConnBlockedExact
  /\ WakeInv /\ [Next]_vars /\ TypeOK'
  => WakeInv'
<1> SUFFICES ASSUME TypeOK, ReaderInv, WriterInv, WaitersLinked,
                    FcConnBlockedExact, WakeInv, [Next]_vars, TypeOK'
             PROVE  WakeInv'
  OBVIOUS
<1>1. ASSUME UNCHANGED <<queued, needConn, sendWindow, connWin, closed, rpc,
                         rstream, rfail, cpc>>,
             \A w \in Writers : pc'[w] = "park" => pc[w] = "park"
      PROVE  WakeInv'
  <2>1. \A w \in Writers : sendWindow[StreamOf[w]] \in Int
    BY DEF TypeOK
  <2>2. connWin \in Int
    BY DEF TypeOK
  <2>3. \A w \in Writers : WakeOwed(w) => WakeOwed(w)'
    BY <1>1, OwedKept
  <2>4. /\ connWin' <= connWin
        /\ \A w \in Writers : sendWindow'[StreamOf[w]] <= sendWindow[StreamOf[w]]
    BY <1>1, <2>1, <2>2, SMTT(30)
  <2> QED
    BY <1>1, <2>3, <2>4, CalmStep
<1>2. ASSUME NEW w \in Writers, acquireSendCredits(w) \/ parkForSendCredits(w)
      PROVE  WakeInv'
  <2>1. /\ queued' = queued \/ queued' = queued \ {w}
        /\ queued' \cap needConn \subseteq needConn'
        /\ UNCHANGED <<closed, rpc, rstream, rfail, cpc>>
    BY <1>2 DEF acquireSendCredits, parkForSendCredits, fcUnpark, connVars,
                readerVars, waitVars
  <2>0. \A v \in Writers : WakeOwed(v) => WakeOwed(v)'
    BY <2>1, OwedKept
  <2>2. CASE takeSendCredits(w)
    <3>1. PICK n \in Nat :
            /\ sendWindow' = [sendWindow EXCEPT ![StreamOf[w]] = @ - n]
            /\ connWin' = connWin - n
      BY <2>2, TakeDebits
    <3>2. \A v \in Writers :
            sendWindow'[StreamOf[v]] <= sendWindow[StreamOf[v]]
      BY <3>1, SMTT(30) DEF TypeOK
    <3>3. connWin' <= connWin
      BY <3>1, SMTT(30) DEF TypeOK
    <3>4. \A v \in Writers : pc'[v] = "park" => pc[v] = "park"
      BY <2>2 DEF takeSendCredits, TypeOK
    <3> QED
      BY <2>0, <2>1, <3>2, <3>3, <3>4, CalmStep
  <2>3. CASE GiveUp(w) \/ NoCredit(w, "slow")
    <3>1. \A v \in Writers : pc'[v] = "park" => pc[v] = "park"
      BY <2>3 DEF GiveUp, Return, NoCredit, TypeOK
    <3>2. UNCHANGED <<sendWindow, connWin>>
      BY <2>3 DEF GiveUp, NoCredit, winVars
    <3>3. /\ \A v \in Writers : sendWindow[StreamOf[v]] \in Int
          /\ connWin \in Int
      BY DEF TypeOK
    <3>4. /\ connWin' <= connWin
          /\ \A v \in Writers :
               sendWindow'[StreamOf[v]] <= sendWindow[StreamOf[v]]
      BY <3>2, <3>3, SMTT(30)
    <3> QED
      BY <2>0, <2>1, <3>1, <3>4, CalmStep
  <2>4. CASE NoCredit(w, "park")
    <3>1. UNCHANGED <<sendWindow, connWin>> /\ Avail(w) <= 0 /\ ~closed
      BY <2>4 DEF NoCredit, winVars
    <3>2. \A v \in Writers : v # w => pc'[v] = pc[v]
      BY <2>4 DEF NoCredit, TypeOK
    <3>3. Avail(w)' <= 0 /\ ~closed'
      BY <2>1, <3>1 DEF Avail
    <3>4. Avail(w)' \in Int
      BY DEF Avail, MinOf, TypeOK
    <3>5. \A v \in Writers : WakeOwed(v)' = WakeOwed(v) /\ Avail(v)' = Avail(v)
      BY <2>1, <3>1 DEF WakeOwed, Avail
    <3>6. ASSUME NEW v \in Writers, pc'[v] = "park" \/ v \in queued',
                 Avail(v)' > 0 \/ closed'
          PROVE  WakeOwed(v)'
      <4>1. v # w
        BY ONLY <3>3, <3>4, <3>6
      <4>2. pc[v] = "park" \/ v \in queued
        BY ONLY <2>1, <3>2, <3>6, <4>1
      <4>3. Avail(v) > 0 \/ closed
        BY ZenonT(60), <3>3, <3>5, <3>6
      <4> QED
        BY ZenonT(60), <3>5, <4>2, <4>3 DEF WakeInv
    <3>7. ASSUME NEW v \in queued' \ needConn'
          PROVE  sendWindow'[StreamOf[v]] <= 0 \/ WakeOwed(v)'
      <4>1. v \in queued \ needConn /\ v \in Writers
        BY <2>1, <3>7 DEF TypeOK
      <4> QED
        BY ZenonT(60), <3>1, <3>5, <4>1 DEF WakeInv
    <3> QED
      BY ZenonT(60), <3>6, <3>7 DEF WakeInv
  <2> QED
    BY <1>2, <2>2, <2>3, <2>4 DEF acquireSendCredits, parkForSendCredits
<1>3. ASSUME NEW w \in Writers, fcPark(w)
      PROVE  WakeInv'
  <2>1. \A v \in Writers : WakeOwed(v)' = WakeOwed(v) /\ Avail(v)' = Avail(v)
    BY <1>3 DEF fcPark, WakeOwed, Avail, winVars, connVars, readerVars
  <2>2. UNCHANGED <<sendWindow, closed>>
    BY <1>3 DEF fcPark, winVars, connVars
  <2>3. /\ queued' = queued \cup {w} /\ needConn \subseteq needConn'
        /\ w \notin needConn' => ~(sendWindow[StreamOf[w]] > 0)
        /\ \A v \in Writers : pc'[v] = "park" => pc[v] = "park"
        /\ pc[w] = "park"
    BY <1>3 DEF fcPark, TypeOK
  <2>4. sendWindow[StreamOf[w]] \in Int
    BY DEF TypeOK
  <2>5. w \notin needConn' => sendWindow[StreamOf[w]] <= 0
    BY <2>3, <2>4, SMTT(30)
  <2>6. ASSUME NEW v \in Writers, pc'[v] = "park" \/ v \in queued',
               Avail(v)' > 0 \/ closed'
        PROVE  WakeOwed(v)'
    BY <2>1, <2>2, <2>3, <2>6 DEF WakeInv
  <2>7. ASSUME NEW v \in queued' \ needConn'
        PROVE  sendWindow'[StreamOf[v]] <= 0 \/ WakeOwed(v)'
    <3>1. CASE v = w
      BY <2>2, <2>5, <3>1
    <3>2. CASE v # w
      BY <2>1, <2>2, <2>3, <3>2 DEF WakeInv, TypeOK
    <3> QED
      BY <3>1, <3>2
  <2> QED
    BY <2>6, <2>7 DEF WakeInv
<1>4. ASSUME NEW w \in Writers, WriteChunk(w)
      PROVE  WakeInv'
  <2>1. \A v \in Writers : pc'[v] = "park" => pc[v] = "park"
    BY <1>4 DEF WriteChunk, Return, TypeOK
  <2> QED
    BY <1>1, <1>4, <2>1
       DEF WriteChunk, winVars, connVars, readerVars, waitVars
<1>5. ASSUME NEW w \in Writers, releaseSendCredits(w)
      PROVE  WakeInv'
  <2> DEFINE s == StreamOf[w]
  <2>1. queued' = queued \ (needConn \cup OnStream(s))
    BY <1>5, RefundWakes DEF releaseSendCredits
  <2>2. /\ \A v \in Writers : pc[v] # "park" /\ pc'[v] # "park"
        /\ \A v \in Writers : StreamOf[v] # s =>
             sendWindow'[StreamOf[v]] = sendWindow[StreamOf[v]]
        /\ UNCHANGED <<closed, cpc, rpc, rstream, rfail>>
    BY <1>5 DEF releaseSendCredits, fcOutMuFree, Return, TypeOK, connVars,
                readerVars
  <2>3. ASSUME NEW v \in queued'
        PROVE  /\ sendWindow'[StreamOf[v]] <= 0 \/ WakeOwed(v)'
               /\ Avail(v)' > 0 \/ closed' => WakeOwed(v)'
    <3>1. v \in queued \ needConn /\ StreamOf[v] # s /\ v \in Writers
      BY <2>1 DEF OnStream, TypeOK
    <3>2. WakeOwed(v)' = WakeOwed(v)
      BY <2>2 DEF WakeOwed
    <3>3. sendWindow'[StreamOf[v]] <= 0 \/ WakeOwed(v)'
      BY <2>2, <3>1, <3>2 DEF WakeInv
    <3>4. sendWindow'[StreamOf[v]] <= 0 => ~(Avail(v)' > 0)
      <4>1. sendWindow'[StreamOf[v]] \in Int /\ connWin' \in Int
        BY <3>1 DEF TypeOK
      <4> QED
        BY ONLY <4>1 DEF Avail, MinOf
    <3>5. closed' => WakeOwed(v)'
      BY <2>2, <3>1, <3>2 DEF WakeInv
    <3> QED
      BY <3>3, <3>4, <3>5
  <2> QED
    BY ZenonT(60), <2>2, <2>3 DEF WakeInv
<1>6. ASSUME NEW i \in Increments, ConnWindowUpdate(i)
      PROVE  WakeInv'
  <2>1. CASE connWin + i > MaxWindow
    <3>1. UNCHANGED <<queued, needConn, sendWindow, connWin, closed, cpc, pc>>
      BY <1>6, <2>1 DEF ConnWindowUpdate, connVars, writerVars, waitVars
    <3>2. \A w \in Writers : WakeOwed(w) => WakeOwed(w)'
      BY <1>6, <3>1 DEF ConnWindowUpdate, WakeOwed, ReaderInv
    <3>3. /\ \A v \in Writers : sendWindow[StreamOf[v]] \in Int
          /\ connWin \in Int
      BY DEF TypeOK
    <3> QED
      BY <3>1, <3>2, <3>3, CalmStep, SMTT(30)
  <2>2. CASE ~(connWin + i > MaxWindow)
    <3>1. queued' = queued \ needConn
      BY <1>6, <2>2, ConnWakes DEF ConnWindowUpdate
    <3>2. /\ UNCHANGED <<sendWindow, closed, cpc, rpc, rstream, rfail, pc>>
          /\ \A v \in Writers : pc[v] # "park"
      BY <1>6, <2>2 DEF ConnWindowUpdate, fcOutMuFree, connVars, writerVars
    <3>3. ASSUME NEW v \in queued'
          PROVE  /\ sendWindow'[StreamOf[v]] <= 0 \/ WakeOwed(v)'
                 /\ Avail(v)' > 0 \/ closed' => WakeOwed(v)'
      <4>1. v \in queued \ needConn /\ v \in Writers
        BY <3>1 DEF TypeOK
      <4>2. WakeOwed(v)' = WakeOwed(v)
        BY <3>2 DEF WakeOwed
      <4>3. sendWindow'[StreamOf[v]] <= 0 \/ WakeOwed(v)'
        BY <3>2, <4>1, <4>2 DEF WakeInv
      <4>4. sendWindow'[StreamOf[v]] <= 0 => ~(Avail(v)' > 0)
        <5>1. sendWindow'[StreamOf[v]] \in Int /\ connWin' \in Int
          BY <4>1 DEF TypeOK
        <5> QED
          BY ONLY <5>1 DEF Avail, MinOf
      <4>5. closed' => WakeOwed(v)'
        BY <3>2, <4>1, <4>2 DEF WakeInv
      <4> QED
        BY <4>3, <4>4, <4>5
    <3> QED
      BY <3>2, <3>3 DEF WakeInv
  <2> QED
    BY <2>1, <2>2
<1>7. ASSUME NEW s \in Streams, NEW i \in Increments, StreamWindowUpdate(s, i)
      PROVE  WakeInv'
  <2>1. /\ UNCHANGED <<queued, needConn, connWin, closed, cpc, pc>>
        /\ rpc = "read"
        /\ \/ rpc' = "wakeStream" /\ rstream' = {s}
           \/ rpc' = "rst" /\ UNCHANGED sendWindow
        /\ \A r \in Streams : r # s => sendWindow'[r] = sendWindow[r]
    BY <1>7 DEF StreamWindowUpdate, connVars, writerVars, waitVars, TypeOK
  <2>2. \A w \in Writers : WakeOwed(w) => WakeOwed(w)'
    BY <2>1 DEF WakeOwed
  <2>3. ASSUME NEW w \in Writers
        PROVE  \/ WakeOwed(w)'
               \/ /\ sendWindow'[StreamOf[w]] = sendWindow[StreamOf[w]]
                  /\ Avail(w)' = Avail(w)
    <3>1. CASE rpc' = "wakeStream" /\ StreamOf[w] = s
      BY <2>1, <3>1 DEF WakeOwed
    <3>2. CASE ~(rpc' = "wakeStream" /\ StreamOf[w] = s)
      BY <2>1, <3>2 DEF Avail
    <3> QED
      BY <3>1, <3>2
  <2> QED
    BY <2>1, <2>2, <2>3 DEF WakeInv, TypeOK
<1>8. CASE ReaderWakeStream
  <2>1. PICK s \in Streams : rstream = {s}
    BY <1>8 DEF ReaderWakeStream, ReaderInv
  <2>2. /\ queued' = queued \ OnStream(s)
        /\ needConn' = needConn \ OnStream(s)
        /\ UNCHANGED <<sendWindow, connWin, closed, cpc, pc>>
    BY <1>8, <2>1 DEF ReaderWakeStream, fcWakeStream, fcWake, winVars,
                      connVars, writerVars
  <2>3. \A w \in queued' : WakeOwed(w) => WakeOwed(w)'
    BY <1>8, <2>1, <2>2 DEF ReaderWakeStream, WakeOwed, OnStream
  <2>4. \A w \in Writers : pc'[w] # "park"
    BY <1>8, <2>2 DEF ReaderWakeStream, fcOutMuFree
  <2>5. /\ \A v \in Writers : sendWindow[StreamOf[v]] \in Int
        /\ connWin \in Int
    BY DEF TypeOK
  <2> QED
    BY <2>2, <2>3, <2>4, <2>5, CalmStep, SMTT(30)
<1>9. CASE ReaderReset \/ SettingsAck \/ ReadError \/ shutdownStreams
  <2>1. UNCHANGED <<queued, needConn, sendWindow, connWin, closed, cpc, pc>>
    BY <1>9 DEF ReaderReset, SettingsAck, ReadError, shutdownStreams, winVars,
                connVars, writerVars, waitVars
  <2>2. \A w \in Writers : WakeOwed(w) => WakeOwed(w)'
    BY <1>9, <2>1 DEF ReaderReset, SettingsAck, ReadError, shutdownStreams,
                      WakeOwed
  <2>3. /\ \A v \in Writers : sendWindow[StreamOf[v]] \in Int
        /\ connWin \in Int
    BY DEF TypeOK
  <2> QED
    BY <2>1, <2>2, <2>3, CalmStep, SMTT(30)
<1>10. ASSUME NEW v \in InitWindows, Settings(v)
       PROVE  WakeInv'
  BY <1>10, EveryoneOwed DEF Settings, WakeOwed
<1>11. ASSUME NEW s \in Streams, AdjustStream(s)
       PROVE  WakeInv'
  BY <1>11, EveryoneOwed DEF AdjustStream, WakeOwed
<1>12. CASE SettingsDone
  BY <1>12, EveryoneOwed DEF SettingsDone, WakeOwed
<1>13. CASE ReaderWakeAll \/ CloseWake
  BY <1>13, NobodyParked DEF ReaderWakeAll, CloseWake, writerVars
<1>14. CASE CloseBegin \/ CloseCancel
  BY <1>14, EveryoneOwed DEF CloseBegin, CloseCancel, WakeOwed
<1>15. ASSUME NEW s \in Streams, AdmitStream(s)
       PROVE  WakeInv'
  <2>1. \A w \in Writers : pc[w] = "park" \/ w \in queued => StreamOf[w] # s
    BY <1>15 DEF AdmitStream, WriterInv, WaitersLinked
  <2>2. UNCHANGED <<queued, needConn, connWin, closed, cpc, rpc, rstream,
                    rfail, pc>>
    BY <1>15 DEF AdmitStream, connVars, readerVars, writerVars, waitVars
  <2>3. \A w \in Writers : pc[w] = "park" \/ w \in queued =>
          sendWindow'[StreamOf[w]] = sendWindow[StreamOf[w]]
    BY <1>15, <2>1 DEF AdmitStream, TypeOK
  <2>4. /\ \A v \in Writers : sendWindow[StreamOf[v]] \in Int
        /\ connWin \in Int
    BY DEF TypeOK
  <2>5. \A w \in Writers : WakeOwed(w) => WakeOwed(w)'
    BY <2>2, OwedKept
  <2>6. /\ connWin' <= connWin
        /\ \A w \in Writers : pc[w] = "park" \/ w \in queued =>
             sendWindow'[StreamOf[w]] <= sendWindow[StreamOf[w]]
    BY ZenonT(60), <2>2, <2>3, <2>4, NoRise
  <2> QED
    BY <2>2, <2>5, <2>6, CalmStep
<1>16. ASSUME NEW w \in Writers, NEW n \in Bodies, SendData(w, n)
       PROVE  WakeInv'
  <2>1. \A v \in Writers : pc'[v] = "park" => pc[v] = "park"
    BY <1>16 DEF SendData, TypeOK
  <2> QED
    BY <1>1, <1>16, <2>1
       DEF SendData, winVars, connVars, readerVars, waitVars
<1>17. ASSUME NEW s \in Streams, EndStream(s) \/ markStreamDone(s)
       PROVE  WakeInv'
  BY ZenonT(60), <1>1, <1>17 DEF EndStream, markStreamDone, winVars, connVars, readerVars,
                     writerVars, waitVars
<1>18. CASE UNCHANGED vars
  BY <1>1, <1>18 DEF vars, winVars, connVars, readerVars, writerVars, waitVars
<1> QED
  BY <1>2, <1>3, <1>4, <1>5, <1>6, <1>7, <1>8, <1>9, <1>10, <1>11, <1>12,
     <1>13, <1>14, <1>15, <1>16, <1>17, <1>18
     DEF Next, WriterStep, ReaderStep, CloserStep

-----------------------------------------------------------------------------
(* The ledgers *)

\* The left side of ConnLedger and of StreamLedger.
ConnUsed      == Sum(connWin, HeldOn(Streams), connSent, connCut)
StreamUsed(s) == Sum(sendWindow[s], HeldOn({s}), sent[s], cut[s])

\* What the writers of some streams hold, before and after a step, is a natural
\* number.
LEMMA HeldNat ==
  ASSUME NEW g \in [Writers -> 0..MaxFrame], NEW S
  PROVE  Total(g, {w \in Writers : StreamOf[w] \in S}) \in Nat
<1> DEFINE W == {w \in Writers : StreamOf[w] \in S}
<1>1. W \in SUBSET Writers
  OBVIOUS
<1> HIDE DEF W
<1>2. Total(g, W) \in Nat
  BY <1>1, UnitsFinite
<1> QED BY <1>2 DEF W

\* One writer takes, writes, returns or refunds: the sums move by its share.
LEMMA HeldStep ==
  ASSUME TypeOK, HeldInv, TypeOK', HeldInv', NEW w \in Writers, NEW S,
         \A v \in Writers : v # w => held'[v] = held[v]
  PROVE  HeldOn(S)' = IF StreamOf[w] \in S THEN HeldOn(S) - held[w] + held'[w]
                      ELSE HeldOn(S)
<1> DEFINE W == {v \in Writers : StreamOf[v] \in S}
<1>1. W \in SUBSET Writers /\ (w \in W <=> StreamOf[w] \in S)
  OBVIOUS
<1>2. held \in [Writers -> 0..MaxFrame] /\ held' \in [Writers -> 0..MaxFrame]
  BY SMTT(30) DEF TypeOK, HeldInv
<1> HIDE DEF W
<1>3. Total(held', W) = IF w \in W THEN Total(held, W) - held[w] + held'[w]
                        ELSE Total(held, W)
  BY <1>1, <1>2, TotalChange, SMTT(30)
<1> QED BY <1>1, <1>3 DEF HeldOn, W

\* Nobody holds credit of a stream that is not open.
LEMMA HeldNone ==
  ASSUME TypeOK, HeldInv, WriterInv, NEW s \in Streams \ opened
  PROVE  HeldOn({s}) = 0
<1> DEFINE W == {w \in Writers : StreamOf[w] \in {s}}
<1>1. W \in SUBSET Writers /\ \A w \in W : held[w] = 0
  BY DEF HeldInv, WriterInv
<1>2. held \in [Writers -> 0..MaxFrame]
  BY SMTT(30) DEF TypeOK, HeldInv
<1> HIDE DEF W
<1>3. Total(held, W) = 0
  BY <1>1, <1>2, TotalZero
<1> QED BY <1>3 DEF HeldOn, W

\* The numbers the ledgers add are integers, before and after a step.
LEMMA LedgerTypes ==
  ASSUME TypeOK, HeldInv, TypeOK', HeldInv'
  PROVE  /\ \A S : HeldOn(S) \in Nat /\ HeldOn(S)' \in Nat
         /\ ConnUsed \in Int /\ connGrant \in Int
         /\ ConnUsed' \in Int /\ connGrant' \in Int
         /\ \A s \in Streams : /\ StreamUsed(s) \in Int /\ grant[s] \in Int
                               /\ StreamUsed(s)' \in Int /\ grant'[s] \in Int
<1>1. held \in [Writers -> 0..MaxFrame] /\ held' \in [Writers -> 0..MaxFrame]
  BY SMTT(30) DEF TypeOK, HeldInv
<1>2. ASSUME NEW S
      PROVE  HeldOn(S) \in Nat /\ HeldOn(S)' \in Nat
  BY <1>1, HeldNat DEF HeldOn
<1>3. ConnUsed \in Int /\ connGrant \in Int /\ ConnUsed' \in Int /\ connGrant' \in Int
  BY <1>2, SMTT(30) DEF TypeOK, ConnUsed, Sum
<1>4. ASSUME NEW s \in Streams
      PROVE  /\ StreamUsed(s) \in Int /\ grant[s] \in Int
             /\ StreamUsed(s)' \in Int /\ grant'[s] \in Int
  BY <1>2, SMTT(30) DEF TypeOK, StreamUsed, Sum
<1> QED BY <1>2, <1>3, <1>4

LEMMA LedgerFacts ==
  ASSUME LedgerInv
  PROVE  /\ TypeOK /\ HeldInv /\ ReaderInv /\ WindowInv /\ WriterInv
         /\ live \subseteq Streams /\ rtodo \subseteq live
         /\ \A w \in Writers : StreamOf[w] \in Streams /\ held[w] \in Nat
<1>1. TypeOK /\ HeldInv /\ ReaderInv /\ WindowInv /\ WriterInv
  BY DEF LedgerInv, CreditInv
<1>2. live \subseteq Streams /\ rtodo \subseteq live
  BY <1>1 DEF TypeOK
<1>3. \A w \in Writers : StreamOf[w] \in Streams /\ held[w] \in Nat
  BY <1>1 DEF TypeOK
<1> QED BY <1>1, <1>2, <1>3

\* A step that leaves both sides of both ledgers alone.
LEMMA CalmLedgers ==
  ASSUME LedgerInv,
         UNCHANGED <<connWin, sendWindow, held, histVars, peerInit, rtodo, rdelta>>,
         live' \subseteq live, opened' = opened,
         closed => closed', broken => broken', rfail => rfail'
  PROVE  CreditConserved'
<1>1. \A S : HeldOn(S)' = HeldOn(S)
  BY DEF HeldOn
<1>2. ConnLedger'
  BY <1>1 DEF LedgerInv, CreditConserved, ConnLedger, histVars
<1>3. StreamLedger'
  BY <1>1 DEF LedgerInv, CreditConserved, StreamLedger, histVars
<1> QED BY <1>2, <1>3 DEF CreditConserved

\* Two sums that move by the same amount stay level, and one that moves less stays
\* below.
Level(u, g)          == u = InitConn + g
SameMove(u, g, v, h) == v - h = u - g

LEMMA BothMove ==
  ASSUME NEW u \in Int, NEW g \in Int, NEW v \in Int, NEW h \in Int
  PROVE  /\ v - h <= u - g /\ u <= InitConn + g => v <= InitConn + h
         /\ SameMove(u, g, v, h) /\ Level(u, g) => Level(v, h)
  BY SMTT(30) DEF Level, SameMove

\* A step that moves the two sides of the connection's ledger by the same amount,
\* or loses credit on a connection that is over, keeps it.
LEMMA MovedConn ==
  ASSUME ConnLedger, ConnUsed \in Int, connGrant \in Int, ConnUsed' \in Int,
         connGrant' \in Int,
         ConnUsed' - connGrant' <= ConnUsed - connGrant,
         ~closed' /\ ~broken' => ConnUsed' - connGrant' = ConnUsed - connGrant,
         closed => closed', broken => broken'
  PROVE  ConnLedger'
<1>1. /\ ConnUsed <= InitConn + connGrant
      /\ ~closed /\ ~broken => ConnUsed = InitConn + connGrant
  BY DEF ConnLedger, ConnUsed, Sum
<1>2. ConnUsed' <= InitConn + connGrant'
  BY <1>1, BothMove
<1>3. ASSUME ~closed', ~broken'
      PROVE  ConnUsed' = InitConn + connGrant'
  <2>1. ~closed /\ ~broken
    BY <1>3
  <2>2. SameMove(ConnUsed, connGrant, ConnUsed', connGrant') /\ Level(ConnUsed, connGrant)
    BY <1>1, <1>3, <2>1 DEF SameMove, Level
  <2>3. Level(ConnUsed', connGrant')
    BY <2>2, BothMove
  <2> QED BY <2>3 DEF Level
<1> QED BY <1>2, <1>3 DEF ConnLedger, ConnUsed, Sum

\* A step that moves credit about: within the connection's window, and between a
\* stream's window, the writers and the wire.  What a failed write or a closed
\* connection loses is lost for good.
LEMMA MovedLedgers ==
  ASSUME LedgerInv, TypeOK', HeldInv',
         ConnUsed' - connGrant' <= ConnUsed - connGrant,
         ~closed' /\ ~broken' => ConnUsed' - connGrant' = ConnUsed - connGrant,
         ~closed' /\ ~broken' =>
            \A s \in live : StreamUsed(s)' - grant'[s] = StreamUsed(s) - grant[s],
         UNCHANGED <<peerInit, rtodo, rdelta, rfail, live>>,
         closed => closed', broken => broken'
  PROVE  CreditConserved'
<1>1. TypeOK /\ HeldInv /\ live \subseteq Streams
  BY LedgerFacts
<1>2. ConnLedger'
  <2>1. ConnUsed \in Int /\ connGrant \in Int /\ ConnUsed' \in Int /\ connGrant' \in Int
    BY <1>1, LedgerTypes
  <2>2. ConnLedger
    BY DEF LedgerInv, CreditConserved
  <2> QED BY <2>1, <2>2, MovedConn
<1>3. StreamLedger'
  <2> SUFFICES ASSUME ~closed', ~broken', ~rfail', NEW s \in live'
               PROVE  StreamUsed(s)' = grant'[s] +
                        (IF s \in rtodo THEN peerInit - rdelta ELSE peerInit)
    BY DEF StreamLedger, StreamUsed, Sum
  <2>1. s \in Streams /\ StreamUsed(s)' - grant'[s] = StreamUsed(s) - grant[s]
    BY <1>1
  <2>2. StreamUsed(s) = grant[s] + (IF s \in rtodo THEN peerInit - rdelta ELSE peerInit)
    BY DEF LedgerInv, CreditConserved, StreamLedger, StreamUsed, Sum
  <2>3. (IF s \in rtodo THEN peerInit - rdelta ELSE peerInit) \in Int
    BY <1>1, SMTT(30) DEF TypeOK
  <2>4. /\ StreamUsed(s) \in Int /\ grant[s] \in Int
        /\ StreamUsed(s)' \in Int /\ grant'[s] \in Int
    BY <1>1, <2>1, LedgerTypes
  <2> QED BY <2>1, <2>2, <2>3, <2>4, SMTT(30)
<1> QED BY <1>2, <1>3 DEF CreditConserved

\* takeSendCredits moves credit from both windows to the writer.
LEMMA TakeLedgers ==
  ASSUME LedgerInv, TypeOK', HeldInv', NEW w \in Writers, takeSendCredits(w),
         pc[w] \notin {"have", "refund"},
         UNCHANGED <<streamVars, connVars, readerVars, histVars>>
  PROVE  CreditConserved'
<1>1. TypeOK /\ HeldInv /\ StreamOf[w] \in Streams /\ held[w] = 0
  BY LedgerFacts DEF HeldInv
<1>2. PICK n \in Nat :
        /\ sendWindow' = [sendWindow EXCEPT ![StreamOf[w]] = @ - n]
        /\ connWin' = connWin - n
        /\ held' = [held EXCEPT ![w] = n]
  BY <1>1, TakeDebits
<1>3. held'[w] = n /\ \A v \in Writers : v # w => held'[v] = held[v]
  BY <1>1, <1>2 DEF TypeOK
<1>4. \A S : HeldOn(S) \in Nat
  BY <1>1, LedgerTypes
<1>5. \A S : /\ StreamOf[w] \in S => HeldOn(S)' = HeldOn(S) + n
             /\ StreamOf[w] \notin S => HeldOn(S)' = HeldOn(S)
  <2>1. \A S : HeldOn(S)' = IF StreamOf[w] \in S THEN HeldOn(S) - 0 + n ELSE HeldOn(S)
    BY <1>1, <1>3, HeldStep
  <2>2. \A x \in Nat : x - 0 + n = x + n
    BY SMTT(30)
  <2> QED BY <1>4, <2>1, <2>2
<1>6. ConnUsed' = ConnUsed
  <2>1. /\ connWin \in Int /\ connSent \in Nat /\ connCut \in Nat
        /\ connSent' = connSent /\ connCut' = connCut
    BY <1>1 DEF TypeOK, histVars
  <2>2. HeldOn(Streams)' = HeldOn(Streams) + n /\ HeldOn(Streams) \in Nat
    BY <1>1, <1>4, <1>5
  <2>3. ConnUsed' = Sum(connWin - n, HeldOn(Streams) + n, connSent, connCut)
    BY <1>2, <2>1, <2>2 DEF ConnUsed
  <2>4. Same(Sum(connWin - n, HeldOn(Streams) + n, connSent, connCut),
             Sum(connWin, HeldOn(Streams), connSent, connCut))
    BY <1>4, <2>1, SumTaken
  <2> QED BY <2>3, <2>4 DEF ConnUsed, Same
<1>7. ASSUME NEW s \in Streams
      PROVE  StreamUsed(s)' = StreamUsed(s)
  <2>1. sent'[s] = sent[s] /\ cut'[s] = cut[s] /\ sent[s] \in Nat /\ cut[s] \in Nat
    BY <1>1 DEF TypeOK, histVars
  <2>2. CASE s = StreamOf[w]
    <3>1. sendWindow[s] \in Int /\ sendWindow'[s] = sendWindow[s] - n
      BY <1>1, <1>2, <2>2 DEF TypeOK
    <3>2. HeldOn({s})' = HeldOn({s}) + n /\ HeldOn({s}) \in Nat
      BY <1>4, <1>5, <2>2
    <3>3. StreamUsed(s)' = Sum(sendWindow[s] - n, HeldOn({s}) + n, sent[s], cut[s])
      BY <2>1, <3>1, <3>2 DEF StreamUsed
    <3>4. Same(Sum(sendWindow[s] - n, HeldOn({s}) + n, sent[s], cut[s]),
               Sum(sendWindow[s], HeldOn({s}), sent[s], cut[s]))
      BY <1>4, <2>1, <3>1, SumTaken
    <3> QED BY <3>3, <3>4 DEF StreamUsed, Same
  <2>3. CASE s # StreamOf[w]
    BY <1>1, <1>2, <1>5, <2>1, <2>3 DEF StreamUsed, TypeOK
  <2> QED BY <2>2, <2>3
<1>8. UNCHANGED <<peerInit, rtodo, rdelta, rfail, live, closed, broken, connGrant, grant>>
  BY DEF takeSendCredits, streamVars, connVars, readerVars, histVars
<1>9. live \subseteq Streams /\ ConnUsed \in Int /\ connGrant \in Int
  BY <1>1, LedgerTypes DEF TypeOK
<1>10. ConnUsed' - connGrant' <= ConnUsed - connGrant
  BY <1>6, <1>8, <1>9, Differences
<1>11. \A s \in live : StreamUsed(s)' - grant'[s] = StreamUsed(s) - grant[s]
  BY <1>7, <1>8, <1>9
<1> QED BY <1>6, <1>8, <1>10, <1>11, MovedLedgers

\* The wmu section: the credit goes to the wire, stays with the writer for the
\* refund, or is lost with the connection.
LEMMA WriteLedgers ==
  ASSUME LedgerInv, TypeOK', HeldInv', NEW w \in Writers, WriteChunk(w)
  PROVE  CreditConserved'
<1>1. TypeOK /\ HeldInv /\ StreamOf[w] \in Streams /\ held[w] \in Nat
  BY LedgerFacts
<1>2. /\ UNCHANGED <<connWin, sendWindow, peerInit, rtodo, rdelta, rfail, live, opened>>
      /\ UNCHANGED <<closed, grant, connGrant, cut, connCut>>
      /\ broken => broken'
  BY SMTT(30) DEF WriteChunk, winVars, streamVars, readerVars
<1>3. CASE UNCHANGED <<held, sent, connSent>>
  BY <1>2, <1>3, CalmLedgers DEF histVars
<1>4. ASSUME held' = [held EXCEPT ![w] = 0]
      PROVE  \A S : /\ HeldOn(S) \in Nat /\ HeldOn(S)' \in Nat
                    /\ StreamOf[w] \in S => HeldOn(S)' = HeldOn(S) - held[w]
                    /\ StreamOf[w] \notin S => HeldOn(S)' = HeldOn(S)
  <2>1. held'[w] = 0 /\ \A v \in Writers : v # w => held'[v] = held[v]
    BY <1>1, <1>4 DEF TypeOK
  <2>2. \A S : HeldOn(S)' = IF StreamOf[w] \in S THEN HeldOn(S) - held[w] + 0
                            ELSE HeldOn(S)
    BY <1>1, <2>1, HeldStep
  <2>3. \A S : HeldOn(S) \in Nat /\ HeldOn(S)' \in Nat
    BY <1>1, LedgerTypes
  <2>4. \A x \in Nat : x - held[w] + 0 = x - held[w]
    BY <1>1, SMTT(30)
  <2> QED BY <2>2, <2>3, <2>4
<1>5. CASE held' = [held EXCEPT ![w] = 0] /\ UNCHANGED <<sent, connSent>> /\ (closed' \/ broken')
  <2>1. HeldOn(Streams)' <= HeldOn(Streams) /\ HeldOn(Streams) \in Nat /\ HeldOn(Streams)' \in Nat
    <3>1. /\ HeldOn(Streams) \in Nat /\ HeldOn(Streams)' \in Nat
          /\ HeldOn(Streams)' = HeldOn(Streams) - held[w]
      BY <1>1, <1>4, <1>5
    <3> QED BY <1>1, <3>1, SMTT(30)
  <2>2. ConnUsed' - connGrant' <= ConnUsed - connGrant
    <3>1. connWin \in Int /\ connSent \in Nat /\ connCut \in Nat /\ connGrant \in Nat
      BY <1>1 DEF TypeOK
    <3>2. /\ ConnUsed = connWin + HeldOn(Streams) + connSent + connCut
          /\ ConnUsed' = connWin + HeldOn(Streams)' + connSent + connCut
          /\ connGrant' = connGrant
      BY <1>2, <1>5 DEF ConnUsed, Sum
    <3> QED BY <2>1, <3>1, <3>2, SMTT(30)
  <2> QED BY <1>2, <1>5, <2>2, MovedLedgers
<1>6. CASE /\ held' = [held EXCEPT ![w] = 0]
           /\ sent' = [sent EXCEPT ![StreamOf[w]] = @ + held[w]]
           /\ connSent' = connSent + held[w]
  <2>1. ConnUsed' = ConnUsed
    <3>1. connWin \in Int /\ connSent \in Nat /\ connCut \in Nat
      BY <1>1 DEF TypeOK
    <3>2. HeldOn(Streams) \in Nat /\ HeldOn(Streams)' = HeldOn(Streams) - held[w]
      BY <1>1, <1>4, <1>6
    <3>3. ConnUsed' = Sum(connWin, HeldOn(Streams) - held[w], connSent + held[w], connCut)
      BY <1>2, <1>6, <3>2 DEF ConnUsed
    <3>4. Same(Sum(connWin, HeldOn(Streams) - held[w], connSent + held[w], connCut),
               Sum(connWin, HeldOn(Streams), connSent, connCut))
      BY <1>1, <3>1, <3>2, SumSent
    <3> QED BY <3>3, <3>4 DEF ConnUsed, Same
  <2>2. ASSUME NEW s \in Streams
        PROVE  StreamUsed(s)' = StreamUsed(s)
    <3>1. sendWindow[s] \in Int /\ sent[s] \in Nat /\ cut[s] \in Nat /\ HeldOn({s}) \in Nat
      BY <1>1, <1>4, <1>6 DEF TypeOK
    <3>2. CASE s = StreamOf[w]
      <4>1. sent'[s] = sent[s] + held[w] /\ HeldOn({s})' = HeldOn({s}) - held[w]
        BY <1>1, <1>4, <1>6, <3>2 DEF TypeOK
      <4>2. StreamUsed(s)' =
              Sum(sendWindow[s], HeldOn({s}) - held[w], sent[s] + held[w], cut[s])
        BY <1>2, <4>1 DEF StreamUsed
      <4>3. Same(Sum(sendWindow[s], HeldOn({s}) - held[w], sent[s] + held[w], cut[s]),
                 Sum(sendWindow[s], HeldOn({s}), sent[s], cut[s]))
        BY <1>1, <3>1, SumSent
      <4> QED BY <4>2, <4>3 DEF StreamUsed, Same
    <3>3. CASE s # StreamOf[w]
      <4>1. sent'[s] = sent[s] /\ HeldOn({s})' = HeldOn({s})
        BY <1>1, <1>4, <1>6, <3>3 DEF TypeOK
      <4> QED BY <1>2, <4>1 DEF StreamUsed
    <3> QED BY <3>2, <3>3
  <2>3. live \subseteq Streams /\ ConnUsed \in Int /\ connGrant \in Int
    BY <1>1, LedgerTypes DEF TypeOK
  <2>4. ConnUsed' - connGrant' <= ConnUsed - connGrant
    BY <1>2, <2>1, <2>3, Differences
  <2>5. \A s \in live : StreamUsed(s)' - grant'[s] = StreamUsed(s) - grant[s]
    BY <1>2, <2>2, <2>3
  <2> QED BY <1>2, <2>1, <2>4, <2>5, MovedLedgers
<1> QED BY <1>3, <1>5, <1>6 DEF WriteChunk, Return

\* releaseSendCredits returns the writer's credit to both windows; what saturates
\* is counted as cut.
LEMMA RefundLedgers ==
  ASSUME LedgerInv, TypeOK', HeldInv', NEW w \in Writers, releaseSendCredits(w)
  PROVE  CreditConserved'
<1>1. TypeOK /\ HeldInv /\ StreamOf[w] \in Streams /\ held[w] \in Nat
  BY LedgerFacts
<1>2. /\ connCut' = connCut + (connWin + held[w] - connWin')
      /\ cut' = [cut EXCEPT ![StreamOf[w]] =
                   @ + (sendWindow[StreamOf[w]] + held[w] - sendWindow'[StreamOf[w]])]
      /\ sendWindow' = [sendWindow EXCEPT ![StreamOf[w]] = addWindowSaturating(@, held[w])]
      /\ held' = [held EXCEPT ![w] = 0]
      /\ UNCHANGED <<peerInit, rtodo, rdelta, rfail, live, closed, broken>>
      /\ UNCHANGED <<sent, grant, connSent, connGrant>>
  BY DEF releaseSendCredits, Return, streamVars, connVars, readerVars
<1>3. held'[w] = 0 /\ \A v \in Writers : v # w => held'[v] = held[v]
  BY <1>1, <1>2 DEF TypeOK
<1>4. \A S : HeldOn(S) \in Nat /\ HeldOn(S)' \in Nat
  BY <1>1, LedgerTypes
<1>5. \A S : /\ StreamOf[w] \in S => HeldOn(S)' = HeldOn(S) - held[w]
             /\ StreamOf[w] \notin S => HeldOn(S)' = HeldOn(S)
  <2>1. \A S : HeldOn(S)' = IF StreamOf[w] \in S THEN HeldOn(S) - held[w] + 0
                            ELSE HeldOn(S)
    BY <1>1, <1>3, HeldStep
  <2>2. \A x \in Nat : x - held[w] + 0 = x - held[w]
    BY <1>1, SMTT(30)
  <2> QED BY <1>4, <2>1, <2>2
<1>6. ConnUsed' = ConnUsed
  <2>1. connWin \in Int /\ connWin' \in Int /\ connCut \in Nat /\ connSent \in Nat
    BY <1>1 DEF TypeOK
  <2>2. HeldOn(Streams)' = HeldOn(Streams) - held[w] /\ HeldOn(Streams) \in Nat
    BY <1>1, <1>4, <1>5
  <2>3. ConnUsed' = Sum(connWin', HeldOn(Streams) - held[w], connSent,
                        connCut + (connWin + held[w] - connWin'))
    BY <1>2, <2>2 DEF ConnUsed
  <2>4. Same(Sum(connWin', HeldOn(Streams) - held[w], connSent,
                 connCut + (connWin + held[w] - connWin')),
             Sum(connWin, HeldOn(Streams), connSent, connCut))
    BY <1>1, <1>4, <2>1, SumRefunded
  <2> QED BY <2>3, <2>4 DEF ConnUsed, Same
<1>7. ASSUME NEW s \in Streams
      PROVE  StreamUsed(s)' = StreamUsed(s)
  <2>1. /\ sendWindow[s] \in Int /\ sendWindow'[s] \in Int /\ sent[s] \in Nat
        /\ cut[s] \in Nat /\ HeldOn({s}) \in Nat
    BY <1>1, <1>4 DEF TypeOK
  <2>2. CASE s = StreamOf[w]
    <3>1. cut'[s] = cut[s] + (sendWindow[s] + held[w] - sendWindow'[s])
      BY <1>1, <1>2, <2>2 DEF TypeOK
    <3>2. HeldOn({s})' = HeldOn({s}) - held[w]
      BY <1>5, <2>2
    <3>3. StreamUsed(s)' = Sum(sendWindow'[s], HeldOn({s}) - held[w], sent[s],
                               cut[s] + (sendWindow[s] + held[w] - sendWindow'[s]))
      BY <1>2, <3>1, <3>2 DEF StreamUsed
    <3>4. Same(Sum(sendWindow'[s], HeldOn({s}) - held[w], sent[s],
                   cut[s] + (sendWindow[s] + held[w] - sendWindow'[s])),
               Sum(sendWindow[s], HeldOn({s}), sent[s], cut[s]))
      BY <1>1, <2>1, SumRefunded
    <3> QED BY <3>3, <3>4 DEF StreamUsed, Same
  <2>3. CASE s # StreamOf[w]
    <3>1. cut'[s] = cut[s] /\ sendWindow'[s] = sendWindow[s]
      BY <1>1, <1>2, <2>3 DEF TypeOK
    <3>2. HeldOn({s})' = HeldOn({s})
      BY <1>5, <2>3
    <3> QED BY <1>2, <3>1, <3>2 DEF StreamUsed
  <2> QED BY <2>2, <2>3
<1>8. live \subseteq Streams /\ ConnUsed \in Int /\ connGrant \in Int
  BY <1>1, LedgerTypes DEF TypeOK
<1>9. ConnUsed' - connGrant' <= ConnUsed - connGrant
  BY <1>2, <1>6, <1>8, Differences
<1>10. \A s \in live : StreamUsed(s)' - grant'[s] = StreamUsed(s) - grant[s]
  BY <1>2, <1>7, <1>8
<1> QED BY <1>2, <1>6, <1>9, <1>10, MovedLedgers

\* WINDOW_UPDATE adds the same number to a window and to the grants.
LEMMA GrantLedgers ==
  ASSUME LedgerInv, TypeOK', HeldInv', NEW i \in Increments,
         \/ ConnWindowUpdate(i)
         \/ \E s \in Streams : StreamWindowUpdate(s, i)
  PROVE  CreditConserved'
<1>1. TypeOK /\ HeldInv /\ i \in Int /\ live \subseteq Streams
  BY LedgerFacts, SMTT(30)
<1>2. /\ UNCHANGED <<peerInit, rtodo, rdelta, rfail, live, opened, closed, broken>>
      /\ UNCHANGED <<held, sent, connSent, cut, connCut>>
  BY DEF ConnWindowUpdate, StreamWindowUpdate, streamVars, connVars, writerVars
<1>3. \A S : HeldOn(S)' = HeldOn(S) /\ HeldOn(S) \in Nat
  BY <1>1, <1>2, LedgerTypes DEF HeldOn
<1>4. /\ ConnUsed \in Int /\ connGrant \in Int
      /\ \A s \in Streams : StreamUsed(s) \in Int /\ grant[s] \in Int
  BY <1>1, LedgerTypes
<1>5. CASE UNCHANGED <<connWin, sendWindow, grant, connGrant>>
  BY <1>2, <1>5, CalmLedgers DEF histVars
<1>6. CASE UNCHANGED <<sendWindow, grant>> /\ connWin' = connWin + i /\ connGrant' = connGrant + i
  <2>1. ConnUsed' = ConnUsed + i
    <3>1. connWin \in Int /\ connSent \in Nat /\ connCut \in Nat
      BY <1>1 DEF TypeOK
    <3>2. ConnUsed' = Sum(connWin + i, HeldOn(Streams), connSent, connCut)
      BY <1>2, <1>3, <1>6 DEF ConnUsed
    <3>3. HeldOn(Streams) \in Nat
      BY <1>3
    <3>4. Same(Sum(connWin + i, HeldOn(Streams), connSent, connCut),
               Sum(connWin, HeldOn(Streams), connSent, connCut) + i)
      BY <1>1, <3>1, <3>3, SumGranted
    <3> QED BY <3>2, <3>4 DEF ConnUsed, Same
  <2>2. \A s \in Streams : StreamUsed(s)' = StreamUsed(s)
    BY <1>2, <1>3, <1>6 DEF StreamUsed
  <2>3. /\ ConnUsed' - connGrant' <= ConnUsed - connGrant
        /\ ConnUsed' - connGrant' = ConnUsed - connGrant
    <3>1. /\ Same((ConnUsed + i) - (connGrant + i), ConnUsed - connGrant)
          /\ ConnUsed - connGrant <= ConnUsed - connGrant
      BY <1>1, <1>4, Differences
    <3> QED BY <1>6, <2>1, <3>1 DEF Same
  <2>4. \A s \in live : StreamUsed(s)' - grant'[s] = StreamUsed(s) - grant[s]
    BY <1>1, <1>6, <2>2
  <2> QED BY <1>2, <2>3, <2>4, MovedLedgers
<1>7. ASSUME NEW s \in Streams, UNCHANGED <<connWin, connGrant>>,
             sendWindow' = [sendWindow EXCEPT ![s] = @ + i],
             grant' = [grant EXCEPT ![s] = @ + i]
      PROVE  CreditConserved'
  <2>1. ConnUsed' = ConnUsed
    BY <1>2, <1>3, <1>7 DEF ConnUsed
  <2>2. ASSUME NEW r \in Streams
        PROVE  StreamUsed(r)' - grant'[r] = StreamUsed(r) - grant[r]
    <3>1. /\ sendWindow[r] \in Int /\ sent[r] \in Nat /\ cut[r] \in Nat /\ grant[r] \in Nat
          /\ HeldOn({r}) \in Nat
          /\ StreamUsed(r)' = Sum(sendWindow'[r], HeldOn({r}), sent[r], cut[r])
      BY <1>1, <1>2, <1>3 DEF StreamUsed, TypeOK
    <3>2. CASE r = s
      <4>1. sendWindow'[r] = sendWindow[r] + i /\ grant'[r] = grant[r] + i
        BY <1>1, <1>7, <3>2 DEF TypeOK
      <4>2. Same(Sum(sendWindow[r] + i, HeldOn({r}), sent[r], cut[r]),
                 Sum(sendWindow[r], HeldOn({r}), sent[r], cut[r]) + i)
        BY <1>1, <3>1, SumGranted
      <4>3. Same((StreamUsed(r) + i) - (grant[r] + i), StreamUsed(r) - grant[r])
        BY <1>1, <1>4, Differences
      <4>4. StreamUsed(r)' = StreamUsed(r) + i
        BY <3>1, <4>1, <4>2 DEF StreamUsed, Same
      <4> QED BY <4>1, <4>3, <4>4 DEF Same
    <3>3. CASE r # s
      <4>1. sendWindow'[r] = sendWindow[r] /\ grant'[r] = grant[r]
        BY <1>1, <1>7, <3>3 DEF TypeOK
      <4> QED BY <3>1, <4>1 DEF StreamUsed
    <3> QED BY <3>2, <3>3
  <2>3. ConnUsed' - connGrant' <= ConnUsed - connGrant
    BY <1>4, <1>7, <2>1, Differences
  <2>4. ConnUsed' - connGrant' = ConnUsed - connGrant
    BY <1>7, <2>1
  <2> QED BY <1>1, <1>2, <2>2, <2>3, <2>4, MovedLedgers
<1>8. CASE ConnWindowUpdate(i)
  BY <1>5, <1>6, <1>8 DEF ConnWindowUpdate
<1>9. CASE \E s \in Streams : StreamWindowUpdate(s, i)
  BY <1>5, <1>7, <1>9 DEF StreamWindowUpdate
<1> QED BY <1>8, <1>9

\* The SETTINGS walk: publishing the value puts every live stream one delta
\* behind, and each visit brings one stream up to date.
LEMMA SettingsLedgers ==
  ASSUME LedgerInv, TypeOK', HeldInv',
         \/ \E v \in InitWindows : Settings(v)
         \/ \E s \in Streams : AdjustStream(s)
         \/ SettingsDone
  PROVE  CreditConserved'
<1>1. /\ TypeOK /\ HeldInv /\ ReaderInv /\ WindowInv /\ live \subseteq Streams
      /\ rtodo \subseteq live
  BY LedgerFacts
<1>2. UNCHANGED <<connWin, live, opened, closed, broken, held, histVars>>
  BY DEF Settings, AdjustStream, SettingsDone, winVars, streamVars, connVars, writerVars
<1>3. \A S : HeldOn(S)' = HeldOn(S) /\ HeldOn(S) \in Nat
  BY <1>1, <1>2, LedgerTypes DEF HeldOn
<1>4. ConnLedger'
  BY <1>2, <1>3 DEF ConnLedger, LedgerInv, CreditConserved, histVars
<1>5. ASSUME NEW v \in InitWindows, Settings(v)
      PROVE  StreamLedger'
  <2>1. /\ ~rfail /\ rtodo = {} /\ rtodo' = live /\ sendWindow' = sendWindow
        /\ peerInit' = v /\ rdelta' = v - peerInit
    BY <1>1, <1>5 DEF Settings, ReaderInv
  <2>2. Same(v - (v - peerInit), peerInit)
    BY <1>1, <1>5, WalkTypes
  <2>3. peerInit' - rdelta' = peerInit
    BY <2>1, <2>2 DEF Same
  <2> QED BY <1>2, <1>3, <2>1, <2>3 DEF StreamLedger, LedgerInv, CreditConserved, histVars
<1>6. ASSUME NEW s \in Streams, AdjustStream(s)
      PROVE  StreamLedger'
  <2> SUFFICES ASSUME ~closed, ~broken, ~rfail', NEW r \in live
               PROVE  StreamUsed(r)' = grant[r] +
                        (IF r \in rtodo' THEN peerInit - rdelta ELSE peerInit)
    BY <1>2, <1>6 DEF StreamLedger, StreamUsed, Sum, histVars, AdjustStream
  <2>1. /\ ~rfail /\ s \in rtodo /\ rtodo' = rtodo \ {s}
        /\ ~(sendWindow[s] + rdelta > MaxWindow)
        /\ sendWindow' = [sendWindow EXCEPT ![s] = Int32(@ + rdelta)]
    BY <1>6 DEF AdjustStream
  <2>2. Int32(sendWindow[s] + rdelta) = sendWindow[s] + rdelta
    <3>1. sendWindow[s] >= peerInit - rdelta - MaxWindow
      BY <1>1, <2>1 DEF WindowInv
    <3>2. sendWindow[s] + rdelta \in Int /\ -MaxWindow <= sendWindow[s] + rdelta
      BY <1>1, <3>1, WalkTypes, VisitFits
    <3>3. Same(Int32(sendWindow[s] + rdelta), sendWindow[s] + rdelta)
      BY <2>1, <3>2, Int32Fits
    <3> QED BY <3>3 DEF Same
  <2>3. StreamUsed(r) = grant[r] + (IF r \in rtodo THEN peerInit - rdelta ELSE peerInit)
    BY <2>1 DEF LedgerInv, CreditConserved, StreamLedger, StreamUsed, Sum
  <2>4. StreamUsed(r)' = Sum(sendWindow'[r], HeldOn({r}), sent[r], cut[r])
    BY <1>2, <1>3 DEF StreamUsed, histVars
  <2>5. CASE r = s
    <3>1. /\ sendWindow[r] \in Int /\ sent[r] \in Nat /\ cut[r] \in Nat /\ grant[r] \in Nat
          /\ HeldOn({r}) \in Nat
      BY <1>1, <1>3 DEF TypeOK
    <3>2. rdelta \in Int /\ peerInit \in Int /\ grant[r] \in Int
      BY <1>1, WalkTypes
    <3>3. sendWindow'[r] = sendWindow[r] + rdelta
      BY <1>1, <2>1, <2>2, <2>5 DEF TypeOK
    <3>4. Same(Sum(sendWindow[r] + rdelta, HeldOn({r}), sent[r], cut[r]),
               Sum(sendWindow[r], HeldOn({r}), sent[r], cut[r]) + rdelta)
      BY <3>1, <3>2, SumGranted
    <3>5. Same((grant[r] + (peerInit - rdelta)) + rdelta, grant[r] + peerInit)
      BY <3>2, Differences
    <3>6. StreamUsed(r) = grant[r] + (peerInit - rdelta) /\ r \notin rtodo'
      BY <2>1, <2>3, <2>5
    <3>7. StreamUsed(r)' = StreamUsed(r) + rdelta
      BY <2>4, <3>3, <3>4 DEF StreamUsed, Same
    <3> QED BY <3>5, <3>6, <3>7 DEF Same
  <2>6. CASE r # s
    <3>1. sendWindow'[r] = sendWindow[r]
      BY <1>1, <2>1, <2>6 DEF TypeOK
    <3>2. r \in rtodo' <=> r \in rtodo
      BY <2>1, <2>6
    <3> QED BY <2>3, <2>4, <3>1, <3>2 DEF StreamUsed
  <2> QED BY <2>5, <2>6
<1>7. ASSUME SettingsDone
      PROVE  StreamLedger'
  <2>1. rtodo = {} /\ rtodo' = rtodo /\ UNCHANGED <<sendWindow, peerInit, rfail>>
    BY <1>7 DEF SettingsDone, winVars
  <2>2. ASSUME ~closed, ~broken, ~rfail, NEW s \in live
        PROVE  StreamUsed(s)' = grant[s] + peerInit
    <3>1. StreamUsed(s) = grant[s] + peerInit
      BY <2>1, <2>2 DEF LedgerInv, CreditConserved, StreamLedger, StreamUsed, Sum
    <3> QED BY <1>2, <1>3, <2>1, <3>1 DEF StreamUsed, histVars
  <2> QED BY <1>2, <2>1, <2>2 DEF StreamLedger, StreamUsed, Sum, histVars
<1>8. StreamLedger'
  BY <1>5, <1>6, <1>7
<1> QED BY <1>4, <1>8 DEF CreditConserved

\* A stream is admitted between two walks, with the published window, no history
\* and no writer.
LEMMA AdmitLedgers ==
  ASSUME LedgerInv, NEW s \in Streams, AdmitStream(s)
  PROVE  CreditConserved'
<1>1. /\ TypeOK /\ HeldInv /\ WriterInv /\ ReaderInv /\ s \notin opened
      /\ sent[s] = 0 /\ grant[s] = 0 /\ cut[s] = 0
  BY DEF LedgerInv, CreditInv, HistoryFresh, AdmitStream
<1>2. /\ UNCHANGED <<connWin, peerInit, closed, broken, rtodo, rdelta, rfail, held, histVars>>
      /\ rtodo = {} /\ live' = live \cup {s}
      /\ sendWindow' = [sendWindow EXCEPT ![s] = peerInit]
  BY <1>1 DEF AdmitStream, tblMuFree, ReaderInv, connVars, readerVars, writerVars
<1>3. HeldOn({s}) = 0 /\ \A S : HeldOn(S)' = HeldOn(S)
  BY <1>1, <1>2, HeldNone DEF HeldOn
<1>4. ConnLedger'
  BY <1>2, <1>3 DEF ConnLedger, LedgerInv, CreditConserved, histVars
<1>5. StreamLedger'
  <2> SUFFICES ASSUME ~closed, ~broken, ~rfail, NEW r \in live'
               PROVE  StreamUsed(r)' = grant[r] + peerInit
    BY <1>2 DEF StreamLedger, StreamUsed, Sum, histVars
  <2>1. CASE r = s
    <3>1. sendWindow'[s] = peerInit
      BY <1>1, <1>2 DEF TypeOK
    <3>2. StreamUsed(r)' = peerInit + 0 + 0 + 0 /\ grant[r] = 0
      BY <1>1, <1>2, <1>3, <2>1, <3>1 DEF StreamUsed, Sum, histVars
    <3>3. peerInit + 0 + 0 + 0 = 0 + peerInit
      BY <1>1, SMTT(30) DEF TypeOK
    <3> QED BY <3>2, <3>3
  <2>2. CASE r # s
    <3>1. StreamUsed(r) = grant[r] + peerInit
      BY <1>2, <2>2 DEF LedgerInv, CreditConserved, StreamLedger, StreamUsed, Sum
    <3>2. sendWindow'[r] = sendWindow[r]
      BY <1>1, <1>2, <2>2 DEF TypeOK
    <3> QED BY <1>2, <1>3, <3>1, <3>2 DEF StreamUsed, histVars
  <2> QED BY <2>1, <2>2
<1> QED BY <1>4, <1>5 DEF CreditConserved

\* Only open streams are written to, granted to or refunded.
LEMMA NextFresh == TypeOK /\ WriterInv /\ HistoryFresh /\ [Next]_vars => HistoryFresh'
<1> SUFFICES ASSUME TypeOK, WriterInv, HistoryFresh, [Next]_vars PROVE HistoryFresh'
  OBVIOUS
<1>1. CASE UNCHANGED <<opened, sent, grant, cut>>
  BY <1>1 DEF HistoryFresh
<1>2. ASSUME NEW w \in Writers, WriteChunk(w) \/ releaseSendCredits(w)
      PROVE  HistoryFresh'
  <2>1. pc[w] # "idle" /\ opened' = opened /\ grant' = grant
    BY <1>2 DEF WriteChunk, releaseSendCredits, streamVars
  <2>2. \A s \in Streams : s # StreamOf[w] => sent'[s] = sent[s] /\ cut'[s] = cut[s]
    BY <1>2 DEF WriteChunk, releaseSendCredits, TypeOK
  <2> QED BY <2>1, <2>2 DEF HistoryFresh, WriterInv
<1>3. ASSUME NEW s \in Streams, NEW i \in Increments, StreamWindowUpdate(s, i)
      PROVE  HistoryFresh'
  <2>1. s \in opened /\ UNCHANGED <<opened, sent, cut>>
    BY <1>3 DEF StreamWindowUpdate, TypeOK
  <2>2. \A r \in Streams : r # s => grant'[r] = grant[r]
    BY <1>3 DEF StreamWindowUpdate, TypeOK
  <2> QED BY <2>1, <2>2 DEF HistoryFresh
<1>4. ASSUME NEW s \in Streams, AdmitStream(s)
      PROVE  HistoryFresh'
  BY <1>4 DEF AdmitStream, HistoryFresh, histVars
<1> QED
  BY ZenonT(60), <1>1, <1>2, <1>3, <1>4
     DEF Next, WriterStep, ReaderStep, CloserStep, SendData, acquireSendCredits,
         parkForSendCredits, fcPark, ReaderWakeStream, ReaderReset, AdjustStream,
         SettingsDone, ReaderWakeAll, SettingsAck, shutdownStreams, ConnWindowUpdate,
         Settings, ReadError, EndStream, markStreamDone, CloseBegin, CloseCancel,
         CloseWake, vars, streamVars, histVars

\* No step of any goroutine of the connection loses credit, refunds it twice or
\* invents it.
LEMMA NextConserved ==
  ASSUME LedgerInv, TypeOK', HeldInv', [Next]_vars
  PROVE  CreditConserved'
<1>1. TypeOK /\ HeldInv
  BY LedgerFacts
<1>2. CASE /\ UNCHANGED <<connWin, sendWindow, held, histVars, peerInit, rtodo, rdelta>>
           /\ live' \subseteq live /\ opened' = opened
           /\ (closed => closed') /\ (broken => broken') /\ (rfail => rfail')
  BY <1>2, CalmLedgers
<1>3. ASSUME NEW w \in Writers, WriterStep(w)
      PROVE  CreditConserved'
  <2>1. CASE acquireSendCredits(w) \/ parkForSendCredits(w)
    <3>1. /\ pc[w] \notin {"have", "refund"}
          /\ UNCHANGED <<streamVars, connVars, readerVars, histVars>>
          /\ GiveUp(w) \/ takeSendCredits(w) \/ NoCredit(w, "slow") \/ NoCredit(w, "park")
      BY <2>1 DEF acquireSendCredits, parkForSendCredits
    <3>2. CASE takeSendCredits(w)
      BY <3>1, <3>2, TakeLedgers
    <3>3. CASE ~takeSendCredits(w)
      <4>1. held[w] = 0
        BY <1>1, <3>1 DEF HeldInv
      <4>2. UNCHANGED winVars /\ (held' = held \/ held' = [held EXCEPT ![w] = 0])
        BY <3>1, <3>3 DEF GiveUp, NoCredit, Return
      <4>3. held' = held
        BY <1>1, <4>1, <4>2 DEF TypeOK
      <4> QED BY <1>2, <3>1, <4>2, <4>3 DEF winVars, streamVars, connVars, readerVars
    <3> QED BY <3>2, <3>3
  <2>2. CASE fcPark(w)
    BY <1>2, <2>2 DEF fcPark, winVars, streamVars, connVars, readerVars
  <2> QED BY <1>3, <2>1, <2>2, WriteLedgers, RefundLedgers DEF WriterStep
<1>4. CASE \E i \in Increments : \/ ConnWindowUpdate(i)
                                 \/ \E s \in Streams : StreamWindowUpdate(s, i)
  BY <1>4, GrantLedgers
<1>5. CASE \/ \E v \in InitWindows : Settings(v)
           \/ \E s \in Streams : AdjustStream(s)
           \/ SettingsDone
  BY <1>5, SettingsLedgers
<1>6. CASE \E s \in Streams : AdmitStream(s)
  BY <1>6, AdmitLedgers
<1>7. CASE \/ ReaderWakeStream \/ ReaderReset \/ ReaderWakeAll \/ SettingsAck
           \/ shutdownStreams \/ ReadError \/ CloseBegin \/ CloserStep
           \/ \E w \in Writers, n \in Bodies : SendData(w, n)
           \/ \E s \in Streams : EndStream(s) \/ markStreamDone(s)
           \/ UNCHANGED vars
  <2>1. UNCHANGED <<connWin, sendWindow, held, histVars, peerInit, rtodo, rdelta>>
    BY <1>7 DEF ReaderWakeStream, ReaderReset, ReaderWakeAll, SettingsAck, shutdownStreams,
                ReadError, CloseBegin, CloserStep, CloseCancel, CloseWake, SendData,
                EndStream, markStreamDone, vars, winVars, readerVars, writerVars
  <2>2. live' \subseteq live /\ opened' = opened /\ rfail' = rfail
    BY <1>7 DEF ReaderWakeStream, ReaderReset, ReaderWakeAll, SettingsAck, shutdownStreams,
                ReadError, CloseBegin, CloserStep, CloseCancel, CloseWake, SendData,
                EndStream, markStreamDone, vars, streamVars, readerVars
  <2>3. (closed => closed') /\ (broken => broken')
    BY <1>7, SMTT(30) DEF ReaderWakeStream, ReaderReset, ReaderWakeAll, SettingsAck, shutdownStreams,
                ReadError, CloseBegin, CloserStep, CloseCancel, CloseWake, SendData,
                EndStream, markStreamDone, vars, connVars
  <2> QED BY <1>2, <2>1, <2>2, <2>3
<1> QED BY <1>3, <1>4, <1>5, <1>6, <1>7 DEF Next, ReaderStep

-----------------------------------------------------------------------------
(* Theorems *)

\* A new connection satisfies the inductive invariant.
LEMMA InitCreditInv == Init => CreditInv
<1> SUFFICES ASSUME Init PROVE CreditInv
  OBVIOUS
<1>1. FcConnBlockedExact
  BY FS_EmptySet DEF Init, FcConnBlockedExact
<1>2. WakeInv
  BY DEF Init, WakeInv
<1>3. WindowInv
  BY SMTT(30) DEF Init, WindowInv, WindowsFit
<1> QED
  BY <1>1, <1>2, <1>3, InitInv DEF CreditInv

\* One step of any goroutine of the connection keeps the inductive invariant.
LEMMA NextCreditInv == CreditInv /\ [Next]_vars => CreditInv'
BY NextTypeOK, NextReaderInv, NextWriterInv, NextWaitersLinked, NextHeldInv,
   NextExact, NextWakeInv, NextWindowInv DEF CreditInv

\* The inductive invariant of outbound flow control holds in every reachable
\* state of acquireSendCredits, the grants and Close.
THEOREM CreditInvariant == Spec => []CreditInv
BY InitCreditInv, NextCreditInv, PTL DEF Spec

\* Every variable stays in its type: in particular no writer sends more octets
\* than it was given (left never goes negative) and saturation never adds credit.
THEOREM TypeCorrect == Spec => []TypeOK
<1>1. CreditInv => TypeOK
  BY DEF CreditInv
<1> QED
  BY <1>1, CreditInvariant, PTL

\* No phantom waiter: the lists and the tokens are exactly the writers that
\* parkForSendCredits has in its select.
THEOREM NoPhantomWaiter == Spec => []WaitersLinked
<1>1. CreditInv => WaitersLinked
  BY DEF CreditInv
<1> QED
  BY <1>1, CreditInvariant, PTL

\* fcConnBlocked is exact, so the early return of fcWakeConn is sound.
THEOREM CounterExact == Spec => []FcConnBlockedExact
<1>1. CreditInv => FcConnBlockedExact
  BY DEF CreditInv
<1> QED
  BY <1>1, CreditInvariant, PTL

\* No lost wakeup, for any number of writers and streams and any grants: the
\* argument fc_waiters.go makes for needConn, without its premise that a stream
\* window only grows under fcOutMu, which onWindowUpdate does not keep.
THEOREM NoWakeupIsLost == Spec => []NoLostWakeup
<1>1. CreditInv => NoLostWakeup
  BY DEF CreditInv, WakeInv, WaitersLinked, NoLostWakeup
<1> QED
  BY <1>1, CreditInvariant, PTL

\* Windows stay within int32 for any sequence of SETTINGS and WINDOW_UPDATE,
\* although applyPeerSettings checks the upper end only.
THEOREM WindowsStayInRange == Spec => []WindowsFit
<1>1. CreditInv => WindowsFit
  BY DEF CreditInv, WindowInv
<1> QED
  BY <1>1, CreditInvariant, PTL

\* Credit is conserved for any number of writers and streams, whatever grants,
\* SETTINGS, resets and refunds interleave: the server never has more DATA on the
\* wire than the peer authorised on the connection, and while the connection is
\* healthy every octet of both windows is accounted for (takeSendCredits,
\* writeServerDataChunks, releaseSendCredits, onWindowUpdate, applyInitialWindow).
THEOREM LedgersBalance == Spec => []CreditConserved
<1>1. Init => LedgerInv
  <2> SUFFICES ASSUME Init PROVE LedgerInv
    OBVIOUS
  <2>1. CreditInv
    BY InitCreditInv
  <2>2. \A S : HeldOn(S) = 0
    <3> SUFFICES ASSUME NEW S PROVE HeldOn(S) = 0
      OBVIOUS
    <3> DEFINE W == {w \in Writers : StreamOf[w] \in S}
    <3>1. W \in SUBSET Writers /\ held \in [Writers -> 0..MaxFrame] /\ \A w \in W : held[w] = 0
      BY SMTT(30) DEF Init
    <3> HIDE DEF W
    <3>2. Total(held, W) = 0
      BY <3>1, TotalZero
    <3> QED BY <3>2 DEF HeldOn, W
  <2>3. CreditConserved
    BY <2>2, SMTT(30) DEF Init, CreditConserved, ConnLedger, StreamLedger
  <2>4. HistoryFresh
    BY DEF Init, HistoryFresh
  <2> QED BY <2>1, <2>3, <2>4 DEF LedgerInv
<1>2. LedgerInv /\ [Next]_vars => LedgerInv'
  <2> SUFFICES ASSUME LedgerInv, [Next]_vars PROVE LedgerInv'
    OBVIOUS
  <2>1. CreditInv'
    BY NextCreditInv DEF LedgerInv
  <2>2. HistoryFresh'
    BY NextFresh DEF LedgerInv, CreditInv
  <2>3. CreditConserved'
    BY <2>1, NextConserved DEF CreditInv
  <2> QED BY <2>1, <2>2, <2>3 DEF LedgerInv
<1>3. LedgerInv => CreditConserved
  BY DEF LedgerInv
<1> QED BY <1>1, <1>2, <1>3, PTL DEF Spec

=============================================================================
