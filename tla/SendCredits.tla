---------------------------- MODULE SendCredits ----------------------------
(***************************************************************************)
(* Outbound flow control of one HTTP/2 connection: conn/fc_waiters.go, the *)
(* credit half of conn/server_ops.go (acquireSendCredits and everything it *)
(* calls, the WINDOW_UPDATE and SETTINGS handlers that refill a window) and *)
(* the part of ServerConn.Close that releases parked writers.              *)
(*                                                                         *)
(* Handler goroutines ("writers") call SendData; the connection's single   *)
(* reader goroutine applies the peer's grants.  Three locks matter.        *)
(*   - fcOutMu guards connWin, the waiter lists and fcConnBlocked.  Only   *)
(*     parkForSendCredits holds it across two of the steps below: from the *)
(*     failed take to the park (pc = "park").                              *)
(*   - ss.mu guards one sendWindow.  The reader grows a stream window      *)
(*     under ss.mu ALONE and takes fcOutMu for the wake afterwards.        *)
(*   - tbl.mu is held across the whole SETTINGS walk (rpc = "adjust").     *)
(* Every step is one critical section of the code.                         *)
(***************************************************************************)
EXTENDS Integers, FiniteSets, Totals

CONSTANTS
  Writers,     \* goroutines that call SendData
  Streams,     \* streams of the connection
  StreamOf,    \* [Writers -> Streams]: the stream a writer sends on
  Cancellable, \* writers that pass the stream's own context; the others pass
               \* a background context, whose Done channel never fires
  MaxWindow,   \* 2^31-1 in the code
  MaxFrame,    \* the largest DATA payload: min(peer's limit, our limit)
  InitConn,    \* connection window at the start (65535 in the code)
  InitWindows, \* values SETTINGS_INITIAL_WINDOW_SIZE takes
  Increments,  \* increments of WINDOW_UPDATE
  Bodies,      \* lengths SendData is called with
  MaxGrant     \* bound: credit the peer hands out by WINDOW_UPDATE, per window

ASSUME ConstantsAssumption ==
  /\ IsFiniteSet(Writers)
  /\ StreamOf \in [Writers -> Streams]
  /\ Cancellable \subseteq Writers
  /\ MaxWindow \in Nat \ {0}
  /\ MaxFrame \in Nat \ {0}
  /\ InitConn \in 0..MaxWindow
  /\ InitWindows \subseteq 0..MaxWindow /\ InitWindows # {}
  /\ Increments \subseteq 1..MaxWindow
  /\ Bodies \subseteq Nat \ {0}
  /\ MaxGrant \in Nat

VARIABLES
  connWin,     \* ServerConn.peerConnSendWindow
  sendWindow,  \* ServerStream.sendWindow
  peerInit,    \* the peer's published SETTINGS_INITIAL_WINDOW_SIZE
  opened,      \* streams admitted so far
  live,        \* streams in the table
  unwritable,  \* streams whose state is no longer Writable
  cancelled,   \* streams whose context is done
  closed,      \* ServerConn.closed
  broken,      \* a write has failed: so does every later one
  cpc,         \* Close: "none", "cancel", "wake", "done"
  rpc,         \* reader: "read", "wakeStream", "rst", "adjust", "wakeAll",
               \* "ack", "dead", "gone"
  rstream,     \* reader: the stream it is about to wake or to release
  rtodo,       \* reader: live streams the SETTINGS delta has yet to reach
  rdelta,      \* reader: the delta
  rfail,       \* reader: some stream window overflowed
  pc,          \* writer: "idle", "acquire", "slow", "park", "wait", "have",
               \* "refund"
  left,        \* writer: octets of p not yet sent
  held,        \* writer: octets debited and not yet written
  queued,      \* fcWaiter.queued
  needConn,    \* fcWaiter.needConn
  ready,       \* fcWaiter.ready holds a token
  fcConnBlocked,
  sent,        \* history: DATA octets written, per stream
  grant,       \* history: WINDOW_UPDATE credit accepted, per stream
  connSent,    \* history: DATA octets written, all streams
  connGrant,   \* history: WINDOW_UPDATE credit accepted on stream 0
  cut,         \* history: stream credit addWindowSaturating threw away
  connCut      \* history: connection credit it threw away

winVars    == <<connWin, sendWindow, peerInit>>
streamVars == <<opened, live, unwritable, cancelled>>
connVars   == <<closed, broken, cpc>>
readerVars == <<rpc, rstream, rtodo, rdelta, rfail>>
writerVars == <<pc, left, held>>
waitVars   == <<queued, needConn, ready, fcConnBlocked>>
histVars   == <<sent, grant, connSent, connGrant, cut, connCut>>
vars == <<winVars, streamVars, connVars, readerVars, writerVars, waitVars,
          histVars>>

RPC == {"read", "wakeStream", "rst", "adjust", "wakeAll", "ack", "dead",
        "gone"}
PC  == {"idle", "acquire", "slow", "park", "wait", "have", "refund"}

TypeOK ==
  /\ connWin \in Int
  /\ sendWindow \in [Streams -> Int]
  /\ peerInit \in 0..MaxWindow
  /\ opened \subseteq Streams /\ live \subseteq opened
  /\ unwritable \subseteq Streams /\ cancelled \subseteq Streams
  /\ closed \in BOOLEAN /\ broken \in BOOLEAN
  /\ cpc \in {"none", "cancel", "wake", "done"}
  /\ rpc \in RPC /\ rstream \subseteq Streams
  /\ rtodo \subseteq live /\ rdelta \in Int /\ rfail \in BOOLEAN
  /\ pc \in [Writers -> PC]
  /\ left \in [Writers -> Nat] /\ held \in [Writers -> Nat]
  /\ queued \subseteq Writers /\ needConn \subseteq Writers
  /\ ready \subseteq Writers
  /\ fcConnBlocked \in Int
  /\ sent \in [Streams -> Nat] /\ grant \in [Streams -> Nat]
  /\ connSent \in Nat /\ connGrant \in Nat
  /\ cut \in [Streams -> Nat] /\ connCut \in Nat

Init ==
  /\ connWin = InitConn
  /\ sendWindow = [s \in Streams |-> 0]
  /\ peerInit \in InitWindows
  /\ opened = {} /\ live = {} /\ unwritable = {} /\ cancelled = {}
  /\ closed = FALSE /\ broken = FALSE /\ cpc = "none"
  /\ rpc = "read" /\ rstream = {} /\ rtodo = {} /\ rdelta = 0 /\ rfail = FALSE
  /\ pc = [w \in Writers |-> "idle"]
  /\ left = [w \in Writers |-> 0] /\ held = [w \in Writers |-> 0]
  /\ queued = {} /\ needConn = {} /\ ready = {} /\ fcConnBlocked = 0
  /\ sent = [s \in Streams |-> 0] /\ grant = [s \in Streams |-> 0]
  /\ connSent = 0 /\ connGrant = 0
  /\ cut = [s \in Streams |-> 0] /\ connCut = 0

-----------------------------------------------------------------------------
(* Helpers *)

MinOf(a, b) == IF a < b THEN a ELSE b

\* int32(v) for a v at most one wrap away from the type's range.
Int32(v) ==
  CASE v > MaxWindow      -> v - 2 * (MaxWindow + 1)
    [] v < -MaxWindow - 1 -> v + 2 * (MaxWindow + 1)
    [] OTHER              -> v

addWindowSaturating(win, n) == MinOf(win + n, MaxWindow)

fcOutMuFree == \A w \in Writers : pc[w] # "park"
tblMuFree   == rpc # "adjust"

CtxDone(w) == w \in Cancellable /\ StreamOf[w] \in cancelled

\* What takeSendCredits may debit: the smaller of the two windows.
Avail(w) == MinOf(sendWindow[StreamOf[w]], connWin)

-----------------------------------------------------------------------------
(* fc_waiters.go.  The two intrusive lists are one set, queued: the stream   *)
(* list is its restriction to a stream.                                      *)

\* fcWake on every waiter of W: unlink it and leave one token.  needConn is dead
\* once the waiter is unlinked (the next park samples it afresh).
fcWake(W) ==
  /\ queued' = queued \ W
  /\ ready' = ready \cup W
  /\ fcConnBlocked' = fcConnBlocked - Cardinality(W \cap needConn)
  /\ needConn' = needConn \ W

fcWakeAll == fcWake(queued)

OnStream(s) == {w \in queued : StreamOf[w] = s}

fcWakeStream(s) == fcWake(OnStream(s))

\* Mutant: the early return is off by one.
ConnBlockedOffByOne == IF fcConnBlocked <= 1 THEN {} ELSE queued \cap needConn

ConnBlocked == IF fcConnBlocked = 0 THEN {} ELSE queued \cap needConn

fcWakeConn == fcWake(ConnBlocked)

\* fcWakeStream(s) followed by fcWakeConn in one critical section.
fcWakeStreamThenConn(s) ==
  LET first   == OnStream(s)
      blocked == fcConnBlocked - Cardinality(first \cap needConn)
      second  == IF blocked = 0 THEN {} ELSE (queued \ first) \cap needConn
  IN  fcWake(first \cup second)

\* fcUnpark, and the drain of ready that follows it.
fcUnpark(w) ==
  /\ queued' = queued \ {w}
  /\ ready' = ready \ {w}
  /\ fcConnBlocked' = IF w \in queued \cap needConn
                        THEN fcConnBlocked - 1 ELSE fcConnBlocked
  /\ needConn' = needConn \ {w}

\* Sample which window binds, link the waiter, unlock, wait.
fcPark(w) ==
  /\ pc[w] = "park"
  /\ IF sendWindow[StreamOf[w]] > 0
       THEN /\ needConn' = needConn \cup {w}
            /\ fcConnBlocked' = fcConnBlocked + 1
       ELSE UNCHANGED <<needConn, fcConnBlocked>>
  /\ queued' = queued \cup {w}
  /\ pc' = [pc EXCEPT ![w] = "wait"]
  /\ UNCHANGED <<winVars, streamVars, connVars, readerVars, left, held, ready,
                 histVars>>

-----------------------------------------------------------------------------
(* Writers *)

\* A SendData call that passes its early exits.
SendData(w, n) ==
  /\ pc[w] = "idle"
  /\ StreamOf[w] \in opened \ unwritable
  /\ ~closed
  /\ pc' = [pc EXCEPT ![w] = "acquire"]
  /\ left' = [left EXCEPT ![w] = n]
  /\ UNCHANGED <<winVars, streamVars, connVars, readerVars, held, waitVars,
                 histVars>>

\* SendData returns; what it still held is dropped.
Return(w) ==
  /\ pc' = [pc EXCEPT ![w] = "idle"]
  /\ left' = [left EXCEPT ![w] = 0]
  /\ held' = [held EXCEPT ![w] = 0]

\* closed or ctx.Err(): both are looked at before the windows.
GiveUp(w) ==
  /\ closed \/ CtxDone(w)
  /\ Return(w)
  /\ UNCHANGED winVars

takeSendCredits(w) ==
  /\ ~closed /\ ~CtxDone(w)
  /\ Avail(w) > 0
  /\ LET n == MinOf(MinOf(left[w], MaxFrame), Avail(w))
     IN  /\ sendWindow' = [sendWindow EXCEPT ![StreamOf[w]] = @ - n]
         /\ connWin' = connWin - n
         /\ held' = [held EXCEPT ![w] = n]
  /\ pc' = [pc EXCEPT ![w] = "have"]
  /\ UNCHANGED <<peerInit, left>>

NoCredit(w, next) ==
  /\ ~closed /\ ~CtxDone(w)
  /\ Avail(w) <= 0
  /\ pc' = [pc EXCEPT ![w] = next]
  /\ UNCHANGED <<winVars, left, held>>

\* The uncontended half: one look at the windows under fcOutMu.
acquireSendCredits(w) ==
  /\ pc[w] = "acquire"
  /\ fcOutMuFree
  /\ GiveUp(w) \/ takeSendCredits(w) \/ NoCredit(w, "slow")
  /\ UNCHANGED <<streamVars, connVars, readerVars, waitVars, histVars>>

\* The blocking half: entered from the fast path, or resumed by a token or by
\* the context; then fcOutMu, fcUnpark and one round of the loop.
parkForSendCredits(w) ==
  /\ \/ pc[w] = "slow"
     \/ pc[w] = "wait" /\ (w \in ready \/ CtxDone(w))
  /\ fcOutMuFree
  /\ fcUnpark(w)
  /\ GiveUp(w) \/ takeSendCredits(w) \/ NoCredit(w, "park")
  /\ UNCHANGED <<streamVars, connVars, readerVars, histVars>>

\* Mutant: a refused chunk keeps its credit.
WriteChunkNoRefund(w) ==
  /\ pc[w] = "have"
  /\ IF closed \/ broken \/ StreamOf[w] \in unwritable
       THEN Return(w) /\ UNCHANGED <<sent, connSent>>
       ELSE /\ sent' = [sent EXCEPT ![StreamOf[w]] = @ + held[w]]
            /\ connSent' = connSent + held[w]
            /\ left' = [left EXCEPT ![w] = @ - held[w]]
            /\ held' = [held EXCEPT ![w] = 0]
            /\ pc' = [pc EXCEPT ![w] = "acquire"]
  /\ UNCHANGED <<winVars, streamVars, connVars, readerVars, waitVars, grant,
                 connGrant, cut, connCut>>

\* The wmu section of writeServerDataChunks.  The credit goes with the frame,
\* is handed to releaseSendCredits, or is dropped with the connection.
WriteChunk(w) ==
  /\ pc[w] = "have"
  /\ \/ /\ closed
        /\ Return(w)
        /\ UNCHANGED <<broken, sent, connSent>>
     \/ /\ ~closed /\ StreamOf[w] \in unwritable
        /\ pc' = [pc EXCEPT ![w] = "refund"]
        /\ UNCHANGED <<left, held, broken, sent, connSent>>
     \/ /\ ~closed /\ StreamOf[w] \notin unwritable
        /\ broken' = TRUE
        /\ Return(w)
        /\ UNCHANGED <<sent, connSent>>
     \/ /\ ~closed /\ StreamOf[w] \notin unwritable /\ ~broken
        /\ sent' = [sent EXCEPT ![StreamOf[w]] = @ + held[w]]
        /\ connSent' = connSent + held[w]
        /\ left' = [left EXCEPT ![w] = @ - held[w]]
        /\ held' = [held EXCEPT ![w] = 0]
        /\ pc' = [pc EXCEPT ![w] = IF left[w] = held[w] THEN "idle"
                                   ELSE "acquire"]
        /\ UNCHANGED broken
  /\ UNCHANGED <<winVars, streamVars, closed, cpc, readerVars, waitVars, grant,
                 connGrant, cut, connCut>>

releaseSendCredits(w) ==
  /\ pc[w] = "refund"
  /\ fcOutMuFree
  /\ LET s == StreamOf[w]
         n == held[w]
     IN  /\ connWin' = addWindowSaturating(connWin, n)
         /\ sendWindow' = [sendWindow EXCEPT ![s] = addWindowSaturating(@, n)]
         /\ connCut' = connCut + (connWin + n - connWin')
         /\ cut' = [cut EXCEPT ![s] = @ + (sendWindow[s] + n - sendWindow'[s])]
         /\ fcWakeStreamThenConn(s)
  /\ Return(w)
  /\ UNCHANGED <<peerInit, streamVars, connVars, readerVars, sent, grant,
                 connSent, connGrant>>

-----------------------------------------------------------------------------
(* The reader goroutine *)

\* onWindowUpdate on stream 0: grow and wake in one fcOutMu section.
ConnWindowUpdate(i) ==
  /\ rpc = "read"
  /\ fcOutMuFree
  /\ connGrant + i <= MaxGrant
  /\ IF connWin + i > MaxWindow
       THEN /\ rpc' = "dead"
            /\ UNCHANGED <<connWin, connGrant, waitVars>>
       ELSE /\ connWin' = connWin + i
            /\ connGrant' = connGrant + i
            /\ fcWakeConn
            /\ UNCHANGED rpc
  /\ UNCHANGED <<sendWindow, peerInit, streamVars, connVars, rstream, rtodo,
                 rdelta, rfail, writerVars, sent, grant, connSent, cut,
                 connCut>>

\* Mutant: the stream's waiters are not woken.
StreamWindowUpdateNoWake(s, i) ==
  /\ rpc = "read"
  /\ s \in live
  /\ grant[s] + i <= MaxGrant /\ sendWindow[s] + i <= MaxWindow
  /\ sendWindow' = [sendWindow EXCEPT ![s] = @ + i]
  /\ grant' = [grant EXCEPT ![s] = @ + i]
  /\ UNCHANGED <<connWin, peerInit, streamVars, connVars, readerVars,
                 writerVars, waitVars, sent, connSent, connGrant, cut,
                 connCut>>

\* onWindowUpdate on a live stream: grow under ss.mu, wake in a later section.
\* An overflow resets the stream instead.
StreamWindowUpdate(s, i) ==
  /\ rpc = "read"
  /\ s \in live
  /\ grant[s] + i <= MaxGrant
  /\ rstream' = {s}
  /\ IF sendWindow[s] + i > MaxWindow
       THEN /\ unwritable' = unwritable \cup {s}
            /\ rpc' = "rst"
            /\ UNCHANGED <<sendWindow, grant>>
       ELSE /\ sendWindow' = [sendWindow EXCEPT ![s] = @ + i]
            /\ grant' = [grant EXCEPT ![s] = @ + i]
            /\ rpc' = "wakeStream"
            /\ UNCHANGED unwritable
  /\ UNCHANGED <<connWin, peerInit, opened, live, cancelled, connVars, rtodo,
                 rdelta, rfail, writerVars, waitVars, sent, connSent,
                 connGrant, cut, connCut>>

ReaderWakeStream ==
  /\ rpc = "wakeStream"
  /\ fcOutMuFree
  /\ \E s \in rstream : fcWakeStream(s)
  /\ rpc' = "read" /\ rstream' = {}
  /\ UNCHANGED <<winVars, streamVars, connVars, rtodo, rdelta, rfail,
                 writerVars, histVars>>

\* The tail of writeServerRSTStream: the stream leaves the table.
ReaderReset ==
  /\ rpc = "rst"
  /\ live' = live \ rstream
  /\ cancelled' = cancelled \cup rstream
  /\ rpc' = "read" /\ rstream' = {}
  /\ UNCHANGED <<winVars, opened, unwritable, connVars, rtodo, rdelta, rfail,
                 writerVars, waitVars, histVars>>

\* applyInitialWindow takes tbl.mu and publishes the new value ...
Settings(v) ==
  /\ rpc = "read"
  /\ v # peerInit
  /\ peerInit' = v
  /\ rpc' = "adjust" /\ rtodo' = live /\ rdelta' = v - peerInit
  /\ rfail' = FALSE
  /\ UNCHANGED <<connWin, sendWindow, streamVars, connVars, rstream,
                 writerVars, waitVars, histVars>>

\* ... carries the delta to each live stream under that stream's ss.mu ...
AdjustStream(s) ==
  /\ rpc = "adjust"
  /\ s \in rtodo
  /\ rtodo' = rtodo \ {s}
  /\ IF sendWindow[s] + rdelta > MaxWindow
       THEN rfail' = TRUE /\ UNCHANGED sendWindow
       ELSE /\ sendWindow' = [sendWindow EXCEPT ![s] = Int32(@ + rdelta)]
            /\ UNCHANGED rfail
  /\ UNCHANGED <<connWin, peerInit, streamVars, connVars, rpc, rstream, rdelta,
                 writerVars, waitVars, histVars>>

\* ... and unlocks.  An overflow ends the connection and wakes nobody.
SettingsDone ==
  /\ rpc = "adjust"
  /\ rtodo = {}
  /\ rpc' = IF rfail THEN "dead" ELSE "wakeAll"
  /\ rdelta' = 0
  /\ UNCHANGED <<winVars, streamVars, connVars, rstream, rtodo, rfail,
                 writerVars, waitVars, histVars>>

ReaderWakeAll ==
  /\ rpc = "wakeAll"
  /\ fcOutMuFree
  /\ fcWakeAll
  /\ rpc' = "ack"
  /\ UNCHANGED <<winVars, streamVars, connVars, rstream, rtodo, rdelta, rfail,
                 writerVars, histVars>>

\* writeSettingsAck; a write that fails ends the reader.
SettingsAck ==
  /\ rpc = "ack"
  /\ rpc' = IF closed \/ broken THEN "dead" ELSE "read"
  /\ UNCHANGED <<winVars, streamVars, connVars, rstream, rtodo, rdelta, rfail,
                 writerVars, waitVars, histVars>>

\* A read error, or a connection error some other frame raises.
ReadError ==
  /\ rpc = "read"
  /\ rpc' = "dead"
  /\ UNCHANGED <<winVars, streamVars, connVars, rstream, rtodo, rdelta, rfail,
                 writerVars, waitVars, histVars>>

\* The reader's last act.  It neither sets closed nor wakes a parked writer.
shutdownStreams ==
  /\ rpc = "dead"
  /\ rpc' = "gone"
  /\ live' = {}
  /\ cancelled' = cancelled \cup live
  /\ UNCHANGED <<winVars, opened, unwritable, connVars, rstream, rtodo, rdelta,
                 rfail, writerVars, waitVars, histVars>>

-----------------------------------------------------------------------------
(* Streams come and go; the connection closes *)

\* admitClient or reservePush: the send window is seeded under tbl.mu.
AdmitStream(s) ==
  /\ tblMuFree
  /\ s \notin opened
  /\ opened' = opened \cup {s} /\ live' = live \cup {s}
  /\ sendWindow' = [sendWindow EXCEPT ![s] = peerInit]
  /\ UNCHANGED <<connWin, peerInit, unwritable, cancelled, connVars,
                 readerVars, writerVars, waitVars, histVars>>

\* advance(stReset) or advance(stSentEnded), by whichever goroutine.
EndStream(s) ==
  /\ s \in opened \ unwritable
  /\ unwritable' = unwritable \cup {s}
  /\ UNCHANGED <<winVars, opened, live, cancelled, connVars, readerVars,
                 writerVars, waitVars, histVars>>

\* markStreamDone: out of the table, context cancelled.
markStreamDone(s) ==
  /\ tblMuFree
  /\ s \in live \cap unwritable
  /\ live' = live \ {s}
  /\ cancelled' = cancelled \cup {s}
  /\ UNCHANGED <<winVars, opened, unwritable, connVars, readerVars,
                 writerVars, waitVars, histVars>>

\* Close, by any goroutine: the flag, then connCancel, then fcWakeAll.
CloseBegin ==
  /\ ~closed
  /\ closed' = TRUE /\ cpc' = "cancel"
  /\ UNCHANGED <<winVars, streamVars, broken, readerVars, writerVars, waitVars,
                 histVars>>

CloseCancel ==
  /\ cpc = "cancel"
  /\ cpc' = "wake"
  /\ cancelled' = Streams
  /\ UNCHANGED <<winVars, opened, live, unwritable, closed, broken, readerVars,
                 writerVars, waitVars, histVars>>

\* Mutant: Close does not wake the parked writers.
CloseWakesNobody ==
  /\ cpc = "wake"
  /\ cpc' = "done"
  /\ UNCHANGED <<winVars, streamVars, closed, broken, readerVars, writerVars,
                 waitVars, histVars>>

CloseWake ==
  /\ cpc = "wake"
  /\ fcOutMuFree
  /\ fcWakeAll
  /\ cpc' = "done"
  /\ UNCHANGED <<winVars, streamVars, closed, broken, readerVars, writerVars,
                 histVars>>

-----------------------------------------------------------------------------
WriterStep(w) ==
  \/ acquireSendCredits(w)
  \/ parkForSendCredits(w)
  \/ fcPark(w)
  \/ WriteChunk(w)
  \/ releaseSendCredits(w)

ReaderStep ==
  \/ ReaderWakeStream
  \/ ReaderReset
  \/ \E s \in Streams : AdjustStream(s)
  \/ SettingsDone
  \/ ReaderWakeAll
  \/ SettingsAck
  \/ shutdownStreams

CloserStep == CloseCancel \/ CloseWake

Next ==
  \/ \E w \in Writers : WriterStep(w)
  \/ \E w \in Writers, n \in Bodies : SendData(w, n)
  \/ ReaderStep
  \/ \E i \in Increments : ConnWindowUpdate(i)
  \/ \E s \in Streams, i \in Increments : StreamWindowUpdate(s, i)
  \/ \E v \in InitWindows : Settings(v)
  \/ ReadError
  \/ \E s \in Streams : AdmitStream(s) \/ EndStream(s) \/ markStreamDone(s)
  \/ CloseBegin
  \/ CloserStep

Spec == Init /\ [][Next]_vars

\* A goroutine that can run does, and sync.Mutex is starvation free, so a step
\* that is enabled again and again is taken.  That holds of the steps that need
\* fcOutMu, tbl.mu or ss.mu only: what writes a frame (WriteChunk, the reset and
\* the ACK of the reader, its sendGoAway ahead of shutdownStreams) waits for wmu
\* and for the peer to read, and is not forced, nor are the frames the peer
\* sends, the calls a handler makes or a call of Close.
Fairness ==
  /\ \A w \in Writers : SF_vars(\/ acquireSendCredits(w) \/ parkForSendCredits(w)
                                 \/ fcPark(w) \/ releaseSendCredits(w))
  /\ SF_vars(\/ ReaderWakeStream \/ \E s \in Streams : AdjustStream(s)
             \/ SettingsDone \/ ReaderWakeAll)
  /\ SF_vars(CloserStep)

FairSpec == Spec /\ Fairness

-----------------------------------------------------------------------------
(* Properties *)

\* A writer is in its select exactly while it is on the lists or has a token,
\* and never has both: no waiter stays linked after its frame returned ("a
\* phantom entry that every later grant walks and wakes", server_ops.go:759).
WaitersLinked ==
  \A w \in Writers : /\ pc[w] = "wait" <=> w \in queued \cup ready
                     /\ ~(w \in queued /\ w \in ready)

\* fcConnBlocked counts the listed waiters that block on the connection window,
\* so fcWakeConn's early return skips nobody.
FcConnBlockedExact == fcConnBlocked = Cardinality(queued \cap needConn)

\* A wake that will reach w is already on its way.
WakeOwed(w) ==
  \/ rpc = "wakeStream" /\ StreamOf[w] \in rstream
  \/ rpc \in {"adjust", "wakeAll"}
  \/ rpc \in {"dead", "gone"} /\ rfail
  \/ cpc \in {"cancel", "wake"}

\* No writer sleeps on credit: a parked writer without a token has no credit,
\* or the goroutine that granted the credit has yet to run its wake (or, after
\* a SETTINGS overflow, the connection is being torn down).  The same for a
\* connection that closes.
NoLostWakeup ==
  \A w \in Writers :
    (/\ pc[w] = "wait" /\ w \notin ready
     /\ Avail(w) > 0 \/ closed) => WakeOwed(w)

\* Windows stay in int32 although only the upper end is checked: a connection
\* window never goes below zero, and a stream window goes negative through a
\* shrinking SETTINGS_INITIAL_WINDOW_SIZE only, by at most that value.
WindowsFit ==
  /\ connWin \in 0..MaxWindow
  /\ \A s \in Streams : sendWindow[s] \in -MaxWindow..MaxWindow

HeldOn(S) == Total(held, {w \in Writers : StreamOf[w] \in S})

\* Connection credit is conserved: no debit is refunded twice or goes missing
\* while the connection is healthy, whatever resets happen mid-body; and the
\* server never puts more DATA on the wire than the peer authorised.
ConnLedger ==
  LET used == connWin + HeldOn(Streams) + connSent + connCut
  IN  /\ used <= InitConn + connGrant
      /\ ~closed /\ ~broken => used = InitConn + connGrant

\* Stream credit is conserved, and each SETTINGS_INITIAL_WINDOW_SIZE change
\* reaches each live stream exactly once, by the walk or by the seeding.
StreamLedger ==
  ~closed /\ ~broken /\ ~rfail =>
    \A s \in live :
      sendWindow[s] + HeldOn({s}) + sent[s] + cut[s]
        = grant[s] + (IF s \in rtodo THEN peerInit - rdelta ELSE peerInit)

\* No debit of a window is refunded twice or goes missing: not the connection's, which
\* the writers of all streams share, and not a stream's, which SETTINGS move as well.
CreditConserved == ConnLedger /\ StreamLedger

\* The reason a parked writer waits has gone away.  A SETTINGS overflow ends the
\* reader with streams adjusted and nobody woken: then only Close releases.
Released(w) == (Avail(w) > 0 /\ ~rfail) \/ closed \/ CtxDone(w)

\* No writer is parked for ever although it has credit, its context is done or
\* the connection is closed; and once Close has been called every SendData call
\* returns, with a background context too, unless it is in a write that the
\* transport does not end.  This asks nothing of wmu and of the transport: Close
\* wakes the writers before it waits for wmu.
WritersReleased ==
  \A w \in Writers :
    []<>(~(pc[w] = "wait" /\ Released(w)) /\ (closed => pc[w] \in {"idle", "have"}))

-----------------------------------------------------------------------------
(* Claims of comments and documents that the code does not keep; the README   *)
(* says how each fails                                                        *)

\* "the smaller of the two is what the peer has actually authorised"
\* (server_ops.go:712): a DATA frame written after the server acknowledged the
\* peer's SETTINGS is within the stream window those SETTINGS left.
DataWithinPeerWindow ==
  [][\A s \in Streams : sent'[s] # sent[s] /\ rpc = "read"
                          => sendWindow[s] >= 0]_vars

-----------------------------------------------------------------------------
(* The inductive invariant *)

\* Where the reader is determines what it carries.
ReaderInv ==
  /\ rpc # "adjust" => rtodo = {} /\ rdelta = 0
  /\ rpc \in {"wakeStream", "rst"} => \E s \in Streams : rstream = {s}
  /\ rfail => rpc \in {"adjust", "dead", "gone"}
  /\ peerInit - rdelta \in 0..MaxWindow

\* Writers only run on streams that exist, only listed waiters carry needConn,
\* and closed is set for as long as Close is under way or over.
WriterInv ==
  /\ \A w \in Writers : pc[w] # "idle" => StreamOf[w] \in opened
  /\ needConn \subseteq queued
  /\ closed <=> cpc # "none"

\* NoLostWakeup, extended to the writer that has failed its take and holds
\* fcOutMu until it is parked, and the reason why fcWakeConn may pass over a
\* waiter without needConn: its own stream has no credit.
WakeInv ==
  /\ \A w \in Writers :
       (/\ pc[w] = "park" \/ w \in queued
        /\ Avail(w) > 0 \/ closed) => WakeOwed(w)
  /\ \A w \in queued \ needConn :
       sendWindow[StreamOf[w]] <= 0 \/ WakeOwed(w)

\* A live stream's window is at most MaxWindow below the initial window size
\* it was last adjusted to, so that no later shrink takes it out of int32.
WindowInv ==
  /\ WindowsFit
  /\ \A s \in live : sendWindow[s] >=
       CASE s \in rtodo           -> peerInit - rdelta - MaxWindow
         [] s \notin rtodo /\ ~rfail -> peerInit - MaxWindow
         [] OTHER                 -> -MaxWindow

\* A writer holds credit between its take and its write only, and never more
\* than it still has to send or than a frame carries.
HeldInv ==
  \A w \in Writers : /\ held[w] <= left[w] /\ held[w] <= MaxFrame
                     /\ pc[w] \notin {"have", "refund"} => held[w] = 0

\* The conjunction is inductive.  NoLostWakeup alone is not: it says nothing of
\* a writer between its failed take and its park, nor of why fcWakeConn may
\* pass over a waiter.
CreditInv ==
  /\ TypeOK /\ ReaderInv /\ WriterInv /\ WaitersLinked /\ HeldInv
  /\ FcConnBlockedExact /\ WakeInv /\ WindowInv

\* A stream enters the table with an empty history.
HistoryFresh ==
  \A s \in Streams \ opened : sent[s] = 0 /\ grant[s] = 0 /\ cut[s] = 0

\* The two ledgers, with what makes them inductive.
LedgerInv == CreditInv /\ CreditConserved /\ HistoryFresh

=============================================================================
