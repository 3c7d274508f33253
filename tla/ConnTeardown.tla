---------------------------- MODULE ConnTeardown ----------------------------
(***************************************************************************)
(* How one HTTP/2 connection is wound down: Close, GoAway, GoAwayGraceful, *)
(* Ping, keepaliveLoop, AcceptStream and the exits of readerLoop, in       *)
(* conn/server_conn.go.                                                    *)
(*                                                                         *)
(* The processes are the frame reader, the keepalive goroutine and a few   *)
(* callers, each of which makes one call.  A frame is written in two       *)
(* steps, Lock and a write, with wmu held between them: the write blocks   *)
(* while the peer does not read, unless a write deadline is set.  Client   *)
(* streams are numbered 1, 2, ... in the order they arrive.                *)
(***************************************************************************)
EXTENDS Integers, FiniteSets

CONSTANTS
  Callers,      \* goroutines outside the connection, one call each
  Ops,          \* the calls they make
  Keepalive,    \* KeepaliveInterval > 0
  Accepting,    \* an accept loop runs; a rejected TLS connection has none
  CanStall,     \* the peer may stop reading
  MaxStreams,   \* bound: client streams
  MaxPings,     \* bound: Ping calls
  maxStreamID   \* the identifier of the advance warning, 2^31 - 1

ASSUME ConstantsAssumption ==
  /\ Ops \subseteq {"close", "goaway", "graceful", "ping", "data"}
  /\ {Keepalive, Accepting, CanStall} \subseteq BOOLEAN
  /\ MaxStreams \in Nat /\ MaxPings \in Nat
  /\ maxStreamID \in Nat /\ maxStreamID > MaxStreams
  /\ {"reader", "keepalive", "none"} \cap Callers = {}

Procs  == Callers \cup {"reader", "keepalive"}
GoAways == {"close", "goaway", "graceful", "error"}

VARIABLES
  closed, goAwayRequested, goAwaySentID,
  wmu,        \* the process that holds wmu, or "none"
  deadline,   \* a write deadline is set on the transport
  link,       \* the transport: "up", "stalled", "dead"
  maxClient,  \* streamTable.maxClient
  taken,      \* streams taken off acceptCh; those up to maxClient wait in it
  pingCounter, pingWaiters,
  answered,   \* payloads whose channel deliverPingAck has closed
  unanswered, \* payloads of PING frames the peer has not acknowledged
  op, pc,     \* the call a process makes, and where it is in it
  payload,    \* the payload of its Ping
  acc,        \* the accept loop: "call", "wait", "done"
  late,       \* its AcceptStream began after a GoAway had returned
  delivered,  \* history: streams AcceptStream has returned
  lastSent,   \* history: the last-stream-id of the last GOAWAY on the wire
  sent        \* history: the calls that put a GOAWAY on the wire

connVars   == <<closed, goAwayRequested, goAwaySentID>>
netVars    == <<wmu, deadline, link>>
pingVars   == <<pingCounter, pingWaiters, answered, unanswered>>
procVars   == <<op, pc, payload>>
acceptVars == <<taken, acc, late, delivered>>
histVars   == <<lastSent, sent>>
vars == <<connVars, netVars, maxClient, pingVars, procVars, acceptVars, histVars>>

TypeOK ==
  /\ closed \in BOOLEAN /\ goAwayRequested \in BOOLEAN
  /\ goAwaySentID \in 0..MaxStreams \cup {maxStreamID}
  /\ wmu \in Procs \cup {"none"} /\ deadline \in BOOLEAN
  /\ link \in {"up", "stalled", "dead"}
  /\ maxClient \in 0..MaxStreams /\ taken \in 0..maxClient
  /\ pingCounter \in 0..MaxPings
  /\ pingWaiters \subseteq 1..MaxPings /\ answered \subseteq 1..MaxPings
  /\ unanswered \subseteq 1..MaxPings
  /\ op \in [Procs -> GoAways \cup {"ping", "data", "pingack"}]
  /\ pc \in [Procs -> {"idle", "lock", "write", "hangup", "wait", "join",
                    "failed", "shut", "done"}]
  /\ payload \in [Procs -> 0..MaxPings]
  /\ acc \in {"call", "wait", "done"} /\ late \in BOOLEAN
  /\ delivered \subseteq 1..MaxStreams
  /\ lastSent \in 0..MaxStreams \cup {maxStreamID}
  /\ sent \subseteq Procs

\* The end of NewServerConn: the reader and the keepalive goroutine start.
Init ==
  /\ closed = FALSE /\ goAwayRequested = FALSE /\ goAwaySentID = maxStreamID
  /\ wmu = "none" /\ deadline = FALSE /\ link = "up"
  /\ maxClient = 0 /\ taken = 0
  /\ pingCounter = 0 /\ pingWaiters = {} /\ answered = {} /\ unanswered = {}
  /\ op = [p \in Procs |-> IF p \in Callers THEN "data" ELSE "ping"]
  /\ pc = [p \in Procs |-> IF p = "keepalive" /\ ~Keepalive
                             THEN "done" ELSE "idle"]
  /\ payload = [p \in Procs |-> 0]
  /\ acc = (IF Accepting THEN "call" ELSE "done") /\ late = FALSE /\ delivered = {}
  /\ lastSent = maxStreamID /\ sent = {}

readerDone == pc["reader"] = "done"

\* Where a process goes when a call returns: the reader to its next frame or, on
\* an error, to its exit; the keepalive goroutine to its next tick or to Close.
After(p, ok) ==
  CASE p = "reader"    -> IF ok THEN "idle" ELSE "shut"
    [] p = "keepalive" -> IF ok THEN "idle" ELSE "failed"
    [] OTHER           -> "done"

Go(p, loc) == pc' = [pc EXCEPT ![p] = loc]
Call(p, o) == op' = [op EXCEPT ![p] = o]

-----------------------------------------------------------------------------
(* The calls, up to the first wait for wmu *)

\* Mutant: keepaliveLoop does not watch readerDone.
CloseOnPingOnly(p) ==
  /\ \/ pc[p] = "idle" /\ p \in Callers /\ "close" \in Ops
     \/ pc[p] = "failed"
  /\ closed' = TRUE
  /\ Go(p, IF closed THEN "done" ELSE "lock") /\ Call(p, "close")
  /\ UNCHANGED <<goAwayRequested, goAwaySentID, netVars, maxClient, pingVars,
                 payload, acceptVars, histVars>>

\* The application may call it; keepaliveLoop does, after a failed Ping and when
\* the reader has gone.  Waking parked writers is in SendCredits.
Close(p) ==
  /\ \/ pc[p] = "idle" /\ p \in Callers /\ "close" \in Ops
     \/ pc[p] = "failed"
     \/ pc[p] = "idle" /\ p = "keepalive" /\ readerDone
  /\ closed' = TRUE
  /\ Go(p, IF closed THEN "done" ELSE "lock") /\ Call(p, "close")
  /\ UNCHANGED <<goAwayRequested, goAwaySentID, netVars, maxClient, pingVars,
                 payload, acceptVars, histVars>>

\* GoAway and GoAwayGraceful: only the first to set goAwayRequested goes on.
GoAway(p, o) ==
  /\ pc[p] = "idle" /\ p \in Callers /\ o \in Ops \cap {"goaway", "graceful"}
  /\ goAwayRequested' = TRUE
  /\ Go(p, IF goAwayRequested THEN "done" ELSE "lock") /\ Call(p, o)
  /\ UNCHANGED <<closed, goAwaySentID, netVars, maxClient, pingVars, payload,
                 acceptVars, histVars>>

\* By the application, or on a tick of keepaliveLoop.
Ping(p) ==
  /\ pc[p] = "idle" /\ (p = "keepalive" \/ (p \in Callers /\ "ping" \in Ops))
  /\ Call(p, "ping")
  /\ IF closed
       THEN Go(p, After(p, FALSE)) /\ UNCHANGED <<payload, pingVars>>
       ELSE /\ pingCounter < MaxPings
            /\ pingCounter' = pingCounter + 1
            /\ payload' = [payload EXCEPT ![p] = pingCounter + 1]
            /\ pingWaiters' = pingWaiters \cup {pingCounter + 1}
            /\ Go(p, "lock")
            /\ UNCHANGED <<answered, unanswered>>
  /\ UNCHANGED <<connVars, netVars, maxClient, acceptVars, histVars>>

\* A handler's frame, or the reader's answer to a PING: neither starts on a closed
\* connection, neither looks again under wmu.
Frame(p, o) ==
  /\ pc[p] = "idle"
  /\ \/ p \in Callers /\ o = "data" /\ o \in Ops
     \/ p = "reader" /\ o = "pingack" /\ link # "dead"
  /\ Go(p, IF closed THEN After(p, FALSE) ELSE "lock") /\ Call(p, o)
  /\ UNCHANGED <<connVars, netVars, maxClient, pingVars, payload, acceptVars,
                 histVars>>

\* readerLoop on an error with a code: sendGoAway, if it is the first to ask.
ReaderError ==
  /\ pc["reader"] = "idle" /\ link # "dead"
  /\ goAwayRequested' = TRUE
  /\ Go("reader", IF goAwayRequested THEN "hangup" ELSE "lock")
  /\ Call("reader", "error")
  /\ UNCHANGED <<closed, goAwaySentID, netVars, maxClient, pingVars, payload,
                 acceptVars, histVars>>

-----------------------------------------------------------------------------
(* The section under wmu *)

\* Mutant: the identifier is not held down.
clampNothing(id) == id

\* clampGoAwayID: never above what has been announced.
clampGoAwayID(id) == IF id > goAwaySentID THEN goAwaySentID ELSE id

LastStreamID(o) == IF o = "graceful" THEN maxStreamID ELSE maxClient

\* Mutant: closed is looked at before wmu only.
LockOnly(p) ==
  /\ pc[p] = "lock" /\ wmu = "none" /\ wmu' = p
  /\ deadline' = (deadline \/ op[p] \in {"close", "error"})
  /\ Go(p, "write")
  /\ goAwaySentID' = IF op[p] \in GoAways
                       THEN clampGoAwayID(LastStreamID(op[p])) ELSE goAwaySentID
  /\ UNCHANGED <<closed, goAwayRequested, link, maxClient, pingVars, op, payload,
                 acceptVars, histVars>>

\* Close and sendGoAway set the deadline under wmu; everything but Close, data and
\* the PING answer gives up on a closed connection.
Lock(p) ==
  /\ pc[p] = "lock" /\ wmu = "none"
  /\ deadline' = (deadline \/ op[p] \in {"close", "error"})
  /\ IF closed /\ op[p] \in {"goaway", "graceful", "error", "ping"}
       THEN /\ Go(p, IF op[p] = "error" THEN "hangup" ELSE After(p, FALSE))
            /\ pingWaiters' = pingWaiters \ {payload[p]}
            /\ UNCHANGED <<wmu, goAwaySentID>>
       ELSE /\ wmu' = p /\ Go(p, "write")
            /\ goAwaySentID' = IF op[p] \in GoAways
                                 THEN clampGoAwayID(LastStreamID(op[p]))
                                 ELSE goAwaySentID
            /\ UNCHANGED pingWaiters
  /\ UNCHANGED <<closed, goAwayRequested, link, maxClient, pingCounter, answered,
                 unanswered, op, payload, acceptVars, histVars>>

\* A write succeeds while the peer reads, fails on a dead transport or at the
\* deadline, and otherwise blocks with wmu held.
Write(p, ok) ==
  /\ wmu = p /\ wmu' = "none"
  /\ IF ok THEN link = "up" ELSE link = "dead" \/ (link = "stalled" /\ deadline)
  /\ UNCHANGED <<deadline, link>>

WriteGoAway(p, ok) ==
  /\ op[p] \in GoAways /\ Write(p, ok)
  /\ Go(p, IF op[p] \in {"close", "error"} THEN "hangup" ELSE After(p, ok))
  /\ goAwayRequested' = (goAwayRequested \/ (op[p] = "close" /\ ok))
  /\ lastSent' = IF ok THEN goAwaySentID ELSE lastSent
  /\ sent' = IF ok THEN sent \cup {p} ELSE sent
  /\ UNCHANGED <<closed, goAwaySentID, maxClient, pingVars, op, payload,
                 acceptVars>>

WritePing(p, ok) ==
  /\ op[p] = "ping" /\ Write(p, ok)
  /\ IF ok THEN /\ unanswered' = unanswered \cup {payload[p]} /\ Go(p, "wait")
                /\ UNCHANGED pingWaiters
           ELSE /\ pingWaiters' = pingWaiters \ {payload[p]}
                /\ Go(p, After(p, FALSE)) /\ UNCHANGED unanswered
  /\ UNCHANGED <<connVars, maxClient, pingCounter, answered, op, payload,
                 acceptVars, histVars>>

WriteFrame(p, ok) ==
  /\ op[p] \in {"data", "pingack"} /\ Write(p, ok)
  /\ Go(p, After(p, ok))
  /\ UNCHANGED <<connVars, maxClient, pingVars, op, payload, acceptVars, histVars>>

-----------------------------------------------------------------------------
(* After wmu *)

\* Mutant: Close waits for the reader before it closes the transport.
JoinThenHangup(p) ==
  /\ pc[p] = "hangup"
  /\ link' = IF p = "reader" THEN "dead" ELSE link
  /\ Go(p, IF p = "reader" THEN "shut" ELSE "join")
  /\ UNCHANGED <<connVars, wmu, deadline, maxClient, pingVars, op, payload,
                 acceptVars, histVars>>

\* transport.Close, then Close waits for the reader and the reader winds up.
Hangup(p) ==
  /\ pc[p] = "hangup"
  /\ link' = "dead" /\ Go(p, IF p = "reader" THEN "shut" ELSE "join")
  /\ UNCHANGED <<connVars, wmu, deadline, maxClient, pingVars, op, payload,
                 acceptVars, histVars>>

CloseReturns(p) ==
  /\ pc[p] = "join" /\ readerDone
  /\ Go(p, "done")
  /\ UNCHANGED <<connVars, netVars, maxClient, pingVars, op, payload, acceptVars,
                 histVars>>

\* Ping's select: the ACK.
PingAnswered(p) ==
  /\ pc[p] = "wait" /\ payload[p] \in answered
  /\ answered' = answered \ {payload[p]} /\ Go(p, After(p, TRUE))
  /\ UNCHANGED <<connVars, netVars, maxClient, pingCounter, pingWaiters,
                 unanswered, op, payload, acceptVars, histVars>>

\* Ping's select: its context, or the end of the reader.
PingGivesUp(p) ==
  /\ pc[p] = "wait"
  /\ pingWaiters' = pingWaiters \ {payload[p]}
  /\ answered' = answered \ {payload[p]} /\ Go(p, After(p, FALSE))
  /\ UNCHANGED <<connVars, netVars, maxClient, pingCounter, unanswered, op,
                 payload, acceptVars, histVars>>

-----------------------------------------------------------------------------
(* The reader *)

\* registerStream: a new stream is admitted and queued on acceptCh.
OnHeaders ==
  /\ pc["reader"] = "idle" /\ link # "dead" /\ maxClient < MaxStreams
  /\ maxClient' = maxClient + 1
  /\ UNCHANGED <<connVars, netVars, pingVars, procVars, acceptVars, histVars>>

deliverPingAck(n) ==
  /\ pc["reader"] = "idle" /\ link # "dead" /\ n \in unanswered
  /\ unanswered' = unanswered \ {n}
  /\ answered' = answered \cup ({n} \cap pingWaiters)
  /\ pingWaiters' = pingWaiters \ {n}
  /\ UNCHANGED <<connVars, netVars, maxClient, pingCounter, procVars, acceptVars,
                 histVars>>

\* EOF or a transport error carries no code: no GOAWAY, the transport stays open.
ReadFails ==
  /\ pc["reader"] = "idle"
  /\ Go("reader", "shut")
  /\ UNCHANGED <<connVars, netVars, maxClient, pingVars, op, payload, acceptVars,
                 histVars>>

\* shutdownStreams and the deferred close of readerDone.
ReaderExits ==
  /\ pc["reader"] = "shut"
  /\ Go("reader", "done")
  /\ UNCHANGED <<connVars, netVars, maxClient, pingVars, op, payload, acceptVars,
                 histVars>>

-----------------------------------------------------------------------------
(* The accept loop *)

AcceptStream ==
  /\ acc = "call"
  /\ acc' = IF closed THEN "done" ELSE "wait"
  /\ late' = (\E p \in Callers : op[p] = "goaway" /\ pc[p] = "done")
  /\ UNCHANGED <<connVars, netVars, maxClient, pingVars, procVars, taken,
                 delivered, histVars>>

\* A stream that died in the queue is passed over.
deliver ==
  /\ acc = "wait" /\ taken < maxClient
  /\ taken' = taken + 1
  /\ \/ delivered' = delivered \cup {taken + 1} /\ acc' = "call"
     \/ UNCHANGED <<delivered, acc>>
  /\ UNCHANGED <<connVars, netVars, maxClient, pingVars, procVars, late, histVars>>

\* The queue is empty and the reader is gone.
AcceptEnds ==
  /\ acc = "wait" /\ taken = maxClient /\ readerDone
  /\ acc' = "done"
  /\ UNCHANGED <<connVars, netVars, maxClient, pingVars, procVars, taken, late,
                 delivered, histVars>>

-----------------------------------------------------------------------------
(* The peer and the network *)

SetLink(from, to) ==
  /\ link \in from /\ link' = to
  /\ UNCHANGED <<connVars, wmu, deadline, maxClient, pingVars, procVars,
                 acceptVars, histVars>>

PeerStalls == CanStall /\ SetLink({"up"}, "stalled")
PeerReads  == SetLink({"stalled"}, "up")
LinkDies   == SetLink({"up", "stalled"}, "dead")

Finished ==
  /\ \A p \in Procs : pc[p] = "done"
  /\ acc = "done"
  /\ UNCHANGED vars

Under(p) ==
  \/ Lock(p) \/ Hangup(p) \/ CloseReturns(p) \/ PingAnswered(p)
  \/ \E ok \in BOOLEAN :
       WriteGoAway(p, ok) \/ WritePing(p, ok) \/ WriteFrame(p, ok)

Starts(p) ==
  \/ Close(p) \/ Ping(p)
  \/ \E o \in {"goaway", "graceful"} : GoAway(p, o)
  \/ \E o \in {"data", "pingack"} : Frame(p, o)

ReaderStep ==
  \/ ReaderError \/ OnHeaders \/ ReadFails \/ ReaderExits
  \/ \E n \in unanswered : deliverPingAck(n)

Accepts == AcceptStream \/ deliver \/ AcceptEnds

Next ==
  \/ \E p \in Procs : Starts(p) \/ Under(p) \/ PingGivesUp(p)
  \/ ReaderStep \/ Accepts
  \/ PeerStalls \/ PeerReads \/ LinkDies
  \/ Finished

\* The scheduler runs every goroutine that can run, a sync.Mutex hands itself to
\* a waiter in the end, a Ping of keepaliveLoop has a timeout and every Ping sees
\* the end of the reader, and a read of a dead transport fails.  Nothing is
\* assumed of the peer or of the application.
Fairness ==
  /\ \A p \in Procs :
       /\ WF_vars(Under(p)) /\ SF_vars(Lock(p))
       /\ WF_vars((p = "keepalive" \/ readerDone) /\ PingGivesUp(p))
  /\ WF_vars(Close("keepalive"))
  /\ WF_vars(link = "dead" /\ ReadFails) /\ WF_vars(ReaderExits)
  /\ WF_vars(Accepts)

Spec     == Init /\ [][Next]_vars
FairSpec == Spec /\ Fairness

-----------------------------------------------------------------------------
(* Properties *)

\* The last-stream-id on the wire never rises (RFC 9113 6.8), whichever calls
\* race: the reason clampGoAwayID is called under wmu.
GoAwayNeverRises == lastSent' <= lastSent

\* Once Close's GOAWAY is out, no other GOAWAY and no PING follows it: the reason
\* GoAway, sendGoAway and Ping look at closed again under wmu.
CloseHasTheLastWord ==
  (\E q \in sent : op[q] = "close")
    => sent' = sent /\ unanswered' \subseteq unanswered

\* What a client may conclude from the GOAWAY frames holds however Close, GoAway,
\* GoAwayGraceful, keepalive and a connection error race for wmu: the identifiers
\* never rise, and Close's frame is the last.
GoAwaysInOrder == [][GoAwayNeverRises /\ CloseHasTheLastWord]_vars

\* Every entry of pingWaiters belongs to a Ping in progress, and every Ping that
\* waits has an entry or an answer: none leaks, none is lost, whether the ACK, the
\* timeout, a failed write or Close comes first.
PingsAccounted ==
  /\ \A n \in pingWaiters : \E p \in Procs :
       payload[p] = n /\ op[p] = "ping" /\ pc[p] \in {"lock", "write", "wait"}
  /\ \A p \in Procs : pc[p] = "wait" => payload[p] \in pingWaiters \cup answered

\* From some time on the peer reads, or the transport is dead.
PeerReadsOn == <>[](link # "stalled")

\* While the peer reads, a Close that has begun returns, with the reader gone.
CloseCompletes ==
  PeerReadsOn => \A p \in Callers \cup {"keepalive"} :
    (op[p] = "close" /\ pc[p] = "lock") ~> (pc[p] = "done" /\ readerDone)

\* With keepalive, a Ping in flight is answered or the connection is closed.
KeepaliveSettles ==
  PeerReadsOn =>
    (pc["keepalive"] = "wait"
      ~> (\/ pc["keepalive"] = "idle" /\ payload["keepalive"] \notin unanswered
          \/ closed /\ readerDone))

\* With the reader gone, the accept loop ends and, with keepalive, so does the
\* connection: its transport is closed.
ReaderDeathNoticed ==
  PeerReadsOn => /\ readerDone ~> acc = "done"
                 /\ (Keepalive /\ readerDone) ~> link = "dead"

\* The end of a connection is noticed by those who wait on it: keepalive by its Ping,
\* the accept loop by the end of the reader.
EndNoticed == KeepaliveSettles /\ ReaderDeathNoticed

-----------------------------------------------------------------------------
(* Claims of comments and documents that the code does not keep; the README   *)
(* says how each fails                                                        *)

\* ConnStats.GoAwaySent: a connection sends at most one GOAWAY.
OneGoAway == Cardinality(sent) <= 1

\* GoAway: after this call AcceptStream returns ErrConnClosed.
GoAwayStopsAccept == [][late => delivered' = delivered]_vars

\* lastPeerID: the last-stream-id is the highest stream this server has acted on
\* or might yet act on, so no stream above it is handed to the application.
LastIdCoversDelivered == \A id \in delivered : id <= lastSent

\* readerLoop: a connection error is reported by a GOAWAY that carries its code,
\* unless the connection is being closed or its transport has failed.
ErrorReported ==
  [][Hangup("reader") /\ link = "up" /\ ~closed => "reader" \in sent]_vars

\* sendGoAway: a stuck transport cannot block connection teardown.
TeardownNotBlocked == op["reader"] = "error" ~> readerDone

-----------------------------------------------------------------------------
(* The inductive invariant *)

\* wmu belongs to the one process that writes.
WmuInv == \A p \in Procs : pc[p] = "write" <=> wmu = p

\* What each process can be doing.
ProcInv ==
  /\ pc["reader"] \in {"idle", "lock", "write", "hangup", "shut", "done"}
  /\ op["reader"] \in {"ping", "pingack", "error"}
  /\ pc["reader"] \in {"lock", "write"} => op["reader"] # "ping"
  /\ payload["reader"] = 0
  /\ op["keepalive"] \in {"ping", "close"}
  /\ \A p \in Procs : /\ pc[p] = "wait" => op[p] = "ping"
                      /\ payload[p] # 0 => op[p] \in {"ping", "close"}
                      /\ pc[p] = "idle" /\ p # "keepalive" => payload[p] = 0
                      /\ p \in sent => op[p] \in GoAways
                                       /\ pc[p] \in {"hangup", "join", "shut", "done"}

Closing(p) ==
  op[p] = "close" /\ (p \in sent \/ pc[p] \in {"lock", "write", "hangup", "join"})

\* One Close at most gets past its CompareAndSwap, and once its GOAWAY is out
\* whoever holds wmu writes neither a GOAWAY nor a PING.
CloseInv ==
  /\ \A p \in Procs : Closing(p) => closed /\ \A q \in Procs : Closing(q) => p = q
  /\ \A p, q \in Procs : p \in sent /\ op[p] = "close" /\ pc[q] = "write"
       => op[q] \in {"data", "pingack"}

Pinging(p) == op[p] = "ping" /\ pc[p] \in {"lock", "write", "wait"}

\* Pings in progress have payloads of their own, and one that is not on the wire
\* yet is registered and cannot be acknowledged.
PingInv ==
  /\ \A p \in Procs : Pinging(p) =>
       /\ payload[p] \in 1..pingCounter
       /\ \A q \in Procs : Pinging(q) /\ payload[p] = payload[q] => p = q
       /\ pc[p] # "wait" => payload[p] \in pingWaiters \ unanswered
  /\ unanswered \cup answered \subseteq 1..pingCounter
  /\ pingWaiters \cap answered = {}

TeardownInv ==
  /\ TypeOK /\ WmuInv /\ ProcInv /\ CloseInv /\ PingInv /\ PingsAccounted
  /\ goAwaySentID <= lastSent

=============================================================================
