----------------------------- MODULE RecvWindow -----------------------------
(***************************************************************************)
(* Inbound flow control of one upload: onDataReceived and                  *)
(* writeWindowUpdate of conn/server_ops.go, OnData and OnRSTStream of      *)
(* conn/server_handler.go, push and creditConsumed of                      *)
(* conn/server_stream.go.                                                  *)
(*                                                                         *)
(* A client that keeps to the windows it knows uploads a body on one       *)
(* stream.  The reader debits both windows as DATA arrives and refunds the *)
(* connection's; the handler refunds the stream's as it takes the data     *)
(* (RequestBody).  Either counts a refund under its lock first and writes  *)
(* the WINDOW_UPDATE afterwards.                                           *)
(***************************************************************************)
EXTENDS Integers, Sequences, Totals

CONSTANTS
  Window,      \* advertised SETTINGS_INITIAL_WINDOW_SIZE
  ConnWindow,  \* connRecvWindow at the start
  recvWindowRefundThreshold,
  EventBuffer, \* StreamEventBuffer
  MaxFrame,    \* bound: the flow-controlled length of one DATA frame
  Body,        \* the length of the upload
  Paddings     \* the lengths of padding the client may add to a frame

ASSUME ConstantsAssumption ==
  /\ Window \in Nat \ {0} /\ ConnWindow \in Nat \ {0}
  /\ recvWindowRefundThreshold \in Nat \ {0} /\ EventBuffer \in Nat \ {0}
  /\ MaxFrame \in Nat \ {0} /\ Body \in Nat \ {0}
  /\ Paddings \subseteq Nat

VARIABLES
  todo,       \* client: octets of the body it has not sent
  fin,        \* client: it has sent END_STREAM or RST_STREAM
  peerStream, \* client: what it knows of the stream's window
  peerConn,   \* client: what it knows of the connection's window
  stopped,    \* client: it has seen the RST_STREAM
  wire,       \* frames on their way
  updStream,  \* WINDOW_UPDATE increments on their way to the client
  updConn,
  rpc,        \* reader: what it is about to do; the frame in its hands is Head(wire)
  found,      \* reader: lookupStream has found the stream
  connRefund, \* reader: the refund it has counted and must write
  recvWindow, recvRefundPending,
  connRecvWindow, connRefundPending,
  refund,     \* handler: the refund it has counted and must write
  events,     \* ServerStream.events
  reset,      \* the stream's state has stReset
  rstOwed,    \* the goroutine of push has yet to write its RST_STREAM
  live,       \* the stream is in the table and its context not cancelled
  dropped,    \* history: push has dropped an event of the body
  failed      \* the connection ended with FLOW_CONTROL_ERROR

clientVars == <<todo, fin, peerStream, peerConn, stopped>>
netVars    == <<wire, updStream, updConn>>
readerVars == <<rpc, found, connRefund, connRecvWindow, connRefundPending, failed>>
creditVars == <<recvWindow, recvRefundPending, refund>>
streamVars == <<events, reset, rstOwed, live, dropped>>
recvVars == <<clientVars, netVars, readerVars, creditVars, streamVars>>

\* Frames, and the events made of them: n octets of data in a frame of length len.
\* Only DATA has a length, and the other frames end the client's half.
Items ==
  {i \in [type : {"data", "trailers", "reset"}, len : 0..MaxFrame, n : 0..MaxFrame,
          end : BOOLEAN] :
     i.n <= i.len /\ (i.type # "data" => i.len = 0 /\ i.end)}
ResetItem == [type |-> "reset", len |-> 0, n |-> 0, end |-> TRUE]

RecvInit ==
  /\ todo = Body /\ fin = FALSE /\ peerStream = Window /\ peerConn = ConnWindow
  /\ stopped = FALSE /\ wire = <<>> /\ updStream = 0 /\ updConn = 0
  /\ rpc = "read" /\ found = FALSE /\ connRefund = 0
  /\ recvWindow = Window /\ recvRefundPending = 0
  /\ connRecvWindow = ConnWindow /\ connRefundPending = 0 /\ refund = 0
  /\ events = <<>> /\ reset = FALSE /\ rstOwed = FALSE /\ live = TRUE
  /\ dropped = FALSE /\ failed = FALSE

-----------------------------------------------------------------------------
(* The client, external: it sends within its windows and obeys RST_STREAM *)

\* A frame goes out; the last may be DATA, empty or not, or the trailers.
SendItem(i) ==
  /\ ~ stopped /\ ~ failed /\ ~ fin
  /\ i.len <= peerStream /\ i.len <= peerConn
  /\ wire' = Append(wire, i)
  /\ todo' = todo - i.n /\ fin' = i.end
  /\ peerStream' = peerStream - i.len /\ peerConn' = peerConn - i.len
  /\ UNCHANGED <<stopped, updStream, updConn, readerVars, creditVars, streamVars>>

Send ==
  \/ \E n \in 0..todo, pad \in Paddings, end \in BOOLEAN :
       n + pad <= MaxFrame /\ (end => n = todo) /\ (n + pad > 0 \/ end)
         /\ SendItem([type |-> "data", len |-> n + pad, n |-> n, end |-> end])
  \/ todo = 0 /\ SendItem([type |-> "trailers", len |-> 0, n |-> 0, end |-> TRUE])

\* The client gives the upload up.
Abort == SendItem(ResetItem)

GetStreamUpdate ==
  /\ updStream > 0
  /\ peerStream' = peerStream + updStream /\ updStream' = 0
  /\ UNCHANGED <<todo, fin, peerConn, stopped, wire, updConn, readerVars, creditVars,
                 streamVars>>

GetConnUpdate ==
  /\ updConn > 0
  /\ peerConn' = peerConn + updConn /\ updConn' = 0
  /\ UNCHANGED <<todo, fin, peerStream, stopped, wire, updStream, readerVars, creditVars,
                 streamVars>>

GetReset ==
  /\ ~ live /\ ~ stopped /\ ~ fin
  /\ stopped' = TRUE
  /\ UNCHANGED <<todo, fin, peerStream, peerConn, netVars, readerVars, creditVars,
                 streamVars>>

-----------------------------------------------------------------------------
(* The reader *)

\* The connection's half of onDataReceived, for a frame it has room for.
debitConn(len) ==
  LET pending == connRefundPending + len
      flush   == pending >= recvWindowRefundThreshold
  IN /\ connRecvWindow' = connRecvWindow - len + (IF flush THEN pending ELSE 0)
     /\ connRefundPending' = IF flush THEN 0 ELSE pending
     /\ connRefund' = IF flush THEN pending ELSE 0
     /\ rpc' = IF flush THEN "update" ELSE "push"
     /\ UNCHANGED failed

\* Mutant: DATA on a stream that is gone is dropped before the books are kept.
onDataReceivedLive(len) ==
  IF ~ live THEN rpc' = "push" /\ UNCHANGED <<recvWindow, connRefund, connRecvWindow,
                                              connRefundPending, failed>>
  ELSE recvWindow' = recvWindow - len /\ debitConn(len)

\* onDataReceived: both windows are debited by the whole frame, the stream's only
\* while it is in the table.
onDataReceived(len) ==
  /\ recvWindow' = IF live THEN recvWindow - len ELSE recvWindow
  /\ IF live /\ recvWindow < len
     THEN failed' = TRUE /\ UNCHANGED <<rpc, connRefund, connRecvWindow, connRefundPending>>
     ELSE IF connRecvWindow < len
     THEN /\ failed' = TRUE /\ connRecvWindow' = connRecvWindow - len
          /\ UNCHANGED <<rpc, connRefund, connRefundPending>>
     ELSE debitConn(len)

\* OnData, up to the push; the other frames have no books to keep.
OnFrame ==
  /\ rpc = "read" /\ ~ failed /\ wire # <<>> /\ found' = live
  /\ IF Head(wire).type = "data"
     THEN onDataReceived(Head(wire).len)
     ELSE rpc' = "push" /\ UNCHANGED <<recvWindow, connRefund, connRecvWindow,
                                       connRefundPending, failed>>
  /\ UNCHANGED <<clientVars, netVars, recvRefundPending, refund, streamVars>>

\* The writeWindowUpdate for stream 0 at the end of onDataReceived.
WriteConnUpdate ==
  /\ rpc = "update" /\ rpc' = "push"
  /\ updConn' = updConn + connRefund /\ connRefund' = 0
  /\ UNCHANGED <<clientVars, wire, updStream, found, connRecvWindow, connRefundPending,
                 failed, creditVars, streamVars>>

\* push, for a stream that was in the table: a full buffer resets the stream.  OnRSTStream
\* has recorded the reset before it pushes, and releases the stream after it.
Push ==
  /\ rpc = "push" /\ wire' = Tail(wire)
  /\ LET e    == Head(wire)
         rst  == e.type = "reset"
         full == Len(events) = EventBuffer
     IN  IF ~ found THEN rpc' = "read" /\ UNCHANGED streamVars
         ELSE /\ events' = IF full THEN events ELSE Append(events, e)
              /\ dropped' = (dropped \/ (full /\ ~ rst))
              /\ rstOwed' = (rstOwed \/ (full /\ ~ rst /\ ~ reset))
              /\ reset' = (reset \/ full \/ rst)
              /\ live' = (live /\ ~ rst)
              /\ rpc' = IF full /\ ~ rst /\ ~ reset THEN "overflow" ELSE "read"
  /\ UNCHANGED <<clientVars, updStream, updConn, found, connRefund, connRecvWindow,
                 connRefundPending, failed, creditVars>>

\* The EventReset at the end of push, should there be room for it by now.
PushReset ==
  /\ rpc = "overflow" /\ rpc' = "read"
  /\ events' = IF Len(events) = EventBuffer THEN events ELSE Append(events, ResetItem)
  /\ UNCHANGED <<clientVars, netVars, found, connRefund, connRecvWindow, connRefundPending,
                 failed, creditVars, reset, rstOwed, live, dropped>>

\* The goroutine of push writes RST_STREAM and releases the stream.
OverflowRST ==
  /\ rstOwed /\ rstOwed' = FALSE /\ live' = FALSE
  /\ UNCHANGED <<clientVars, netVars, readerVars, creditVars, events, reset, dropped>>

Reader == OnFrame \/ WriteConnUpdate \/ Push \/ PushReset

-----------------------------------------------------------------------------
(* The credit a handler returns *)

\* Mutant: a refund must exceed the threshold.
creditLate(n) ==
  LET pending == recvRefundPending + n
      flush   == pending > recvWindowRefundThreshold
  IN /\ recvWindow' = IF flush THEN recvWindow + pending ELSE recvWindow
     /\ recvRefundPending' = IF flush THEN 0 ELSE pending
     /\ refund' = IF flush /\ ~ reset THEN pending ELSE 0

\* Mutant: the WINDOW_UPDATE is written before the window is raised.
creditUncounted(n) ==
  LET pending == recvRefundPending + n
      flush   == pending >= recvWindowRefundThreshold
  IN /\ UNCHANGED recvWindow
     /\ recvRefundPending' = IF flush THEN 0 ELSE pending
     /\ refund' = IF flush /\ ~ reset THEN pending ELSE 0

\* The window is raised here; a stream that was reset gets no WINDOW_UPDATE.
creditConsumed(n) ==
  LET pending == recvRefundPending + n
      flush   == pending >= recvWindowRefundThreshold
  IN /\ recvWindow' = IF flush THEN recvWindow + pending ELSE recvWindow
     /\ recvRefundPending' = IF flush THEN 0 ELSE pending
     /\ refund' = IF flush /\ ~ reset THEN pending ELSE 0

WriteStreamUpdate ==
  /\ refund > 0
  /\ updStream' = updStream + refund /\ refund' = 0
  /\ UNCHANGED <<clientVars, wire, updConn, readerVars, recvWindow, recvRefundPending,
                 streamVars>>

\* ServerStream.Close: RST_STREAM unless the stream was reset already.
CloseStream ==
  /\ reset' = TRUE /\ live' = (live /\ reset)
  /\ UNCHANGED <<clientVars, netVars, readerVars, creditVars, events, rstOwed, dropped>>

-----------------------------------------------------------------------------
(* Properties *)

Octets(s)  == SeqTotal([i \in DOMAIN s |-> s[i].n])
Lengths(s) == SeqTotal([i \in DOMAIN s |-> s[i].len])

\* Frames whose length the reader has not counted yet.
Uncounted == IF rpc \in {"update", "push"} THEN Tail(wire) ELSE wire
InFlight == Lengths(Uncounted)

TypeOK ==
  /\ todo \in 0..Body /\ peerStream \in 0..Window /\ peerConn \in 0..ConnWindow
  /\ wire \in Seq(Items) /\ events \in Seq(Items) /\ Len(events) <= EventBuffer
  /\ updStream \in 0..Window /\ updConn \in 0..ConnWindow
  /\ rpc \in {"read", "update", "push", "overflow"} /\ (rpc = "update" <=> connRefund > 0)
  /\ recvWindow \in Int /\ connRecvWindow \in Int
  /\ recvRefundPending \in 0..recvWindowRefundThreshold - 1
  /\ connRefundPending \in 0..recvWindowRefundThreshold - 1
  /\ connRefund \in 0..ConnWindow /\ refund \in 0..Window
  /\ fin \in BOOLEAN /\ stopped \in BOOLEAN /\ found \in BOOLEAN /\ reset \in BOOLEAN
  /\ rstOwed \in BOOLEAN /\ live \in BOOLEAN /\ dropped \in BOOLEAN /\ failed \in BOOLEAN

\* A client that keeps to its windows is never charged with FLOW_CONTROL_ERROR:
\* a refund counts before the client can learn of it, and resets, padding and data
\* for a stream that is gone leave the two sides' books in step.
NoFalseFlowError == TypeOK /\ ~ failed

\* What the client may still send on the connection, has sent and not been charged
\* for, or is about to be told: the room the server must have.
ConnPromised == peerConn + updConn + connRefund + InFlight

\* No credit of the connection is lost, whatever becomes of the stream: what the
\* client may send, what is on its way and what is still to be refunded add up to
\* the window.
ConnCreditConserved == failed \/ ConnPromised + connRefundPending = ConnWindow

\* The same for the stream, with the octets that have been charged and not refunded.
\* Together they are what is left of the stream's window: padding is debited and
\* never refunded.
Promised == peerStream + updStream + refund + InFlight
Held == IF rpc \in {"update", "push"} THEN Head(wire).n ELSE 0
Unrefunded == Held + Octets(events) + recvRefundPending
StreamCredit == Promised + Unrefunded

-----------------------------------------------------------------------------
(* Claims of comments and documents that the code does not keep; the README   *)
(* says how each fails                                                        *)

\* ADR-0003: a handler that stops reading applies flow-control backpressure, so
\* the stream of a client within its window is not lost.
BackpressureHolds == ~ rstOwed

=============================================================================
