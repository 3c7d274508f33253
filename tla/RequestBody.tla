----------------------------- MODULE RequestBody -----------------------------
(***************************************************************************)
(* How a request body reaches its handler, over RecvWindow: Recv of        *)
(* conn/server_stream.go, the streamBody of server/stream_body.go and, in  *)
(* buffered mode, serveStreamBuffered of server/server.go.                 *)
(***************************************************************************)
EXTENDS RecvWindow

CONSTANTS
  Limits,      \* values of MaxRequestBodyBytes
  ReadSizes    \* the lengths of the slices a handler passes to Read

ASSUME BodyAssumption == Limits \subseteq Nat /\ ReadSizes \subseteq Nat \ {0}

VARIABLES
  streaming,  \* Options.StreamingBody
  limit,
  hpc,        \* the goroutine of the stream; "recv" and "select" are the halves of Recv
  buf, done, total, \* streamBody; total also of serveStreamBuffered
  delivered,  \* octets handed to the application
  result      \* history: how the body first ended for its reader

bodyVars == <<streaming, limit, hpc, buf, done, total, delivered, result>>
vars == <<recvVars, bodyVars>>

Init ==
  /\ RecvInit
  /\ streaming \in BOOLEAN /\ limit \in Limits \cup {-1}  \* -1 is no limit
  /\ hpc = IF streaming THEN "idle" ELSE "recv"
  /\ buf = 0 /\ done = FALSE /\ total = 0 /\ delivered = 0 /\ result = "none"

least(a, b) == IF a < b THEN a ELSE b
ends(how) == result' = IF result = "none" THEN how ELSE result

-----------------------------------------------------------------------------
(* Recv *)

\* A buffered event is taken, and its octets credited.
take ==
  /\ hpc \in {"recv", "select"} /\ refund = 0 /\ events # <<>>
  /\ events' = Tail(events)
  /\ IF Head(events).type = "data" /\ Head(events).n > 0
     THEN creditConsumed(Head(events).n) ELSE UNCHANGED creditVars
  /\ UNCHANGED <<clientVars, netVars, readerVars, reset, rstOwed, live, dropped,
                 streaming, limit>>

\* Nothing was buffered at the first look.
RecvWaits ==
  /\ hpc = "recv" /\ refund = 0 /\ events = <<>> /\ hpc' = "select"
  /\ UNCHANGED <<recvVars, streaming, limit, buf, done, total, delivered, result>>

\* The context is done, and the second select may choose it over an event.
RecvFails ==
  /\ hpc = "select" /\ ~ live /\ ends("canceled")
  /\ IF streaming THEN hpc' = "idle" /\ done' = TRUE ELSE hpc' = "over" /\ UNCHANGED done
  /\ UNCHANGED <<recvVars, streaming, limit, buf, total, delivered>>

overCap(n) == limit >= 0 /\ total + n > limit

-----------------------------------------------------------------------------
(* streamBody *)

Read(p) ==
  /\ hpc = "idle" /\ streaming /\ refund = 0
  /\ \/ /\ buf > 0
        /\ delivered' = delivered + least(p, buf) /\ buf' = buf - least(p, buf)
        /\ UNCHANGED <<hpc, result>>
     \/ buf = 0 /\ done /\ ends("eof") /\ UNCHANGED <<hpc, buf, delivered>>
     \/ buf = 0 /\ ~ done /\ hpc' = "recv" /\ UNCHANGED <<buf, delivered, result>>
  /\ UNCHANGED <<recvVars, streaming, limit, done, total>>

\* Mutant: the end of the stream discards what did not fit p.
deliverDataOnce(p, n, end) ==
  IF overCap(n)
  THEN done' = TRUE /\ total' = total + n /\ ends("toolarge") /\ UNCHANGED <<buf, delivered>>
  ELSE /\ total' = IF limit >= 0 THEN total + n ELSE total
       /\ delivered' = delivered + least(p, n)
       /\ buf' = IF end THEN 0 ELSE n - least(p, n)
       /\ done' = (done \/ end) /\ UNCHANGED result

deliverData(p, n, end) ==
  IF overCap(n)
  THEN done' = TRUE /\ total' = total + n /\ ends("toolarge") /\ UNCHANGED <<buf, delivered>>
  ELSE /\ total' = IF limit >= 0 THEN total + n ELSE total
       /\ delivered' = delivered + least(p, n) /\ buf' = n - least(p, n)
       /\ done' = (done \/ end) /\ UNCHANGED result

\* The loop of Read, for one event.
ReadEvent(p) ==
  /\ streaming /\ take
  /\ LET e == Head(events)
         final(how) == /\ hpc' = "idle" /\ done' = TRUE /\ ends(how)
                       /\ UNCHANGED <<buf, total, delivered>>
     IN  CASE e.type = "reset" -> final("reset")
           [] e.type # "reset" /\ e.n = 0 /\ e.end -> final("eof")
           [] e.n = 0 /\ ~ e.end -> hpc' = "recv"
                                    /\ UNCHANGED <<buf, done, total, delivered, result>>
           [] OTHER -> hpc' = "idle" /\ deliverData(p, e.n, e.end)

\* streamBody.Close takes the lock Read holds.
CloseBody ==
  /\ hpc = "idle" /\ streaming /\ refund = 0 /\ ~ done
  /\ done' = TRUE /\ ends("closed")
  /\ UNCHANGED <<recvVars, streaming, limit, hpc, buf, total, delivered>>

-----------------------------------------------------------------------------
(* serveStreamBuffered *)

BufferEvent ==
  /\ ~ streaming /\ take
  /\ LET e == Head(events)
     IN  CASE e.type = "reset" ->
                hpc' = "close" /\ ends("reset") /\ UNCHANGED <<total, delivered>>
           [] e.type = "data" /\ overCap(e.n) ->
                /\ hpc' = "close" /\ ends("toolarge")
                /\ total' = total + e.n /\ UNCHANGED delivered
           [] OTHER -> /\ total' = total + e.n /\ delivered' = delivered + e.n
                       /\ IF e.end THEN hpc' = "close" /\ ends("eof")
                          ELSE hpc' = "recv" /\ UNCHANGED result
  /\ UNCHANGED <<buf, done>>

\* The handler has returned, early perhaps, or the body was refused: ServerStream.Close.
HandlerCloses ==
  /\ hpc \in {"idle", "close"} /\ refund = 0 /\ hpc' = "over"
  /\ CloseStream
  /\ UNCHANGED <<streaming, limit, buf, done, total, delivered, result>>

Reading == \E p \in ReadSizes : Read(p) \/ ReadEvent(p)
Handler == Reading \/ RecvWaits \/ RecvFails \/ BufferEvent

Client == Send \/ GetStreamUpdate \/ GetConnUpdate \/ GetReset

Finished == hpc = "over" /\ wire = <<>> /\ (fin \/ stopped) /\ UNCHANGED vars

Next ==
  \/ (Client \/ Abort \/ Reader \/ OverflowRST \/ WriteStreamUpdate) /\ UNCHANGED bodyVars
  \/ Handler \/ CloseBody \/ HandlerCloses \/ Finished

Spec == Init /\ [][Next]_vars

\* The client sends what it may and reads what it is sent; the reader reads; the
\* goroutine of push runs; the handler reads on.
FairSpec ==
  /\ Spec
  /\ WF_vars(Send /\ UNCHANGED bodyVars)
  /\ WF_vars((GetStreamUpdate \/ GetConnUpdate \/ GetReset) /\ UNCHANGED bodyVars)
  /\ WF_vars(Reader /\ UNCHANGED bodyVars) /\ WF_vars(OverflowRST /\ UNCHANGED bodyVars)
  /\ WF_vars(Handler) /\ WF_vars(WriteStreamUpdate /\ UNCHANGED bodyVars)

-----------------------------------------------------------------------------
(* Properties *)

\* Octets of the body that Recv has handed over.
Taken == Body - todo - Octets(wire) - Octets(events)

\* What a handler reads is what its client sent: nothing is lost or repeated between
\* the events, the leftover of a short Read and the caller; the end of the body is
\* reported only when all of it has been handed over; and no octet beyond
\* MaxRequestBodyBytes is held or handed over, nor a body within it refused.  (An event
\* that push drops is the exception: see NoGapInBody in StreamLifecycle.)
BodyAsSent ==
  /\ limit >= 0 => delivered + buf <= limit
  /\ ~ dropped =>
       /\ live /\ result \in {"none", "closed"} => delivered + buf = Taken
       /\ result = "eof" => delivered = Body /\ buf = 0
       /\ result = "toolarge" => limit >= 0 /\ Taken > limit

\* An upload to a handler that reads it completes or is cut short, unless padding, or a
\* small advertised window, has left less credit than the refund threshold: only then
\* does the client wait for credit that does not come.
UploadCompletes ==
  <>(result # "none" \/ hpc = "over" \/ StreamCredit < recvWindowRefundThreshold)

-----------------------------------------------------------------------------
(* A claim of the source that does not hold *)

\* stream_body.go:133, "Subsequent reads return EOF": what an earlier event left in the
\* buffer is still handed out.
ClosedReadsNothing == [][result = "closed" => delivered' = delivered]_vars
=============================================================================
