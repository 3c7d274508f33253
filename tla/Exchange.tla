------------------------------ MODULE Exchange ------------------------------
(***************************************************************************)
(* The response side of one HTTP/2 request: serveStream and                *)
(* dispatchAndClose of server/server.go, the responseWriter of             *)
(* server/handler.go, and the buffering wrapper of middleware/gzip.go,     *)
(* under a handler that makes any sequence of calls on its ResponseWriter. *)
(*                                                                         *)
(* A call of the handler becomes the sequence of calls on the concrete     *)
(* responseWriter it leads to (todo), executed one at a time: the stream   *)
(* can be reset, or its connection lost, between any two of them.          *)
(***************************************************************************)
EXTENDS Integers, Sequences, SequencesExt

CONSTANTS
  Inputs,     \* what a request and its handler may be: the fields of `in'
  Statuses,   \* statuses a handler passes
  MinSize,    \* GzipConfig.MinSize: a chunk of the body counts as one byte
  MaxCalls    \* bound: calls of a handler

ASSUME ConstantsAssumption ==
  Statuses \subseteq 100..599 /\ MinSize \in Nat \ {0} /\ MaxCalls \in Nat

VARIABLES
  in,       \* kind, head, gzip (wrapped and accepted), http (the handler uses the stdlib
            \* calls, else the native ones), expect, misdirected, ended (END_STREAM with
            \* the HEADERS), streaming; of the handler's own header fields: coded (a
            \* Content-Encoding), sized (a Content-Length), fits (in one frame);
            \* packs (gzip accepts the configured level)
  pc,       \* the goroutine of the stream
  w,        \* responseWriter: written, status
  g,        \* gzipResponseWriter
  todo,     \* calls on the concrete writer still to be made
  err,      \* the call in progress has failed
  wire,     \* frames the peer gets on the stream
  half,     \* the peer has ended its half
  gone,     \* the peer has reset the stream, or the connection is closed
  rst,      \* this side has sent RST_STREAM
  calls, wrote, late, first, outcome  \* history of the handler: how many calls, the chunks
            \* written with success, whether one came after a flush of the wrapper, the
            \* first final status, how it ended

handlerVars == <<calls, wrote, late, first, outcome>>
vars == <<in, pc, w, g, todo, err, wire, half, gone, rst, handlerVars>>

InterimStatus(s) == 100 <= s /\ s <= 199

\* Frames: a header or trailer section, and DATA.
NoStatus == -1
Fields(status, coding, sized, grpc) ==
  [type |-> "H", status |-> status, coding |-> coding, sized |-> sized, grpc |-> grpc,
   gz |-> FALSE, body |-> <<>>, fin |-> FALSE]
Plain(status) == Fields(status, "none", FALSE, NoStatus)
Chunks(body, gz) == [Plain(0) EXCEPT !.type = "D", !.gz = gz, !.body = body]
Trailers(grpc) == [Fields(0, "none", FALSE, grpc) EXCEPT !.fin = TRUE]

\* A call on the concrete writer: what it sends, whether the handler's own fields
\* are in it, and whether its failure ends the call it is part of.
Op(op, f, own, stop) == [op |-> op, f |-> f, own |-> own, stop |-> stop]
headersOp(f, own) == Op("headers", f, own, ~ in.http)
dataOp(body, gz) == Op("data", Chunks(body, gz), FALSE, TRUE)
trailersOp(grpc) == Op("trailers", Trailers(grpc), FALSE, TRUE)
closeOp == Op("close", Plain(0), FALSE, FALSE)
Ignoring(op) == [op EXCEPT !.stop = FALSE]

\* The handler's own header section, as the stdlib calls send it.
OwnFields(s) == Fields(s, IF in.coded THEN "own" ELSE "none", in.sized, NoStatus)

\* A whole response of the server's own: status, END_STREAM, Close.
answer(s) == <<Ignoring(headersOp(Plain(s), FALSE)), Ignoring(trailersOp(NoStatus)), closeOp>>

Init ==
  /\ in \in Inputs
  /\ pc = "start" /\ w = [written |-> FALSE, status |-> 0]
  /\ g = [wroteHeader |-> FALSE, status |-> 0, own |-> FALSE, buf |-> <<>>, flushed |-> FALSE]
  /\ todo = <<>> /\ err = FALSE /\ wire = <<>>
  /\ half = in.ended /\ gone = FALSE /\ rst = FALSE
  /\ calls = 0 /\ wrote = <<>> /\ late = FALSE /\ first = 0 /\ outcome = "none"

-----------------------------------------------------------------------------
(* middleware/gzip.go, between the handler and the responseWriter *)

\* alreadyEncoded looks at the fields flush is about to use.
alreadyEncoded == in.coded /\ (in.http \/ g.own)

\* A level gzip does not accept makes gzipCompress fail: the body stays as it is.
compress == ~ in.head /\ Len(g.buf) >= MinSize /\ ~ alreadyEncoded /\ in.packs

\* The header section of flushNative and flushHTTP: a compressed body, and a HEAD
\* response, lose the handler's Content-Length.
flushFields(z) ==
  Fields(g.status, IF z THEN "gzip" ELSE IF alreadyEncoded THEN "own" ELSE "none",
         in.sized /\ (in.http \/ g.own) /\ ~ z /\ ~ in.head, NoStatus)

\* Mutant: the last status wins.
capturedLast(s, own) == [g EXCEPT !.wroteHeader = TRUE, !.status = s, !.own = own]

\* gzipResponseWriter.WriteHeaders and WriteHeader keep the first status.
captured(s, own) ==
  IF g.wroteHeader THEN g ELSE [g EXCEPT !.wroteHeader = TRUE, !.status = s, !.own = own]

\* gzipResponseWriter.flush: what it calls, the first time.
flush ==
  IF ~ in.gzip \/ g.flushed \/ ~ g.wroteHeader THEN <<>>
  ELSE <<headersOp(flushFields(compress), in.http \/ g.own)>>
       \o (IF g.buf = <<>> THEN <<>> ELSE <<dataOp(g.buf, compress)>>)

-----------------------------------------------------------------------------
(* The stream *)

LocalEnded == wire # <<>> /\ Last(wire).fin
Writable == ~ gone /\ ~ rst /\ ~ LocalEnded

\* The peer resets the stream, or the connection is closed.
Lose ==
  /\ ~ gone /\ pc # "done" /\ gone' = TRUE
  /\ UNCHANGED <<in, pc, w, g, todo, err, wire, half, rst, handlerVars>>

\* The peer of a streaming handler ends its half at any time.
PeerEnds ==
  /\ in.streaming /\ ~ half /\ ~ gone /\ pc # "done" /\ half' = TRUE
  /\ UNCHANGED <<in, pc, w, g, todo, err, wire, gone, rst, handlerVars>>

\* One call on the concrete writer returns: nothing to send, sent, or failed.
skip == todo' = Tail(todo) /\ UNCHANGED <<err, wire>>
send(f) == todo' = Tail(todo) /\ wire' = Append(wire, f) /\ UNCHANGED err
fail == /\ err' = (err \/ Head(todo).stop)
        /\ todo' = IF Head(todo).stop THEN <<>> ELSE Tail(todo)
        /\ UNCHANGED wire
stepVars == <<in, pc, g, half, gone, calls, late, first, outcome>>
Doing(op) == todo # <<>> /\ Head(todo).op = op

\* Mutant: a status is latched when it is interim too.
declinesNothing(s) == w.written

\* WriteHeaders and WriteHeader do nothing once written, or for an interim status.
declines(s) == w.written \/ InterimStatus(s)

\* responseWriter.WriteHeaders and WriteHeader.
WriteHeaders ==
  /\ Doing("headers")
  /\ LET o == Head(todo) IN
     IF declines(o.f.status) THEN skip /\ UNCHANGED w
     ELSE /\ w' = [written |-> TRUE, status |-> o.f.status]
          /\ IF Writable /\ (in.fits \/ ~ o.own) THEN send(o.f) ELSE fail
  /\ UNCHANGED <<stepVars, rst, wrote>>

\* What the first Write or WriteData sends ahead of the body; by then flushHTTP has
\* changed the handler's header map.
implicitOK(o) ==
  headersOp(IF ~ in.http THEN Plain(200)
            ELSE IF in.gzip THEN [flushFields(o.f.gz) EXCEPT !.status = 200]
            ELSE OwnFields(200), in.http)

suppressContent == in.head

\* responseWriter.WriteData and Write.
WriteData ==
  /\ Doing("data")
  /\ LET o == Head(todo)
         counted == IF in.gzip THEN wrote ELSE wrote \o o.f.body
     IN  IF ~ w.written
         THEN todo' = <<implicitOK(o)>> \o todo /\ UNCHANGED <<err, wire, wrote>>
         ELSE IF suppressContent THEN skip /\ wrote' = counted
         ELSE IF Writable THEN send(o.f) /\ wrote' = counted
         ELSE fail /\ UNCHANGED wrote
  /\ UNCHANGED <<stepVars, rst, w>>

\* responseWriter.WriteTrailers does not look at written.
WriteTrailers ==
  /\ Doing("trailers")
  /\ IF Writable THEN send(Head(todo).f) ELSE fail
  /\ UNCHANGED <<stepVars, rst, w, wrote>>

\* Mutant: a stream this side has ended is not reset, though the peer still sends.
StreamCloseHalf ==
  /\ Doing("close") /\ skip
  /\ rst' = (rst \/ (~ gone /\ ~ LocalEnded))
  /\ UNCHANGED <<stepVars, w, wrote>>

\* ServerStream.Close: RST_STREAM unless the stream is over.
StreamClose ==
  /\ Doing("close") /\ skip
  /\ rst' = (rst \/ (~ gone /\ ~ (LocalEnded /\ half)))
  /\ UNCHANGED <<stepVars, w, wrote>>

Writer == WriteHeaders \/ WriteData \/ WriteTrailers \/ StreamClose

-----------------------------------------------------------------------------
(* serveStream, up to the handler.  The HEADERS event is in the channel when *)
(* the stream is accepted, and Recv prefers a buffered event.                *)

Go(loc, ops) ==
  /\ pc' = loc /\ todo' = ops /\ err' = FALSE
  /\ UNCHANGED <<in, w, wire, gone, rst>>

AfterHeaders == IF in.ended \/ in.streaming THEN "handler" ELSE "body"

\* Mutant: the body is awaited without the 100 the client waits for.
RecvHeadersSilent ==
  /\ pc = "start"
  /\ IF in.misdirected THEN Go("closing", answer(421)) ELSE Go(AfterHeaders, <<>>)
  /\ UNCHANGED <<g, half, handlerVars>>

RecvHeaders ==
  /\ pc = "start"
  /\ IF in.misdirected THEN Go("closing", answer(421))
     ELSE IF in.expect /\ ~ in.ended
     THEN Go("continue", <<Op("interim", Plain(100), FALSE, TRUE)>>)
     ELSE Go(AfterHeaders, <<>>)
  /\ UNCHANGED <<g, half, handlerVars>>

\* The 100 goes past the responseWriter, straight to the stream.
SendInterim ==
  /\ Doing("interim")
  /\ IF Writable THEN send(Head(todo).f) ELSE fail
  /\ UNCHANGED <<stepVars, rst, w, wrote>>

Continued ==
  /\ pc = "continue" /\ todo = <<>>
  /\ IF err THEN Go("closing", <<closeOp>>) ELSE Go(AfterHeaders, <<>>)
  /\ UNCHANGED <<g, half, handlerVars>>

\* A client that expects a 100 sends its body once it has it.
ClientSends == in.expect => wire # <<>>

\* serveStreamBuffered: the body arrives to its end ...
BodyEnds ==
  /\ pc = "body" /\ ClientSends /\ Go("handler", <<>>) /\ half' = TRUE
  /\ UNCHANGED <<g, handlerVars>>

\* ... or grows past MaxRequestBodyBytes (rejectTooLarge) ...
BodyTooLarge ==
  /\ pc = "body" /\ ClientSends /\ Go("closing", answer(413))
  /\ UNCHANGED <<g, half, handlerVars>>

\* ... or a reset event comes first, or Recv fails.
BodyLost ==
  /\ pc = "body" /\ gone
  /\ Go("closing", <<closeOp>>) \/ Go("done", <<>>)
  /\ UNCHANGED <<g, half, handlerVars>>

-----------------------------------------------------------------------------
(* The calls of a handler *)

Calling(ops) == Go("handler", ops) /\ UNCHANGED <<half, outcome>>
Between == pc = "handler" /\ todo = <<>>

\* WriteHeaders or WriteHeader.
callHeaders(s, f, own) ==
  /\ first' = IF first = 0 /\ ~ InterimStatus(s) THEN s ELSE first
  /\ IF in.gzip
     THEN g' = captured(s, own) /\ Calling(<<>>)
     ELSE Calling(<<headersOp(f, own)>>) /\ UNCHANGED g
  /\ late' = (late \/ (g.flushed /\ ~ g.wroteHeader))
  /\ UNCHANGED wrote

\* WriteData or Write, of chunk c.
callData(c) ==
  /\ first' = IF first = 0 THEN 200 ELSE first
  /\ IF in.gzip
     THEN /\ g' = [g EXCEPT !.wroteHeader = TRUE, !.buf = Append(@, c),
                            !.status = IF g.wroteHeader THEN @ ELSE 200]
          /\ wrote' = Append(wrote, c) /\ late' = (late \/ g.flushed)
          /\ Calling(<<>>)
     ELSE Calling(<<dataOp(<<c>>, FALSE)>>) /\ UNCHANGED <<g, wrote, late>>

\* WriteTrailers: the wrapper flushes first.
callTrailers(grpc) ==
  /\ Calling(flush \o <<trailersOp(grpc)>>)
  /\ g' = [g EXCEPT !.flushed = in.gzip]
  /\ UNCHANGED <<first, wrote, late>>

\* Flush: nothing to do for the concrete writer.
callFlush ==
  /\ Calling(flush)
  /\ g' = [g EXCEPT !.flushed = in.gzip]
  /\ UNCHANGED <<first, wrote, late>>

\* ServeHTTP returns an error or not, or panics; the wrapper flushes as it unwinds.
Return(how) ==
  /\ Go("unwind", flush) /\ outcome' = how
  /\ g' = [g EXCEPT !.flushed = in.gzip]
  /\ UNCHANGED <<half, wrote, late, first>>

\* An application handler: any calls, and any ending.
AppCall ==
  /\ Between /\ in.kind = "app" /\ calls < MaxCalls
  /\ calls' = calls + 1
  /\ \/ \E s \in Statuses : callHeaders(s, OwnFields(s), TRUE)
     \/ callData(calls) \/ callFlush \/ callTrailers(0)

AppReturn ==
  /\ Between /\ in.kind = "app"
  /\ \E how \in {"ok", "err", "panic"} : Return(how)
  /\ UNCHANGED calls

\* The rest of dispatchAndClose, once ServeHTTP is over.
Finish ==
  /\ pc = "unwind" /\ todo = <<>>
  /\ LET status == IF outcome = "ok" THEN 200 ELSE 500
         all == answer(status)
     IN  Go("closing", IF ~ w.written THEN all
                       ELSE IF outcome = "panic" THEN <<closeOp>> ELSE Tail(all))
  /\ UNCHANGED <<g, half, handlerVars>>

Done ==
  /\ pc = "closing" /\ todo = <<>> /\ Go("done", <<>>)
  /\ UNCHANGED <<g, half, handlerVars>>

Serve ==
  \/ Writer \/ RecvHeaders \/ SendInterim \/ Continued
  \/ BodyEnds \/ BodyTooLarge \/ BodyLost \/ Finish \/ Done

-----------------------------------------------------------------------------
(* Properties *)

\* The header section of the final response: the first after a 100.
FinalAt == IF wire # <<>> /\ wire[1].status = 100 THEN 2 ELSE 1
Sent == SelectSeq(wire, LAMBDA f : f.type = "D")
Body == FoldLeft(LAMBDA b, f : b \o f.body, <<>>, Sent)

\* The wrapper takes an interim status for the final one: see GzipDeclinesInterim.
Misled == in.gzip /\ InterimStatus(g.status)

\* However a handler calls its ResponseWriter, and however it ends, what goes out is at
\* most the 100 of serveStream, one header section, DATA, and one section with
\* END_STREAM that nothing follows; no DATA for HEAD.  The header section comes first
\* and has a final status; a body is compressed exactly when it says so, and it then
\* has no Content-Length.  Three things the code does not prevent are left out: a
\* handler of the application that sends trailers first (see TrailersTrail), a header
\* section that does not fit and is missing from the response (see WrittenMeansSent),
\* and the coding of a body whose interim status the wrapper has taken
\* (see GzipDeclinesInterim).
WellFormedResponse ==
  /\ \A i \in DOMAIN wire :
       /\ wire[i].fin => i = Len(wire)
       /\ wire[i].type = "H" /\ ~ wire[i].fin => i <= FinalAt
       /\ wire[i].type = "D" => ~ in.head
  /\ (in.fits /\ Len(wire) >= FinalAt) =>
       LET h == wire[FinalAt] IN
       /\ h.type = "H"
       /\ h.fin => in.kind = "app" /\ h.grpc # NoStatus
       /\ ~ h.fin => h.status # 0 /\ ~ InterimStatus(h.status)
       /\ \A i \in DOMAIN wire :
            (wire[i].type = "D" /\ ~ (Misled /\ ~ in.http)) =>
              (wire[i].gz <=> h.coding = "gzip")
       /\ (h.coding = "gzip" \/ (in.gzip /\ in.head)) => ~ h.sized

Complete == pc = "done" /\ ~ gone /\ LocalEnded

\* A response that went out to its end is the one the handler wrote: its first final
\* status, or 200, or 500 when it failed before any; and what it wrote, whole and in
\* order.  A handler that ends its own response before its header section, or writes
\* through the wrapper after a flush, is out of luck (see TrailersTrail and
\* NothingStranded).
ResponseAsWritten ==
  (Complete /\ in.fits /\ ~ Misled /\ ~ late /\ outcome # "none" /\ ~ wire[FinalAt].fin) =>
    /\ wire[FinalAt].status = IF first # 0 THEN first
                              ELSE IF outcome = "ok" THEN 200 ELSE 500
    /\ ~ in.head => Body = wrote

\* How an exchange ends: when its goroutine is done the stream is over on both sides,
\* or has been reset by one of them; and a handler that panicked after it had begun to
\* answer never looks complete, unless it ended the response itself (0 in its trailers).
Settled ==
  pc = "done" =>
    /\ gone \/ rst \/ (LocalEnded /\ half)
    /\ (outcome = "panic" /\ LocalEnded /\ Last(wire).grpc = NoStatus) =>
         wire[FinalAt].status = 500 /\ Body = <<>>

-----------------------------------------------------------------------------
(* Claims of the source that do not hold *)

\* handler.go:328, "WriteTrailers sends trailing headers": it does not look at written,
\* so a handler that calls it first ends a response that has no status.
TrailersTrail == \A i \in DOMAIN wire : wire[i].fin => i > FinalAt

\* gzip.go:332, "the gzip buffer is emitted first so flushing does not strand the
\* compressed body": what is written after a Flush stays in the buffer for good.
NothingStranded == (Complete /\ ~ in.head /\ outcome = "ok") => Body = wrote

\* gzip.go:171, "idempotent, mirroring the concrete writer": the concrete writer
\* declines an interim status, the wrapper takes it for the final one.
GzipDeclinesInterim == ~ Misled

\* handler.go:418, "Written reports whether headers have been sent": it is set ahead of
\* a send that fails when the section does not fit, and DATA then goes out without it.
WrittenMeansSent == (w.written /\ ~ gone /\ pc # "closing") => wire # <<>>
=============================================================================
