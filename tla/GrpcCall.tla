------------------------------ MODULE GrpcCall ------------------------------
(***************************************************************************)
(* A gRPC call over an Exchange: ServiceRegistrar.Handler and the four     *)
(* dispatch helpers of grpcserver/service.go, with the message framing of  *)
(* grpcserver/framing.go, under an application method that receives,       *)
(* sends, returns, fails or panics as it likes.                            *)
(*                                                                         *)
(* The request body is a sequence of items: "msg" and "nil" (a message of  *)
(* length 0) are well formed; "packed" has the compressed flag, "long" is  *)
(* over maxRecvMessageSize, "bare" is a header whose payload never came,   *)
(* and "cut" ends inside its header or its payload.                        *)
(***************************************************************************)
EXTENDS Exchange

CONSTANTS
  AppErrors,     \* errors a method returns of its own accord
  MaxDuration    \* the largest time.Duration

ASSUME GrpcAssumption == MaxDuration \in Nat \ {0}

VARIABLE c  \* the call: stage; plan (calls the registrar has still to make); mine (the
            \* last call was the registrar's); rest (items not yet received); recv (the
            \* last result of recv); got, result: history of the application method

grpcVars == <<vars, c>>

GrpcInit ==
  /\ Init
  /\ c = [stage |-> "new", plan |-> <<>>, mine |-> FALSE, rest |-> in.body, recv |-> "msg",
          got |-> <<>>, result |-> "none"]

\* The codes of errToStatus; "unimplemented" and "app" are RPCStatus errors already.
errToStatus(e) ==
  CASE e = "none" -> 0 [] e = "canceled" -> 1 [] e = "deadline" -> 4 [] e = "app" -> 5
    [] e = "toolarge" -> 8 [] e = "unimplemented" -> 12 [] OTHER -> 13

\* A value and a unit (0: not one of H M S m u n), capped; no deadline when absent or 0.
parseGRPCTimeout(t) ==
  IF t.n <= 0 \/ t.unit = 0 THEN [ok |-> FALSE, d |-> 0]
  ELSE [ok |-> TRUE, d |-> IF t.n > MaxDuration \div t.unit THEN MaxDuration ELSE t.n * t.unit]

-----------------------------------------------------------------------------
(* Receiving one message *)

DecodeLPFromBytes(i) ==
  CASE i \in {"msg", "nil"} -> "msg" [] i = "long" -> "toolarge"
    [] i = "packed" -> "unimplemented" [] OTHER -> "malformed"

\* io.ReadFull of the payload gives io.EOF when not one byte of it came.
readStreamingLP(i) == IF i = "bare" THEN "eof" ELSE DecodeLPFromBytes(i)

\* What recv may return now: from the buffered body, or from the stream, where an item
\* that is cut short shows once the peer has ended its half.
streamReceiver ==
  IF ~ in.streaming \/ in.ended
  THEN {IF c.rest = <<>> THEN "eof" ELSE DecodeLPFromBytes(Head(c.rest))}
  ELSE {r \in {IF c.rest = <<>> THEN "eof" ELSE readStreamingLP(Head(c.rest))} :
          half \/ (c.rest # <<>> /\ Head(c.rest) \notin {"cut", "bare"})}
       \cup (IF gone THEN {"canceled", "malformed"} ELSE {})

\* Mutant: a message of length 0 stays in the buffer.
receivedStuck(r) ==
  IF r # "msg" THEN [c EXCEPT !.recv = r]
  ELSE [c EXCEPT !.got = Append(@, Head(c.rest)),
                 !.rest = IF Head(c.rest) = "nil" THEN @ ELSE Tail(@)]

received(r) ==
  IF r # "msg" THEN [c EXCEPT !.recv = r]
  ELSE [c EXCEPT !.got = Append(@, Head(c.rest)), !.rest = Tail(@)]

-----------------------------------------------------------------------------
(* The registrar *)

Registrar == Between /\ in.kind # "app" /\ ~ (c.mine /\ err)

ServerStreams == {"server", "watch"}  \* "watch" is the one of HealthCall
headersCall == [call |-> "headers", code |-> 0]
dataCall == [call |-> "data", code |-> 0]
statusCall(e) == [call |-> "trailers", code |-> errToStatus(e)]

writeGRPCError(e) == <<headersCall, statusCall(e)>>

\* Handler, up to the body: content type and method, then the methods that read as they go.
Dispatch ==
  /\ Registrar /\ c.stage = "new"
  /\ c' = CASE in.kind \in {"badtype", "nomethod"} ->
                 [c EXCEPT !.stage = "over", !.plan = writeGRPCError("unimplemented")]
            [] in.kind \in {"client", "bidi"} ->
                 [c EXCEPT !.stage = "app", !.plan = <<headersCall>>]
            [] OTHER -> [c EXCEPT !.stage = "read"]
  /\ UNCHANGED vars

\* The one message of a unary or server-streaming request; io.EOF is no message.
ReadRequest ==
  /\ Registrar /\ c.stage = "read"
  /\ \E r \in streamReceiver :
       c' = IF r \in {"msg", "eof"}
            THEN [received(r) EXCEPT
                    !.stage = "app",
                    !.plan = IF in.kind \in ServerStreams THEN <<headersCall>> ELSE <<>>]
            ELSE [received(r) EXCEPT !.stage = "over", !.plan = writeGRPCError(r)]
  /\ UNCHANGED vars

\* The registrar makes the next call of its plan.
PlannedCall ==
  /\ Registrar /\ c.plan # <<>>
  /\ LET p == Head(c.plan) IN
     \/ p.call = "headers" /\ callHeaders(200, Plain(200), FALSE)
     \/ p.call = "data" /\ callData(calls)
     \/ p.call = "trailers" /\ callTrailers(p.code)
  /\ c' = [c EXCEPT !.plan = Tail(@), !.mine = TRUE]
  /\ UNCHANGED calls

\* A failed call of the registrar is returned as it is.
PlannedCallFailed ==
  /\ Between /\ in.kind # "app" /\ c.mine /\ err
  /\ Return("err") /\ UNCHANGED <<c, calls>>

HandlerReturns ==
  /\ Registrar /\ c.stage = "over" /\ c.plan = <<>>
  /\ Return("ok") /\ UNCHANGED <<c, calls>>

-----------------------------------------------------------------------------
(* The application method *)

InMethod == Registrar /\ c.stage = "app" /\ c.plan = <<>>
Method == InMethod /\ in.kind # "watch"

\* recv, until it has returned an error.
MethodReceives ==
  /\ Method /\ in.kind \in {"client", "bidi"} /\ c.recv = "msg"
  /\ \E r \in streamReceiver : c' = received(r)
  /\ UNCHANGED vars

\* send; the method may ignore its error.
MethodSends ==
  /\ Method /\ in.kind \in {"server", "bidi"} /\ calls < MaxCalls
  /\ calls' = calls + 1 /\ callData(calls)
  /\ c' = [c EXCEPT !.mine = FALSE]

\* What a method may return: success, its own error, or one that recv or send gave it.
Results ==
  {"none"} \cup AppErrors
  \cup (IF parseGRPCTimeout(in.timeout).ok THEN {"deadline"} ELSE {})
  \cup (IF c.recv \in {"msg", "eof"} THEN {} ELSE {c.recv})
  \cup (IF err THEN {"other"} ELSE {})

\* Mutant: what follows a failure in mid-stream is the success status.
resultCallsOK(e, payload) ==
  IF e # "none" /\ ~ w.written THEN writeGRPCError(e)
  ELSE (IF in.kind = "unary" THEN <<headersCall>> ELSE <<>>)
       \o (IF payload THEN <<dataCall>> ELSE <<>>) \o <<statusCall("none")>>

\* handleUnary, handleServerStream, handleClientStream and handleBidiStream, once the
\* method has returned an error or an optional payload.
resultCalls(e, payload) ==
  IF e # "none" THEN writeGRPCError(e)
  ELSE (IF in.kind = "unary" THEN <<headersCall>> ELSE <<>>)
       \o (IF payload THEN <<dataCall>> ELSE <<>>) \o <<statusCall("none")>>

returns(e, payload) ==
  /\ c' = [c EXCEPT !.stage = "over", !.plan = resultCalls(e, payload), !.mine = FALSE,
                    !.result = e]
  /\ UNCHANGED vars

MethodReturns ==
  /\ Method
  /\ \E e \in Results, payload \in BOOLEAN :
       (payload => in.kind \in {"unary", "client"}) /\ returns(e, payload)

MethodPanics ==
  /\ Method /\ Return("panic") /\ UNCHANGED <<c, calls>>

GrpcHandler ==
  \/ Dispatch \/ ReadRequest \/ PlannedCall \/ PlannedCallFailed \/ HandlerReturns
  \/ MethodReceives \/ MethodSends \/ MethodReturns \/ MethodPanics

ExchangeStep == (Serve \/ AppCall \/ AppReturn \/ PeerEnds) /\ UNCHANGED c

GrpcNext == ExchangeStep \/ (Lose /\ UNCHANGED c) \/ GrpcHandler

-----------------------------------------------------------------------------
(* Properties *)

\* Every exchange comes to its end: no handler, wrapper or client is left waiting for
\* another, in particular the client that expects a 100 before it sends its body.  (A
\* Watch of the health service lasts as long as its client.)
EveryExchangeEnds == []<>(pc = "done" \/ in.kind = "watch")

\* The error that ends a call before its method is called.
Refusal ==
  IF in.kind \in {"badtype", "nomethod"} THEN "unimplemented"
  ELSE IF in.kind \in {"unary"} \cup ServerStreams /\ in.body # <<>>
  THEN CASE in.body[1] = "packed" -> "unimplemented" [] in.body[1] = "long" -> "toolarge"
         [] in.body[1] = "cut" \/ (in.body[1] = "bare" /\ ~ in.streaming) -> "malformed"
         [] OTHER -> "none"
  ELSE "none"

\* The deadline a call gets is the one its client asked for, or the longest there is:
\* never zero or in the past.
DeadlineKept ==
  LET t == in.timeout  p == parseGRPCTimeout(t) IN
  p.ok => p.d > 0 /\ (p.d = t.n * t.unit \/ (p.d = MaxDuration /\ t.n * t.unit > MaxDuration))

\* A gRPC call whose response is complete carries exactly one grpc-status, in its last
\* frame: the error that refused it, in which case no method was called, or the one its
\* method returned.  DEADLINE_EXCEEDED is only for a call with a timeout that is
\* positive, and as long as was asked or at the cap.  A method that panics is not
\* among them: dispatchAndClose answers for it, with a 500 and no grpc-status when
\* nothing was written, which is complete too (see Settled).
OneGrpcStatus ==
  /\ DeadlineKept
  /\ (in.kind # "app" /\ Complete /\ outcome \in {"ok", "err"}) =>
       LET said == SelectSeq(wire, LAMBDA f : f.grpc # NoStatus) IN
       /\ said = <<Last(wire)>>
       /\ Refusal # "none" => c.result = "none" /\ Body = <<>>
       /\ Last(wire).grpc = errToStatus(IF Refusal # "none" THEN Refusal ELSE c.result)

\* A method gets the messages of its client in order and each once, the empty ones too,
\* and hears the end of the stream only after the last of them.  A header with no
\* payload behind it is the exception: see EofIsClean.
ReceivedInOrder ==
  in.kind # "app" =>
    /\ IsPrefix(c.got, in.body) /\ c.got \o c.rest = in.body
    /\ c.recv = "eof" => c.rest = <<>> \/ (Head(c.rest) = "bare" /\ in.streaming)

-----------------------------------------------------------------------------
(* A claim of the source that does not hold *)

\* service.go:488, "Returns io.EOF when the stream closes cleanly between messages": so
\* it does when the stream ends after a header, before the first byte of its payload.
EofIsClean == (in.kind # "app" /\ c.recv = "eof") => c.rest = <<>>
=============================================================================
