-------------------------------- MODULE Http3 --------------------------------
(***************************************************************************)
(* One HTTP/3 connection: serveConn's loop and the connection state of     *)
(* http3server/control.go, with one goroutine per request stream running   *)
(* serveRequest.                                                           *)
(*                                                                         *)
(* The QUIC transport is external and modelled by what the code relies on: *)
(* only Poll puts received bytes into the streams, one datagram at a time; *)
(* Recv drains a stream, RecvState reports its end, CloseWithError keeps   *)
(* the first code, and a closed connection wakes Poll and WaitReadable.    *)
(* What the peer puts on each stream is its script, fixed at the start;    *)
(* how it is cut into datagrams, and what overtakes what, is not.          *)
(***************************************************************************)
EXTENDS Http3Message, FiniteSets

CONSTANTS
  Uni, Requests,     \* stream numbers: the peer's unidirectional and request streams
  Scripts,           \* what the peer may send: for each stream, [items, end]
  maxRequestBytes,   \* a frame counts as one byte
  maxFieldSection,
  Sizes,             \* field-section sizes of a handler's response
  RefusalSize,       \* the field-section size of the 413 and the 431
  Statuses,          \* statuses a handler passes to WriteHeader
  MaxWrites          \* bound: WriteHeader and Write calls of a handler

ASSUME ConstantsAssumption ==
  /\ Uni \subseteq Nat /\ Requests \subseteq Nat /\ Uni \cap Requests = {}
  /\ {maxRequestBytes, maxFieldSection, RefusalSize, MaxWrites} \subseteq Nat
  /\ Sizes \subseteq Nat /\ Statuses \subseteq 100..599

Streams == Uni \cup Requests
None == 0            \* no stream
NoLimit == -1

VARIABLES
  script,   \* the peer: what it sends on each stream
  sent,     \* transport: how many items of each stream have arrived
  ended,    \* transport: the streams whose FIN or RESET_STREAM has arrived
  taken,    \* transport: how many items Recv has handed out
  stopped,  \* transport: the streams STOP_SENDING was sent on
  closed,   \* transport: "open", or the code the connection was closed with
  ctxDone,  \* the context of Serve is cancelled
  pc,       \* serveConn
  cs,       \* connState
  rq,       \* each request goroutine
  out,      \* what the peer has been told on each request stream
  told      \* history: the field-section limit each response is bound by

wireVars == <<script, sent, ended>>
vars == <<wireVars, taken, stopped, closed, ctxDone, pc, cs, rq, out, told>>

\* Two pieces make up the stream-type varint.
TypeLen == 2
Received(s) == SubSeq(script[s].items, 1, sent[s])
Unread(s) == SubSeq(script[s].items, taken[s] + 1, sent[s])
Opened(s) == sent[s] > 0 \/ s \in ended
CloseWithError(code) == closed' = IF closed = "open" THEN code ELSE closed

newConnState ==
  [peerMaxFieldSection |-> maxFieldSection, accepted |-> {}, pendingUni |-> <<>>,
   control |-> None, qpackEnc |-> None, qpackDec |-> None, settingsRead |-> FALSE,
   maxPushID |-> 0, goawayID |-> 0, goawaySeen |-> FALSE, fault |-> ""]

NoRequest ==
  [pc |-> "none", finished |-> FALSE, reset |-> FALSE, verdict |-> "",
   status |-> 200, wroteHeader |-> FALSE, writes |-> 0, final |-> 0, size |-> 0]

Init ==
  /\ script \in Scripts
  /\ sent = [s \in Streams |-> 0] /\ ended = {}
  /\ taken = [s \in Streams |-> 0] /\ stopped = {}
  /\ closed = "open" /\ ctxDone = FALSE
  /\ pc = "open" /\ cs = newConnState
  /\ rq = [r \in Requests |-> NoRequest]
  /\ out = [r \in Requests |-> [kind |-> "none", code |-> "", status |-> 0, size |-> 0]]
  /\ told = [r \in Requests |-> NoLimit]

-----------------------------------------------------------------------------
(* The environment *)

\* The peer closes the connection, or the transport gives it up.
PeerCloses ==
  /\ closed = "open" /\ closed' = "peer"
  /\ UNCHANGED <<wireVars, taken, stopped, ctxDone, pc, cs, rq, out, told>>

CancelContext ==
  /\ ~ ctxDone /\ ctxDone' = TRUE
  /\ UNCHANGED <<wireVars, taken, stopped, closed, pc, cs, rq, out, told>>

\* The limits stated by SETTINGS frames that have arrived as the first control frame.
StatedLimits ==
  {script[u].items[TypeLen + 1].n : u \in
     {v \in Uni : /\ sent[v] > TypeLen /\ script[v].items[TypeLen].type = "control"
                  /\ script[v].items[TypeLen + 1].type = "SETTINGS"
                  /\ script[v].items[TypeLen + 1].form = "ok"}} \ {NoLimit}

-----------------------------------------------------------------------------
(* serveConn *)

OpenControlStream ==
  /\ pc = "open"
  /\ pc' = IF closed = "open" THEN "poll" ELSE "close"
  /\ UNCHANGED <<wireVars, taken, stopped, closed, ctxDone, cs, rq, out, told>>

\* How far a datagram may take stream s: items, and whether the end is among them.
Arrivals(s) ==
  {x \in (sent[s]..Len(script[s].items)) \X BOOLEAN :
     /\ x # <<sent[s], s \in ended>>
     /\ x[2] => x[1] = Len(script[s].items) /\ script[s].end # "open"}

\* Poll takes in one datagram, with frames of one or two streams.
Poll ==
  /\ pc = "poll" /\ closed = "open"
  /\ \E s, t \in Streams : s <= t /\ \E x \in Arrivals(s), y \in Arrivals(t) :
       /\ s = t => x = y
       /\ sent' = [sent EXCEPT ![s] = x[1], ![t] = y[1]]
       /\ ended' = ended \cup {u \in {s} : x[2]} \cup {u \in {t} : y[2]}
  /\ pc' = "service"
  /\ UNCHANGED <<script, taken, stopped, closed, ctxDone, cs, rq, out>>
  /\ told' = [r \in Requests |->
                IF Opened(r) \/ ~ Opened(r)' \/ StatedLimits' = {} THEN told[r]
                ELSE CHOOSE n \in StatedLimits' : TRUE]

\* Poll fails: idle timeout, peer close, a close of our own, or the context.
PollFails ==
  /\ pc = "poll" /\ (closed # "open" \/ ctxDone)
  /\ pc' = "close"
  /\ UNCHANGED <<wireVars, taken, stopped, closed, ctxDone, cs, rq, out, told>>

\* identifierFault: the code frame f calls for, "" when it is acceptable.
identifierFault(st, f) ==
  CASE f.form = "bad" -> "H3_FRAME_ERROR"
    [] f.type = "CANCEL_PUSH" -> "H3_ID_ERROR"
    [] f.type = "MAX_PUSH_ID" /\ f.n < st.maxPushID -> "H3_ID_ERROR"
    [] f.type = "GOAWAY" /\ st.goawaySeen /\ f.n > st.goawayID -> "H3_ID_ERROR"
    [] OTHER -> ""

applySettings(st, f) ==
  IF f.n = NoLimit THEN st ELSE [st EXCEPT !.peerMaxFieldSection = f.n]

\* The identifiers the rules of later frames are checked against.
noteIdentifier(st, f) ==
  IF f.type = "GOAWAY" THEN [st EXCEPT !.goawayID = f.n, !.goawaySeen = TRUE]
  ELSE [st EXCEPT !.maxPushID = f.n]

\* One turn of the loop of readControl; a fault is a return of connError.
readControlFrame(st, f) ==
  CASE st.fault # "" -> st
    [] f.type = "LONG" -> [st EXCEPT !.fault = "H3_EXCESSIVE_LOAD"]
    [] ~ st.settingsRead ->
         IF f.type # "SETTINGS" THEN [st EXCEPT !.fault = "H3_MISSING_SETTINGS"]
         ELSE IF f.form = "cut" THEN [st EXCEPT !.fault = "H3_FRAME_ERROR"]
         ELSE IF f.form # "ok" THEN [st EXCEPT !.fault = "H3_SETTINGS_ERROR"]
         ELSE [applySettings(st, f) EXCEPT !.settingsRead = TRUE]
    [] f.type \in {"SETTINGS", "DATA", "HEADERS", "PUSH_PROMISE"} ->
         [st EXCEPT !.fault = "H3_FRAME_UNEXPECTED"]
    [] f.type \in {"CANCEL_PUSH", "MAX_PUSH_ID", "GOAWAY"} ->
         IF identifierFault(st, f) # "" THEN [st EXCEPT !.fault = identifierFault(st, f)]
         ELSE noteIdentifier(st, f)
    [] OTHER -> st

\* Mutant: the frames that came with the stream type are not fed to the reader.
restDropped(u) == <<>>

\* The bytes of u after its type varint.
rest(u) == SubSeq(Received(u), TypeLen + 1, sent[u])

\* readControl, on the frames routeUni fed it or on the ones just received.
readControl(st, routed) ==
  IF st.control = None THEN st
  ELSE FoldLeft(readControlFrame, st, IF st.control \in routed THEN rest(st.control)
                                      ELSE Unread(st.control))

\* routeUni, for a stream u whose type has arrived.
routeUni(st, u) ==
  LET typ == script[u].items[TypeLen].type
      creationError == [st EXCEPT !.fault = "H3_STREAM_CREATION_ERROR"]
  IN  CASE typ = "control" -> IF st.control # None THEN creationError
                              ELSE [st EXCEPT !.control = u]
        [] typ = "encoder" -> IF st.qpackEnc # None THEN creationError
                              ELSE [st EXCEPT !.qpackEnc = u]
        [] typ = "decoder" -> IF st.qpackDec # None THEN creationError
                              ELSE [st EXCEPT !.qpackDec = u]
        [] typ = "push" -> creationError
        [] OTHER -> st

\* One turn of the loop of serviceUni over the pending streams.
routePending(st, u) ==
  IF st.fault # "" THEN st
  ELSE IF sent[u] < TypeLen THEN [st EXCEPT !.pendingUni = Append(@, u)]
  ELSE routeUni(st, u)

checkCriticalStreams(st) ==
  IF st.fault = "" /\ \E u \in {st.control, st.qpackEnc, st.qpackDec} : u \in ended
  THEN [st EXCEPT !.fault = "H3_CLOSED_CRITICAL_STREAM"] ELSE st

\* serviceUni: accept, route, drain the QPACK streams, read the control stream.
ServiceUni ==
  /\ pc = "service"
  /\ LET new == {u \in Uni : Opened(u)} \ cs.accepted
         pending == cs.pendingUni \o SetToSortSeq(new, <)
         routed == {pending[i] : i \in DOMAIN pending}
     IN  \E st \in {FoldLeft(routePending, [cs EXCEPT !.accepted = @ \cup new,
                                                   !.pendingUni = <<>>], pending)} :
         \E end \in {checkCriticalStreams(readControl(st, routed))} :
           /\ cs' = end
           /\ taken' = [u \in Streams |->
                IF u \in routed \cup {st.control, st.qpackEnc, st.qpackDec}
                THEN sent[u] ELSE taken[u]]
           /\ stopped' = stopped \cup {u \in routed : sent[u] >= TypeLen /\
                                         script[u].items[TypeLen].type = "grease"}
           /\ IF end.fault = "" THEN pc' = "accept" /\ UNCHANGED closed
              ELSE pc' = "close" /\ CloseWithError(end.fault)
  /\ told' = [r \in Requests |->
                IF rq[r].pc \in {"send", "done"} \/ StatedLimits = {} THEN told[r]
                ELSE CHOOSE n \in StatedLimits : TRUE]
  /\ UNCHANGED <<wireVars, ctxDone, rq, out>>

\* AcceptBidiStream until there is none, a goroutine for each.
Accept ==
  /\ pc = "accept" /\ pc' = "poll"
  /\ rq' = [r \in Requests |-> IF Opened(r) /\ rq[r].pc = "none"
                               THEN [rq[r] EXCEPT !.pc = "state"] ELSE rq[r]]
  /\ UNCHANGED <<wireVars, taken, stopped, closed, ctxDone, cs, out, told>>

\* The deferred close: the first code stays.
CloseConn ==
  /\ pc = "close" /\ pc' = "done"
  /\ CloseWithError("H3_NO_ERROR")
  /\ UNCHANGED <<wireVars, taken, stopped, ctxDone, cs, rq, out, told>>

-----------------------------------------------------------------------------
(* serveRequest, the goroutine of request stream r *)

at(r, l) == rq[r].pc = l
connVars == <<wireVars, ctxDone, pc, cs, told>>

\* RecvState, before the stream is drained.
RecvState(r) ==
  /\ at(r, "state")
  /\ rq' = [rq EXCEPT ![r].pc = "recv",
                      ![r].finished = r \in ended /\ script[r].end = "fin",
                      ![r].reset = r \in ended /\ script[r].end = "reset"]
  /\ UNCHANGED <<connVars, taken, stopped, closed, out>>

\* The verdict of one turn of readRequestStream and, once the stream is whole,
\* of decodeRequest; "" is WaitReadable.
verdictOn(r) ==
  CASE rq[r].reset -> "H3_REQUEST_INCOMPLETE"
    [] sent[r] > maxRequestBytes -> "413"
    [] rq[r].finished -> decodeRequest(Received(r))
    [] OTHER -> ""

Recv(r) ==
  /\ at(r, "recv")
  /\ taken' = [taken EXCEPT ![r] = sent[r]]
  /\ \E v \in {verdictOn(r)} :
       rq' = [rq EXCEPT ![r].verdict = v, ![r].pc = IF v = "" THEN "wait" ELSE "act"]
  /\ UNCHANGED <<connVars, stopped, closed, out>>

Readable(r) == sent[r] > taken[r] \/ r \in ended

WaitReadable(r) ==
  /\ at(r, "wait") /\ Readable(r)
  /\ rq' = [rq EXCEPT ![r].pc = "state"]
  /\ UNCHANGED <<connVars, taken, stopped, closed, out>>

\* Mutant: a goroutine parked in WaitReadable is woken by the context alone.
AbandonOnContext(r) ==
  /\ at(r, "wait") /\ ctxDone
  /\ rq' = [rq EXCEPT ![r].pc = "act", ![r].verdict = "H3_REQUEST_REJECTED"]
  /\ UNCHANGED <<connVars, taken, stopped, closed, out>>

\* WaitReadable fails: the context is cancelled or the connection has ended.
Abandon(r) ==
  /\ at(r, "wait") /\ (ctxDone \/ closed # "open")
  /\ rq' = [rq EXCEPT ![r].pc = "act", ![r].verdict = "H3_REQUEST_REJECTED"]
  /\ UNCHANGED <<connVars, taken, stopped, closed, out>>

\* What goes out on a stream; a closed connection carries nothing.
tell(r, kind, code, status, size) ==
  out' = IF closed # "open" THEN out
         ELSE [out EXCEPT ![r] = [kind |-> kind, code |-> code,
                                  status |-> status, size |-> size]]

\* rs.Reset, and the goroutine returns.
resetWith(r, code) ==
  /\ tell(r, "reset", code, 0, 0)
  /\ rq' = [rq EXCEPT ![r].pc = "done"]

\* A malformed, incomplete or abandoned request: the stream is reset.
ResetRequest(r) ==
  /\ at(r, "act") /\ rq[r].verdict \in ResetCodes
  /\ resetWith(r, rq[r].verdict)
  /\ UNCHANGED <<connVars, taken, stopped, closed>>

\* An illegal sequence of frames: the connection is closed.
RefuseConn(r) ==
  /\ at(r, "act") /\ rq[r].verdict \in ConnFrameErrors
  /\ CloseWithError(rq[r].verdict)
  /\ rq' = [rq EXCEPT ![r].pc = "done"]
  /\ UNCHANGED <<connVars, taken, stopped, out>>

\* refuseWith: stop the peer sending, then answer 413 or 431.
RefuseWith(r) ==
  /\ at(r, "act") /\ rq[r].verdict \in {"413", "431"}
  /\ stopped' = stopped \cup {r}
  /\ rq' = [rq EXCEPT ![r].pc = "encode", ![r].size = RefusalSize,
                      ![r].status = IF rq[r].verdict = "413" THEN 413 ELSE 431]
  /\ UNCHANGED <<connVars, taken, closed, out>>

StartHandler(r) ==
  /\ at(r, "act") /\ rq[r].verdict = "serve"
  /\ rq' = [rq EXCEPT ![r].pc = "handler"]
  /\ UNCHANGED <<connVars, taken, stopped, closed, out>>

InterimStatus(s) == 100 <= s /\ s <= 199

\* responseWriter.WriteHeader: latched once, an interim status declined.
WriteHeader(r, s) ==
  /\ at(r, "handler") /\ rq[r].writes < MaxWrites
  /\ rq' = [rq EXCEPT ![r].writes = @ + 1,
                      ![r].final = IF @ = 0 /\ ~ InterimStatus(s) THEN s ELSE @,
                      ![r].wroteHeader = @ \/ ~ InterimStatus(s),
                      ![r].status = IF rq[r].wroteHeader \/ InterimStatus(s) THEN @ ELSE s]
  /\ UNCHANGED <<connVars, taken, stopped, closed, out>>

\* responseWriter.Write: an implicit 200.
Write(r) ==
  /\ at(r, "handler") /\ rq[r].writes < MaxWrites
  /\ rq' = [rq EXCEPT ![r].writes = @ + 1,
                      ![r].final = IF @ = 0 THEN 200 ELSE @,
                      ![r].wroteHeader = TRUE,
                      ![r].status = IF rq[r].wroteHeader THEN @ ELSE 200]
  /\ UNCHANGED <<connVars, taken, stopped, closed, out>>

HandlerReturns(r) ==
  /\ at(r, "handler")
  /\ \E n \in Sizes : rq' = [rq EXCEPT ![r].pc = "encode", ![r].size = n]
  /\ UNCHANGED <<connVars, taken, stopped, closed, out>>

\* Mutant: a response is held to this server's own limit only.
limitOwn == maxFieldSection

\* peerMaxFieldSection.Load, when the response is encoded.
limit == cs.peerMaxFieldSection

\* encodeResponse fails: the field section is over the limit.
EncodeFails(r) ==
  /\ at(r, "encode") /\ rq[r].size > limit
  /\ resetWith(r, IF rq[r].verdict = "serve" THEN "H3_INTERNAL_ERROR"
                  ELSE "H3_REQUEST_REJECTED")
  /\ UNCHANGED <<connVars, taken, stopped, closed>>

Encode(r) ==
  /\ at(r, "encode") /\ rq[r].size <= limit
  /\ rq' = [rq EXCEPT ![r].pc = "send"]
  /\ UNCHANGED <<connVars, taken, stopped, closed, out>>

\* Send with FIN; on a closed connection it fails, and so does the reset after it.
Send(r) ==
  /\ at(r, "send")
  /\ tell(r, "response", "", rq[r].status, rq[r].size)
  /\ rq' = [rq EXCEPT ![r].pc = "done"]
  /\ UNCHANGED <<connVars, taken, stopped, closed>>

Request(r) ==
  \/ RecvState(r) \/ Recv(r) \/ WaitReadable(r) \/ Abandon(r)
  \/ ResetRequest(r) \/ RefuseConn(r) \/ RefuseWith(r) \/ StartHandler(r)
  \/ HandlerReturns(r) \/ EncodeFails(r) \/ Encode(r) \/ Send(r)

ServeConn == OpenControlStream \/ PollFails \/ ServiceUni \/ Accept \/ CloseConn

\* Nothing can happen until a silent peer speaks, or all is over.
Quiet ==
  /\ pc = "done" \/ (pc = "poll" /\ \A s \in Streams : Arrivals(s) = {})
  /\ \A r \in Requests : at(r, "none") \/ at(r, "done") \/ (at(r, "wait") /\ ~ Readable(r))
  /\ UNCHANGED vars

Next ==
  \/ ServeConn \/ Poll \/ PeerCloses \/ CancelContext \/ Quiet
  \/ \E r \in Requests : Request(r) \/ Write(r) \/ \E s \in Statuses : WriteHeader(r, s)

Spec == Init /\ [][Next]_vars

\* The goroutines run, and handlers return.  Nothing is assumed of the peer.
FairSpec == Spec /\ WF_vars(ServeConn) /\ \A r \in Requests : WF_vars(Request(r))

-----------------------------------------------------------------------------
(* Properties *)

\* A request is judged on the whole of what the peer sent, and as the rules for
\* the message require: a handler runs only for a legal message that arrived to
\* its FIN, no byte of it missed between RecvState and Recv; a request is
\* answered 413 only when it is too long, called incomplete only when it was reset
\* or has no header section, and rejected only when the connection or the context
\* ended first.
VerdictsRight ==
  \A r \in Requests : LET v == rq[r].verdict  m == script[r].items IN
    \/ v = ""
    \/ v = "H3_REQUEST_REJECTED" /\ (closed # "open" \/ ctxDone)
    \/ v = "H3_REQUEST_INCOMPLETE" /\ script[r].end = "reset" /\ r \in ended
    \/ v = "413" /\ Len(m) > maxRequestBytes
    \/ /\ script[r].end = "fin" /\ r \in ended /\ taken[r] = Len(m)
       /\ Len(m) <= maxRequestBytes /\ v = RequiredVerdict(m)

\* The control frames of the rules' point of view.
ControlFrames(u) == SubSeq(Received(u), TypeLen + 1, sent[u])
Identifiers(u, t) == {i \in DOMAIN ControlFrames(u) : ControlFrames(u)[i].type = t}

LegalControl(u) == LET f == ControlFrames(u) IN
  /\ u \notin ended
  /\ \A i \in DOMAIN f : i = 1 <=> f[i].type = "SETTINGS"
  /\ \A i \in DOMAIN f : f[i].type \in {"SETTINGS", "GOAWAY", "MAX_PUSH_ID", "grease"}
                         /\ f[i].form = "ok"
  /\ \A i, j \in Identifiers(u, "GOAWAY") : i < j => f[j].n <= f[i].n
  /\ \A i, j \in Identifiers(u, "MAX_PUSH_ID") : i < j => f[i].n <= f[j].n

\* Nothing the peer sent on its unidirectional streams is passed over, however it
\* is cut into datagrams: once a pass of serviceUni is over and the connection is
\* served on, every control frame that has arrived was read, in order, and is
\* legal; the critical streams are each open and unique; and the limit for
\* responses is the one SETTINGS stated.
ControlHeard ==
  pc \in {"accept", "poll"} =>
    /\ \A u \in Uni : sent[u] >= TypeLen =>
         LET typ == script[u].items[TypeLen].type IN
         /\ typ = "control" => u = cs.control /\ LegalControl(u)
         /\ typ = "encoder" => u = cs.qpackEnc /\ u \notin ended
         /\ typ = "decoder" => u = cs.qpackDec /\ u \notin ended
         /\ typ # "push"
    /\ StatedLimits # {} => cs.peerMaxFieldSection \in StatedLimits

\* SETTINGS bind every response that is not yet encoded when serviceUni has read them,
\* also that of a request accepted long before, and every response to a request that
\* came with them in one datagram or after them: no response larger than the stated
\* field-section limit is sent.  And what is sent is the handler's first final status,
\* never an interim one (the Load at encoding, and serveConn's order of serviceUni and
\* AcceptBidiStream).
SettingsBindResponses ==
  \A r \in Requests : out[r].kind = "response" =>
    /\ told[r] # NoLimit => out[r].size <= told[r]
    /\ rq[r].verdict = "serve" => out[r].status = IF rq[r].final = 0 THEN 200 ELSE rq[r].final
    /\ rq[r].verdict # "serve" => r \in stopped

\* What the connection still has to do: settle a request that has arrived to its
\* end or, once it is closed, end its goroutines.
Owed ==
  IF closed = "open" THEN \E r \in Requests : r \in ended /\ out[r].kind = "none"
  ELSE pc # "done" \/ \E r \in Requests : ~ at(r, "none") /\ ~ at(r, "done")

\* A request whose stream has ended is answered, reset, or cut off with its
\* connection; and once the connection is closed every goroutine of it ends: none
\* stays parked in WaitReadable or in Poll.  A peer has finitely many requests, so
\* each debt is paid when again and again there is none.
EveryRequestSettles == []<>(~ Owed)
=============================================================================
