---------------------------- MODULE Http3Message ----------------------------
(***************************************************************************)
(* What http3server/server.go makes of the bytes of one request stream:    *)
(* decodeRequest and what it calls, as an operator from the stream's       *)
(* frames to a verdict, and a declarative reading of the same rules.       *)
(*                                                                         *)
(* A frame is a record: its type, the form of its payload, a number (the   *)
(* length of DATA, the value of a setting, the identifier of GOAWAY and    *)
(* MAX_PUSH_ID) and the Content-Length values of a HEADERS frame, -1 for   *)
(* a value that is not 1*DIGIT.  The frame reader belongs to the HTTP/3    *)
(* codec: "CUT" is a tail it cannot turn into a frame, "LONG" a frame      *)
(* whose declared length is over the reader's maximum.                     *)
(***************************************************************************)
EXTENDS Integers, Sequences, SequencesExt

Frame(type, form, n) == [type |-> type, form |-> form, n |-> n, cl |-> <<>>]
Headers(form, cl) == [type |-> "HEADERS", form |-> form, n |-> 0, cl |-> cl]
Data(n) == Frame("DATA", "ok", n)

\* PUSH_PROMISE stands for itself and for the reserved types 0x02, 06, 08, 09.
ControlOnly == {"SETTINGS", "CANCEL_PUSH", "MAX_PUSH_ID", "PUSH_PROMISE"}

\* The codes a request stream is reset with, and the ones of the connection.
ResetCodes == {"H3_REQUEST_INCOMPLETE", "H3_REQUEST_REJECTED",
               "H3_MESSAGE_ERROR", "H3_INTERNAL_ERROR"}
ConnFrameErrors == {"H3_FRAME_UNEXPECTED", "H3_FRAME_ERROR"}

\* checkContentLength accepts the declared values cl for a body of n bytes.
checkContentLength(cl, n) ==
  \/ cl = <<>>
  \/ (\A i \in DOMAIN cl : cl[i] = cl[1]) /\ cl[1] # -1 /\ cl[1] = n

\* buildRequest: the verdict on a decoded field section and the whole body.
buildRequest(h, n) ==
  IF h.form = "malformed" \/ ~ checkContentLength(h.cl, n)
  THEN "H3_MESSAGE_ERROR"
  ELSE "serve"

\* decodeFields: the verdict on a field section, "" when it decodes.
decodeFields(h) ==
  CASE h.form = "undecodable" -> "H3_MESSAGE_ERROR"
    [] h.form = "oversize" -> "431"
    [] OTHER -> ""

\* Mutant: content is taken after the trailer section as well.
takesContentAfterTrailers(d) == d.seen

\* DATA has its place between the header section and the trailer section.
takesContent(d) == d.seen /\ ~ d.trailers

\* One turn of the loop of decodeRequest; a verdict is a return.
readFrame(d, f) ==
  CASE d.verdict # "" -> d
    [] f.type = "LONG" -> [d EXCEPT !.verdict = "H3_MESSAGE_ERROR"]
    [] f.type = "CUT" -> IF d.seen THEN [d EXCEPT !.verdict = "H3_FRAME_ERROR"] ELSE d
    [] f.type = "HEADERS" ->
         IF d.trailers THEN [d EXCEPT !.verdict = "H3_FRAME_UNEXPECTED"]
         ELSE IF d.seen THEN [d EXCEPT !.trailers = TRUE]
         ELSE [d EXCEPT !.seen = TRUE, !.fields = f, !.verdict = decodeFields(f)]
    [] f.type = "DATA" ->
         IF takesContent(d) THEN [d EXCEPT !.body = @ + f.n]
         ELSE [d EXCEPT !.verdict = "H3_FRAME_UNEXPECTED"]
    [] f.type \in ControlOnly -> [d EXCEPT !.verdict = "H3_FRAME_UNEXPECTED"]
    [] OTHER -> d

\* decodeRequest: "serve", "431", or the code of the stream or connection error.
decodeRequest(stream) ==
  LET d == FoldLeft(readFrame,
                    [seen |-> FALSE, trailers |-> FALSE, body |-> 0,
                     fields |-> Headers("ok", <<>>), verdict |-> ""], stream)
  IN  IF d.verdict # "" THEN d.verdict
      ELSE IF ~ d.seen THEN "H3_REQUEST_INCOMPLETE"
      ELSE buildRequest(d.fields, d.body)

-----------------------------------------------------------------------------
(* The reference: RFC 9114, section 4.1, as server.go quotes it.  A message *)
(* is one HEADERS frame, DATA frames, and at most one more HEADERS frame;   *)
(* the first frame that cannot be continued to a message decides.           *)

OfType(m, t) == {i \in DOMAIN m : m[i].type = t}
HeadersBefore(m, i) == {j \in OfType(m, "HEADERS") : j < i}

OutOfSequence(m, i) ==
  \/ m[i].type \in ControlOnly
  \/ m[i].type = "HEADERS" /\ \E j, k \in HeadersBefore(m, i) : j # k
  \/ m[i].type = "DATA" /\ ~ \E j \in HeadersBefore(m, i) : HeadersBefore(m, i) = {j}

Truncated(m, i) == m[i].type = "CUT" /\ HeadersBefore(m, i) # {}

BadFieldSection(m, i) ==
  /\ m[i].type = "HEADERS" /\ HeadersBefore(m, i) = {}
  /\ m[i].form \in {"undecodable", "oversize"}

Offends(m, i) ==
  OutOfSequence(m, i) \/ Truncated(m, i) \/ BadFieldSection(m, i) \/ m[i].type = "LONG"

BodyLength(m) == FoldLeft(LAMBDA n, f : n + f.n, 0,
                          SelectSeq(m, LAMBDA f : f.type = "DATA"))

\* The verdict the rules call for on the whole message m.
RequiredVerdict(m) ==
  IF \E i \in DOMAIN m : Offends(m, i)
  THEN LET i == CHOOSE j \in DOMAIN m :
                  Offends(m, j) /\ \A k \in 1..(j - 1) : ~ Offends(m, k)
       IN  CASE OutOfSequence(m, i) -> "H3_FRAME_UNEXPECTED"
             [] Truncated(m, i) -> "H3_FRAME_ERROR"
             [] m[i].form = "oversize" -> "431"
             [] OTHER -> "H3_MESSAGE_ERROR"
  ELSE IF OfType(m, "HEADERS") = {} THEN "H3_REQUEST_INCOMPLETE"
  ELSE LET h == m[CHOOSE i \in OfType(m, "HEADERS") : HeadersBefore(m, i) = {}]
       IN  IF h.form = "ok" /\ \A i \in DOMAIN h.cl : h.cl[i] = BodyLength(m)
           THEN "serve" ELSE "H3_MESSAGE_ERROR"
=============================================================================
