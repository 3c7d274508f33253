----------------------------- MODULE MCHealthCall ----------------------------
(***************************************************************************)
(* Instances of HealthCall for TLC.                                        *)
(***************************************************************************)
EXTENDS HealthCall

NoTimeout == [n |-> 0, unit |-> 1]
Request ==
  [kind |-> "app", head |-> FALSE, gzip |-> FALSE, http |-> FALSE, expect |-> FALSE,
   misdirected |-> FALSE, ended |-> TRUE, streaming |-> FALSE, coded |-> FALSE,
   sized |-> FALSE, fits |-> TRUE, packs |-> TRUE, body |-> <<>>, timeout |-> NoTimeout]

\* Handlers: both styles, with and without the wrapper, and their header fields.
HandlerInputs ==
  {[Request EXCEPT !.head = h, !.gzip = z, !.http = s, !.coded = e, !.sized = l] :
     h \in BOOLEAN, z \in BOOLEAN, s \in BOOLEAN, e \in BOOLEAN, l \in BOOLEAN}
  \cup {[Request EXCEPT !.http = s, !.fits = FALSE] : s \in BOOLEAN}
  \cup {[Request EXCEPT !.http = s, !.gzip = TRUE, !.sized = TRUE, !.packs = FALSE] :
          s \in BOOLEAN}

\* Ways of getting to the handler.
ServeInputs ==
  {[Request EXCEPT !.ended = FALSE, !.expect = e, !.streaming = s, !.misdirected = m] :
     e \in BOOLEAN, s \in BOOLEAN, m \in BOOLEAN}

Bodies == {<<>>, <<"nil", "msg">>, <<"msg", "packed">>, <<"packed">>, <<"long">>, <<"bare">>, <<"msg", "cut">>, <<"cut">>}
CallInputs ==
  {[Request EXCEPT !.kind = k, !.ended = FALSE, !.streaming = s, !.body = b] :
     k \in {"unary", "server", "client", "bidi"}, s \in BOOLEAN, b \in Bodies}
  \cup {[Request EXCEPT !.kind = k] : k \in {"badtype", "nomethod", "unary", "bidi"}}
  \cup {[Request EXCEPT !.kind = "unary", !.gzip = TRUE]}
  \cup {[Request EXCEPT !.kind = "unary", !.timeout = [n |-> n, unit |-> u]] :
          n \in 0..12, u \in {0, 1, 3, 10}}

WatchInputs == {[Request EXCEPT !.kind = "watch", !.ended = FALSE, !.body = <<"msg">>]}

MCInputs == HandlerInputs \cup ServeInputs \cup CallInputs \cup WatchInputs
=============================================================================
