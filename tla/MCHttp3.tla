------------------------------- MODULE MCHttp3 -------------------------------
(***************************************************************************)
(* A peer with two unidirectional streams and two requests.  Its scripts   *)
(* vary one part at a time: the control stream, the other unidirectional   *)
(* stream, or the message on the first request stream.                     *)
(***************************************************************************)
EXTENDS Http3

MCUni == {1, 2}
MCRequests == {3, 4}

On(items, end) == [items |-> items, end |-> end]
Typed(t, frames, end) == On(<<Frame("varint", "ok", 0), Frame(t, "ok", 0)>> \o frames, end)
Settings(n) == Frame("SETTINGS", "ok", n)
Get == On(<<Headers("ok", <<>>)>>, "fin")
Silent == On(<<>>, "open")

After == {Frame("GOAWAY", "ok", 1), Frame("GOAWAY", "ok", 0), Frame("MAX_PUSH_ID", "ok", 1),
          Frame("MAX_PUSH_ID", "ok", 0), Frame("grease", "ok", 0)}
Faults == {Settings(1), Frame("LONG", "ok", 0), Frame("CANCEL_PUSH", "ok", 0), Data(1),
           Frame("GOAWAY", "bad", 0)}

ControlScripts ==
  {Typed("control", <<Settings(NoLimit), f, g>>, "open") : f \in After, g \in After \cup Faults}
  \cup {Typed("control", <<f>>, "open") :
          f \in {Frame("SETTINGS", "cut", 0), Frame("SETTINGS", "twice", 0),
                 Frame("GOAWAY", "ok", 0), Frame("LONG", "ok", 0)}}
  \cup {Typed("control", <<Settings(0)>>, e) : e \in {"fin", "reset"}}
  \cup {Typed("control", <<Data(1)>>, "fin")}

OtherScripts ==
  {Typed(t, <<>>, "open") : t \in {"encoder", "decoder", "push", "grease"}}
  \cup {Typed("encoder", <<Data(1)>>, "reset"), Typed("decoder", <<>>, "fin"),
        Typed("control", <<Settings(3)>>, "open"), On(<<Frame("varint", "ok", 0)>>, "fin")}

Pieces == {Headers("ok", <<>>), Data(1), Frame("SETTINGS", "ok", 0), Frame("GOAWAY", "ok", 0),
           Frame("LONG", "ok", 0)}
FirstPieces == Pieces \cup {Headers("ok", <<1>>), Headers("ok", <<1, 2>>), Headers("ok", <<-1>>),
           Headers("malformed", <<>>), Headers("undecodable", <<>>), Headers("oversize", <<>>)}
Cut == Frame("CUT", "ok", 0)

Messages ==
  {<<>>, <<Cut>>}
  \cup {<<f>> : f \in FirstPieces}
  \cup {<<f, g>> : f \in FirstPieces, g \in Pieces \cup {Cut}}
  \cup {<<Headers("ok", <<>>), f, g>> : f \in Pieces, g \in Pieces}
  \cup {<<Headers("ok", <<>>), Data(1), f, g>> : f \in {Headers("ok", <<>>)}, g \in Pieces}
  \cup {<<Headers("ok", <<>>), Data(1), Data(1), Data(1), Data(1)>>}

RequestScripts == {On(m, "fin") : m \in Messages}
  \cup {On(<<Headers("ok", <<>>), Data(1)>>, e) : e \in {"open", "reset"}}

Plain == Typed("control", <<Settings(0)>>, "open")
Wide == Typed("control", <<Settings(3)>>, "open")

MCScripts ==
  {(1 :> c @@ 2 :> Silent @@ 3 :> Silent @@ 4 :> Silent) : c \in ControlScripts}
  \cup {(1 :> Wide @@ 2 :> o @@ 3 :> Silent @@ 4 :> Silent) : o \in OtherScripts}
  \cup {(1 :> Silent @@ 2 :> Silent @@ 3 :> q @@ 4 :> Silent) : q \in RequestScripts}
  \cup {(1 :> Silent @@ 2 :> Silent @@ 3 :> On(m, "fin") @@ 4 :> Get) :
          m \in {<<Data(1)>>, <<Headers("ok", <<>>), Cut>>}}
  \cup {(1 :> c @@ 2 :> Silent @@ 3 :> q @@ 4 :> Silent) : c \in {Plain, Wide, Typed("control", <<Data(1)>>, "open")},
          q \in {Get, On(<<Headers("oversize", <<>>)>>, "fin")}}
=============================================================================
