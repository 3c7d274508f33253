--------------------------- MODULE MCSendCredits ---------------------------
(* SendCredits on a small connection.  Shared: both writers on one stream.  *)
(* Apart: each on its own.                                                  *)
EXTENDS SendCredits, TLC

CONSTANTS w1, w2, s1, s2

Shared == (w1 :> s1) @@ (w2 :> s1)
Apart  == (w1 :> s1) @@ (w2 :> s2)
=============================================================================
