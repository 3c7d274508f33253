--------------------------- MODULE MCConnTeardown ---------------------------
(***************************************************************************)
(* ConnTeardown for TLC.                                                   *)
(***************************************************************************)
EXTENDS ConnTeardown

=============================================================================
