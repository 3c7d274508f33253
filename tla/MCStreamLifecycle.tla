------------------------- MODULE MCStreamLifecycle -------------------------
(* Model values and bounds for StreamLifecycle.                            *)
EXTENDS StreamLifecycle

=============================================================================
