--------------------------- MODULE MCStreamTable ---------------------------
(***************************************************************************)
(* StreamTable for TLC.                                                    *)
(***************************************************************************)
EXTENDS StreamTable

OpenSettings  == [push |-> 1, limit |-> noStreamLimit, win |-> 3]
TightSettings == [push |-> 1, limit |-> 1, win |-> 5]
NoPush        == [push |-> 0, limit |-> 1, win |-> 3]

TwoSettings == {OpenSettings, TightSettings}
AllSettings == {OpenSettings, TightSettings, NoPush}

=============================================================================
