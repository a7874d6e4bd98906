---------------------------- MODULE MCSyncClient ----------------------------
(* SyncClient with the values the configurations choose from.              *)
EXTENDS SyncClient

CONSTANTS x, y

OneName == {x}
TwoNames == {x, y}
None == {}
=============================================================================
