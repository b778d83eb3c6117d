--------------------------- MODULE MCUpdateManager ---------------------------
(***************************************************************************)
(* Constants of the TLC runs of UpdateManager.                             *)
(***************************************************************************)
EXTENDS UpdateManager

CONSTANTS c1, c2, p1, d1

OneClient == {c1}
TwoClients == {c1, c2}
OnePoller == {p1}
Nobody == {}
OneDaemon == {d1}
OneVersion == {1}
TwoVersions == {1, 2}
=============================================================================
