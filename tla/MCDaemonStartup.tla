-------------------------- MODULE MCDaemonStartup --------------------------
(***************************************************************************)
(* Three calls and a daemon for each of them.                              *)
(***************************************************************************)
EXTENDS DaemonStartup

CONSTANTS d1, d2, d3, a1, a2, a3

FaultsWhenAlone == [overlap \in BOOLEAN |-> IF overlap THEN 0 ELSE 2]
=============================================================================
