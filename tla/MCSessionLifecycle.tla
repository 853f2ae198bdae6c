------------------------- MODULE MCSessionLifecycle -------------------------
(***************************************************************************)
(* Two pids, one of which may have two requests.  There are two shells and *)
(* two requests in all: two shells of one pid after another, or one of     *)
(* each pid, with whichever requests.                                      *)
(***************************************************************************)
EXTENDS SessionLifecycle

CONSTANTS p1, p2

PidOf == [r \in Requests |-> IF r = 3 THEN p2 ELSE p1]
=============================================================================
