---------------------------- MODULE MCUpdateHub -----------------------------
(***************************************************************************)
(* A hub with two relays and two renders.  HistoryLimit is 1: with three   *)
(* publishes the history is trimmed while relays are behind it.            *)
(***************************************************************************)
EXTENDS UpdateHub

CONSTANTS c1, c2, g1, g2

MCReaders == {c1, c2}
MCRenders == {g1, g2}
=============================================================================
